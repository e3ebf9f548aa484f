--------------------------- MODULE EffectInference ---------------------------
(* The mutability the analyzer infers (src/analyzer.ts).  Every body is       *)
(* checked once and leaves its own effects, the functions it calls and the    *)
(* function pointers it calls through; a worklist adds the specializations of *)
(* generics; a fixpoint then carries effects backwards along calls; and each  *)
(* function's ABI mutability is resolved from what arrived.  A call through a *)
(* pointer is followed to the exact targets of the pointer when every binding *)
(* of it is known, and otherwise to every function of its signature whose     *)
(* address was taken.                                                         *)
(*                                                                            *)
(* A program is a record: per function its own effects, calls, the addresses  *)
(* it stores where no analysis follows them, and its pointer slots (a slot is *)
(* a pointer variable, or a pointer field of a struct built from a literal).  *)
EXTENDS Naturals, Sequences, FiniteSets

CONSTANTS Fns, Slots, Sigs, SlotSig, Unknown, None, Programs

Kinds == {"fn", "generic", "base", "abstract"}
Effect == {"writes", "reads", "env"}
Mutability == {"pure", "view", "nonpayable", "payable"}
Declared == {"none", "static", "view", "pure", "payable"}

ProgramType ==
  [order : Seq(Fns),                                \* bodies as they are checked
   kind : [Fns -> Kinds], own : [Fns -> SUBSET Effect], calls : [Fns -> SUBSET Fns],
   stores : [Fns -> SUBSET Fns],                    \* addresses stored out of sight
   binds : [Fns -> SUBSET (Slots \X (Fns \cup Slots \cup {Unknown}))],
   open : [Fns -> SUBSET Slots],                    \* parameters, escaped structs
   thru : [Fns -> SUBSET Slots], storedCalls : [Fns -> SUBSET Sigs],
   sig : [Fns -> Sigs], multi : SUBSET Fns,         \* returns several values
   decl : [Fns -> Declared], getter : SUBSET Fns, guarded : SUBSET Fns,
   marked : SUBSET Fns,                             \* External<T> that returns a value
   overrides : SUBSET (Fns \X Fns), varHeads : SUBSET Fns, getterPure : BOOLEAN,
   special : SUBSET Fns]        \* addresses taken by constructor, receive, fallback

\* What the passes before have made sure of: each body is checked once, a generic's
\* when it is called; calls and addresses are of functions that are emitted ("a
\* dropped base is never a callee target"); a pointer holds functions of its own
\* signature (JETH428); "static is the only declared-mutability anchor left in the
\* language" beside payable, and a static is not guarded (JETH260).
WellFormed(p) ==
  /\ p \in ProgramType
  /\ \A i, j \in 1..Len(p.order) : p.order[i] = p.order[j] => i = j
  /\ {p.order[i] : i \in 1..Len(p.order)} = {f \in Fns : p.kind[f] \in {"fn", "base"}}
  /\ \A f \in p.special : p.kind[f] = "fn"
  /\ \A f \in Fns :
       /\ \A g \in p.calls[f] : p.kind[g] \in {"fn", "generic"}
       /\ \A g \in p.stores[f] : p.kind[g] = "fn"
       /\ \A w \in p.binds[f] :
            /\ w[2] \in Fns => p.kind[w[2]] = "fn" /\ p.sig[w[2]] = SlotSig[w[1]]
            /\ w[2] \in Slots => SlotSig[w[2]] = SlotSig[w[1]]
       /\ p.kind[f] \in {"fn", "generic"} => p.decl[f] \in {"none", "static", "payable"}
       /\ p.decl[f] = "static" => f \notin p.guarded

ASSUME ProgramsAssumption == \A p \in Programs : WellFormed(p)
ASSUME DomainsAssumption ==
  /\ Unknown \notin Fns \cup Slots /\ None \notin Fns
  /\ Fns \cap Slots = {} /\ SlotSig \in [Slots -> Sigs]

VARIABLES
  prog,      \* the program
  phase,     \* which pass of analyzeContract runs
  todo,      \* bodies not yet checked, in order
  queue,     \* specializationQueue
  taken,     \* addressTaken
  groups,    \* addressTakenBySig, as pairs of a signature and a function
  entries,   \* the keys of the effects map, in insertion order
  eff,       \* the effects held by each entry
  via,       \* writesVia: how a write arrived that is not plainly the body's
  idx,       \* the entry the sweep visits next
  changed,   \* the sweep has changed something
  mut,       \* the mutability of each function
  errs       \* diagnostics, as pairs of a code and a function

vars == <<prog, phase, todo, queue, taken, groups, entries, eff, via, idx, changed, mut, errs>>

InEntries == {entries[i] : i \in 1..Len(entries)}

-----------------------------------------------------------------------------
(* Function pointers: what a body's slots may hold                            *)

Sources(f, x) == {s \in Fns \cup Slots \cup {Unknown} : <<x, s>> \in prog.binds[f]}

\* The slots whose bindings flow into slot x.
SlotReach(f, x) ==
  {y \in Slots : \A S \in SUBSET Slots :
      (x \in S /\ \A z \in S : Sources(f, z) \cap Slots \subseteq S) => y \in S}

\* Mutant: a slot with an unknown binding counts as known.
KnownIgnoringUnknown(f, x) == \A y \in SlotReach(f, x) : y \notin prog.open[f] /\ Sources(f, y) # {}

\* Every value that can reach slot x has been seen.
Known(f, x) ==
  \A y \in SlotReach(f, x) :
      y \notin prog.open[f] /\ Sources(f, y) # {} /\ Unknown \notin Sources(f, y)

Targets(f, x) == UNION {Sources(f, y) \cap Fns : y \in SlotReach(f, x)}

\* ptrCallTargets
PtrCallTargets(f) == UNION {Targets(f, x) : x \in {y \in prog.thru[f] : Known(f, y)}}

\* ptrCallSigs
PtrCallSigs(f) == prog.storedCalls[f] \cup {SlotSig[x] : x \in {y \in prog.thru[f] : ~Known(f, y)}}

\* The addresses a body takes, wherever it puts them.
Takes(f) == prog.stores[f] \cup {g \in Fns : \E x \in Slots : <<x, g>> \in prog.binds[f]}

-----------------------------------------------------------------------------
(* The passes over the bodies                                                 *)

\* Specializations a body is first to call; one whose check runs is registered already.
NewSpecs(f) == {g \in prog.calls[f] : prog.kind[g] = "generic" /\ g \notin InEntries \cup {f}}

\* An entry of the effects map.
Enter(f) ==
  /\ entries' = Append(entries, f)
  /\ eff' = [eff EXCEPT ![f] = prog.own[f]]

\* An own function of the contract, or a base version kept for super.
CheckFunction ==
  /\ phase = "bodies" /\ todo # <<>> /\ prog.kind[Head(todo)] = "fn"
  /\ Enter(Head(todo)) /\ todo' = Tail(todo)
  /\ queue' = queue \cup NewSpecs(Head(todo))
  /\ taken' = taken \cup Takes(Head(todo))
  /\ UNCHANGED <<prog, phase, groups, via, idx, changed, mut, errs>>

\* A base head a public variable replaced: checked for its effects alone, what
\* it takes and queues is restored.
CheckBaseHead ==
  /\ phase = "bodies" /\ todo # <<>> /\ prog.kind[Head(todo)] = "base"
  /\ Enter(Head(todo)) /\ todo' = Tail(todo)
  /\ UNCHANGED <<prog, phase, queue, taken, groups, via, idx, changed, mut, errs>>

\* The worklist of specializations; which comes first is left open.
DrainSpecialization ==
  /\ phase = "bodies" /\ todo = <<>>
  /\ \E g \in queue :
       /\ Enter(g)
       /\ queue' = (queue \cup NewSpecs(g)) \ {g}
       /\ taken' = taken \cup Takes(g)
  /\ UNCHANGED <<prog, phase, todo, groups, via, idx, changed, mut, errs>>

\* Functions that return several values are left out of the groups.
StartFixpoint ==
  /\ phase = "bodies" /\ todo = <<>> /\ queue = {}
  /\ groups' = {<<prog.sig[g], g>> : g \in (taken \cap InEntries) \ prog.multi}
  /\ phase' = "fixpoint" /\ idx' = 1 /\ changed' = FALSE
  /\ UNCHANGED <<prog, todo, queue, taken, entries, eff, via, mut, errs>>

-----------------------------------------------------------------------------
(* The fixpoint                                                               *)

Direct(f) == (prog.calls[f] \cup PtrCallTargets(f)) \cap InEntries
BySig(f) == {g \in InEntries : \E s \in PtrCallSigs(f) : <<s, g>> \in groups}
Reachable(f) == Direct(f) \cup BySig(f)

Writers(S) == {g \in S : "writes" \in eff[g]}

NoVia == [target |-> None, through |-> None]

\* Why f now writes: a real call is described before an arrival by signature;
\* which of several calls is described is left open.
Causes(f) ==
  IF Writers(Direct(f)) # {}
  THEN {IF via[g].target = None THEN NoVia
        ELSE [target |-> via[g].target,
              through |-> IF via[g].through = None THEN g ELSE via[g].through] :
        g \in Writers(Direct(f))}
  ELSE {[target |-> g, through |-> None] : g \in Writers(BySig(f))}

Arriving(f) == UNION {eff[g] : g \in Reachable(f)}

\* One entry of a sweep takes over what the functions it reaches do.
Visit ==
  /\ phase = "fixpoint" /\ idx <= Len(entries)
  /\ LET f == entries[idx] IN
       /\ eff' = [eff EXCEPT ![f] = @ \cup Arriving(f)]
       /\ changed' = (changed \/ ~ Arriving(f) \subseteq eff[f])
       /\ IF "writes" \in Arriving(f) \ eff[f]
          THEN \E c \in Causes(f) : via' = [via EXCEPT ![f] = c]
          ELSE via' = via
  /\ idx' = idx + 1
  /\ UNCHANGED <<prog, phase, todo, queue, taken, groups, entries, mut, errs>>

\* Mutant: a single sweep.
EndSweepOnce ==
  /\ phase = "fixpoint" /\ idx = Len(entries) + 1
  /\ phase' = "resolve" /\ UNCHANGED idx /\ changed' = FALSE
  /\ UNCHANGED <<prog, todo, queue, taken, groups, entries, eff, via, mut, errs>>

\* Sweeps repeat until one changes nothing.
EndSweep ==
  /\ phase = "fixpoint" /\ idx = Len(entries) + 1
  /\ IF changed THEN idx' = 1 /\ UNCHANGED phase ELSE phase' = "resolve" /\ UNCHANGED idx
  /\ changed' = FALSE
  /\ UNCHANGED <<prog, todo, queue, taken, groups, entries, eff, via, mut, errs>>

-----------------------------------------------------------------------------
(* Resolution and the checks on what was resolved                             *)

DeclaredMut(d) ==
  CASE d = "none" -> "nonpayable" [] d \in {"static", "pure"} -> "pure"
    [] d = "view" -> "view" [] d = "payable" -> "payable"

Inferred(f) ==
  prog.kind[f] \in {"fn", "generic"} /\ f \in InEntries /\ prog.decl[f] \in {"none", "static"}

\* A declared mutability is left alone.
Resolved(f) ==
  IF ~Inferred(f) \/ prog.decl[f] = "static" THEN mut[f]
  ELSE IF "writes" \in eff[f] \/ f \in prog.guarded THEN "nonpayable"
  ELSE IF eff[f] # {} THEN "view" ELSE "pure"

\* A static is declared pure.
StaticErrors ==
  {<<"JETH055", f>> : f \in {g \in InEntries : prog.decl[g] = "static" /\ eff[g] \cap {"writes", "reads"} # {}}}
  \cup {<<"JETH164", f>> : f \in {g \in InEntries : prog.decl[g] = "static" /\ "env" \in eff[g]}}

\* A get accessor writes neither storage nor the guard; a reader is spelled get.
AccessorErrors ==
  {<<"JETH043", f>> : f \in {g \in prog.getter : Inferred(g) /\ "writes" \in eff[g]}}
  \cup {<<"JETH473", f>> : f \in {g \in prog.getter \cap prog.guarded : Inferred(g)}}
  \cup {<<"JETH352", f>> : f \in {g \in prog.marked \ prog.getter : Inferred(g) /\ "writes" \notin eff[g]}}

MutRank == [pure |-> 0, view |-> 1, nonpayable |-> 2, payable |-> 3]

\* An override, or an interface's implementation, may keep or tighten what it
\* replaces, and payable only meets payable (JETH378, JETH387).
LadderErrors(m) ==
  {<<"JETH378", p[1]>> : p \in {q \in prog.overrides :
      \/ MutRank[m[q[1]]] > MutRank[m[q[2]]]
      \/ (m[q[1]] = "payable") # (m[q[2]] = "payable")}}

\* A public variable that is not a constant may not replace a pure head, and
\* no variable a payable one.
VarHeadErrors ==
  {<<"JETH433", f>> : f \in {g \in prog.varHeads :
      \/ ~prog.getterPure /\ (prog.decl[g] \in {"static", "pure"} \/ (g \in InEntries /\ eff[g] = {}))
      \/ prog.decl[g] = "payable"}}

Resolve ==
  /\ phase = "resolve"
  /\ mut' = [f \in Fns |-> Resolved(f)]
  /\ errs' = StaticErrors \cup AccessorErrors \cup LadderErrors(mut') \cup VarHeadErrors
  /\ phase' = "special"
  /\ UNCHANGED <<prog, todo, queue, taken, groups, entries, eff, via, idx, changed>>

\* The constructor, receive and fallback are checked after everything else.
CheckSpecials ==
  /\ phase = "special"
  /\ taken' = taken \cup prog.special
  /\ phase' = "done"
  /\ UNCHANGED <<prog, todo, queue, groups, entries, eff, via, idx, changed, mut, errs>>

Init ==
  /\ prog \in Programs
  /\ phase = "bodies" /\ todo = prog.order /\ queue = {} /\ taken = {} /\ groups = {}
  /\ entries = <<>> /\ eff = [f \in Fns |-> {}] /\ via = [f \in Fns |-> NoVia]
  /\ idx = 0 /\ changed = FALSE
  /\ mut = [f \in Fns |-> DeclaredMut(prog.decl[f])] /\ errs = {}

Next ==
  \/ CheckFunction \/ CheckBaseHead \/ DrainSpecialization
  \/ StartFixpoint \/ Visit \/ EndSweep \/ Resolve \/ CheckSpecials

Spec == Init /\ [][Next]_vars

\* The sweeps end: the analyzer is one sequential program.
FairSpec == Spec /\ WF_vars(Next)

-----------------------------------------------------------------------------
(* What the program does when it runs                                         *)

\* Functions an address can stand for at run time: taken by a body that is
\* deployed, or by the constructor, receive or fallback.
RunTaken ==
  prog.special \cup UNION {Takes(f) : f \in {g \in InEntries : prog.kind[g] # "base"}}

\* The functions slot x of f may hold when f runs.
MayHold(f, x) ==
  {g \in Fns : \A H \in SUBSET (Slots \X Fns) :
     (\A y \in Slots :
        /\ \A s \in Sources(f, y) : s \in Fns => <<y, s>> \in H
        /\ \A s \in Sources(f, y) \cap Slots : \A h \in Fns : <<s, h>> \in H => <<y, h>> \in H
        /\ (y \in prog.open[f] \/ Unknown \in Sources(f, y) \/ Sources(f, y) = {}) =>
             \A h \in RunTaken : prog.sig[h] = SlotSig[y] => <<y, h>> \in H)
     => <<x, g>> \in H}

RunCalls(f) ==
  prog.calls[f] \cup {g \in RunTaken : prog.sig[g] \in prog.storedCalls[f]}
  \cup UNION {MayHold(f, x) : x \in prog.thru[f]}

\* Every function that may run below f, f included.
RunReach(f) ==
  {g \in Fns : \A S \in SUBSET Fns : (f \in S /\ \A h \in S : RunCalls(h) \subseteq S) => g \in S}

RunEffects(f) == UNION {prog.own[g] : g \in RunReach(f)}

Accepted == phase = "done" /\ errs = {}

\* The functions of the deployed contract.
Deployed == {f \in InEntries : prog.kind[f] # "base"}

\* What constructor, receive and fallback take some body takes as well, and no
\* function returns several values.
PointersSeen ==
  prog.special \subseteq UNION {Takes(f) : f \in Deployed} /\ prog.multi = {}

\* A replaced head calls no generic, and what it binds to a pointer that is not
\* followed exactly is taken by a function of the contract as well.
HeadsSeen ==
  \A f \in prog.varHeads :
    /\ \A g \in prog.calls[f] : prog.kind[g] # "generic"
    /\ \A x \in prog.thru[f] : Known(f, x) \/ Targets(f, x) \subseteq UNION {Takes(h) : h \in Deployed}

-----------------------------------------------------------------------------
(* Properties                                                                 *)

\* The variables keep their types.
TypeOK ==
  /\ phase \in {"bodies", "fixpoint", "resolve", "special", "done"}
  /\ todo \in Seq(Fns) /\ entries \in Seq(Fns) /\ queue \subseteq Fns /\ taken \subseteq Fns
  /\ groups \subseteq Sigs \X Fns
  /\ eff \in [Fns -> SUBSET Effect]
  /\ via \in [Fns -> [target : Fns \cup {None}, through : Fns \cup {None}]]
  /\ idx \in Nat /\ changed \in BOOLEAN
  /\ mut \in [Fns -> Mutability]
  /\ \A i, j \in 1..Len(entries) : entries[i] = entries[j] => i = j

\* No function whose ABI says view, pure or nothing to pay writes, or reads,
\* more than that when it runs (src/analyzer.ts, the fixpoint and RESOLVE):
\* with pointers to single-valued functions that some body took.
EffectsSound ==
  Accepted /\ PointersSeen =>
    \A f \in Deployed :
      /\ mut[f] \in {"view", "pure"} => "writes" \notin RunEffects(f) /\ f \notin prog.guarded
      /\ mut[f] = "pure" => RunEffects(f) = {}

\* Deferred to the fixpoint "because addressTaken is only complete after ALL
\* bodies are checked": constructor bodies included.
EffectsSoundWithSpecials ==
  Accepted /\ prog.multi = {} =>
    \A f \in Deployed : mut[f] \in {"view", "pure"} => "writes" \notin RunEffects(f)

\* "So the effect-fixpoint grouping and the runtime dispatch agree": for
\* functions with several results too.
EffectsSoundWithTuples ==
  Accepted /\ prog.special = {} =>
    \A f \in Deployed : mut[f] \in {"view", "pure"} => "writes" \notin RunEffects(f)

\* The fixpoint is the least one: each function holds its own effects and those
\* of what it reaches, and nothing that some assignment closed under the calls
\* could do without.  A sweep that stopped early, or an effect from nowhere,
\* breaks it.
LeastEffects ==
  phase = "resolve" =>
    /\ \A f \in InEntries : prog.own[f] \cup Arriving(f) \subseteq eff[f]
    /\ \A e \in Effect : \A S \in SUBSET Fns :
         (\A f \in InEntries : (e \in prog.own[f] \/ Reachable(f) \cap S # {}) => f \in S) =>
            {f \in InEntries : e \in eff[f]} \subseteq S

\* A message that says without reserve that a function modifies state is true
\* of it: a chain of calls it really makes ends in a body that writes.
PlainWritesAreReal ==
  \A f \in InEntries : "writes" \in eff[f] /\ via[f] = NoVia =>
    \E g \in Fns : /\ "writes" \in prog.own[g]
                   /\ \A S \in SUBSET Fns : (f \in S /\ \A h \in S : Direct(h) \subseteq S) => g \in S

\* A message that blames a pointer names a writer that was taken with its
\* signature, and the function of the call chain that holds the pointer call.
BlameIsLocated ==
  phase # "bodies" => \A f \in InEntries : via[f] # NoVia =>
    LET holder == IF via[f].through = None THEN f ELSE via[f].through IN
      /\ via[f].target \in BySig(holder) /\ "writes" \in eff[via[f].target]
      /\ \A S \in SUBSET Fns : (f \in S /\ \A h \in S : Direct(h) \subseteq S) => holder \in S

\* "Only a write that arrives ONLY through the per-signature union is described
\* as the approximation it is."
BlameOnlyWithoutCalls ==
  phase = "done" => \A f \in InEntries : via[f] # NoVia =>
    \A g \in Fns :
      (\A S \in SUBSET Fns : (f \in S /\ \A h \in S : Direct(h) \subseteq S) => g \in S) =>
         "writes" \notin prog.own[g]

\* A caller that trusts the ABI of what an override replaces is never wrong:
\* where it says view nothing is written, where it says pure nothing is read.
OverridesHonest ==
  Accepted /\ PointersSeen =>
    \A p \in prog.overrides : p[1] \in Deployed =>
      /\ mut[p[2]] \in {"view", "pure"} => "writes" \notin RunEffects(p[1]) /\ p[1] \notin prog.guarded
      /\ mut[p[2]] = "pure" => RunEffects(p[1]) = {}
      /\ mut[p[2]] # "payable" => mut[p[1]] # "payable"

\* An accepted get accessor writes nothing when it runs, not even the guard, so
\* a static call of it never reverts for that.
AccessorsReadOnly ==
  Accepted /\ PointersSeen =>
    \A f \in prog.getter \cap Deployed :
      prog.decl[f] # "payable" => "writes" \notin RunEffects(f) /\ f \notin prog.guarded

\* A head a variable replaced is refused as pure only if running it really
\* touches nothing.
PureHeads ==
  PointersSeen /\ HeadsSeen =>
    \A f \in prog.varHeads \cap InEntries :
      <<"JETH433", f>> \in errs /\ prog.decl[f] = "none" => RunEffects(f) = {}

\* "Pure iff no writes, reads or environment reads, transitively through its
\* ordinary callees which are all deployed winners already in the map."
PureHeadsWithGenerics ==
  \A f \in prog.varHeads \cap InEntries :
    PointersSeen /\ <<"JETH433", f>> \in errs /\ prog.decl[f] = "none" => RunEffects(f) = {}

\* A base head that is not deployed leaves no trace in what is: no address in
\* the dispatch table that only it takes, no specialization only it calls.
HeadsLeaveNoTrace ==
  /\ taken \subseteq prog.special \cup UNION {Takes(f) : f \in Deployed}
  /\ \A g \in InEntries : prog.kind[g] = "generic" => \E f \in Deployed : g \in prog.calls[f]

\* No function of an accepted contract does, when it runs, what its ABI, the ABI of
\* what it overrides or its being an accessor denies; a base head is refused as
\* pure only if running it touches nothing.
MutabilityHonest == EffectsSound /\ OverridesHonest /\ AccessorsReadOnly /\ PureHeads

\* The effects found are the least ones the calls allow, the reasons given for
\* them are true, and a head that is not deployed adds nothing.
EffectsExact ==
  TypeOK /\ LeastEffects /\ PlainWritesAreReal /\ BlameIsLocated /\ HeadsLeaveNoTrace

\* The analysis ends.
Ends == <>(phase = "done")
=============================================================================
