----------------------------- MODULE EffectsProofs -----------------------------
(***************************************************************************)
(* What the inference of effects and the choice of the emitted functions   *)
(* get right for every program: any number of functions, pointer slots and *)
(* signatures, any calls.  The inference first.                            *)
(*                                                                         *)
(* Collected says what the passes over the bodies have gathered; Swept     *)
(* what the fixpoint has reached; Explained why; Settled what was resolved *)
(* from it.  Each is inductive with those before it.                       *)
(***************************************************************************)
EXTENDS EffectInference, Emission, TLAPS

Elements(t) == {t[i] : i \in 1..Len(t)}
Distinct(t) == \A i, j \in 1..Len(t) : t[i] = t[j] => i = j

\* What one more element does to a sequence.
LEMMA AppendFacts ==
  ASSUME NEW S, NEW t \in Seq(S), NEW e \in S
  PROVE  /\ Append(t, e) \in Seq(S)
         /\ Elements(Append(t, e)) = Elements(t) \cup {e}
         /\ Distinct(t) /\ e \notin Elements(t) => Distinct(Append(t, e))
<1> DEFINE u == Append(t, e)
<1>1. u \in Seq(S) /\ Len(u) = Len(t) + 1 /\ Len(t) \in Nat
  OBVIOUS
<1>2. /\ u[Len(t) + 1] = e
      /\ \A i \in 1..Len(t) : u[i] = t[i]
  OBVIOUS
<1>3. 1..Len(u) = 1..Len(t) \cup {Len(t) + 1}
  BY <1>1
<1>4. Elements(u) = Elements(t) \cup {e}
  BY <1>2, <1>3 DEF Elements
<1>5. Distinct(t) /\ e \notin Elements(t) => Distinct(u)
  BY <1>1, <1>2, <1>3 DEF Elements, Distinct
<1> QED
  BY <1>1, <1>4, <1>5

\* A sequence is its head and its tail.
LEMMA HeadFacts ==
  ASSUME NEW S, NEW t \in Seq(S), t # <<>>
  PROVE  /\ Head(t) \in S /\ Tail(t) \in Seq(S)
         /\ Elements(t) = {Head(t)} \cup Elements(Tail(t))
         /\ Distinct(t) => Distinct(Tail(t)) /\ Head(t) \notin Elements(Tail(t))
<1> DEFINE u == Tail(t)
<1>1. /\ Len(t) \in Nat /\ Len(t) > 0 /\ Head(t) = t[1] /\ Head(t) \in S
      /\ u \in Seq(S) /\ Len(u) = Len(t) - 1
      /\ \A i \in 1..Len(u) : u[i] = t[i + 1]
  OBVIOUS
<1>2. \A i \in 1..Len(t) : i = 1 \/ (i - 1 \in 1..Len(u) /\ t[i] = u[i - 1])
  BY <1>1
<1>3. \A i \in 1..Len(u) : i + 1 \in 1..Len(t) /\ i + 1 # 1 /\ u[i] = t[i + 1]
  BY <1>1
<1>4. 1 \in 1..Len(t)
  BY <1>1
<1>5. Elements(t) \subseteq {t[1]} \cup Elements(u)
  BY <1>2 DEF Elements
<1>6. {t[1]} \cup Elements(u) \subseteq Elements(t)
  BY <1>3, <1>4 DEF Elements
<1>7. Distinct(t) => Distinct(u)
  BY <1>1, <1>3 DEF Distinct
<1>8. Distinct(t) => t[1] \notin Elements(u)
  BY <1>3, <1>4 DEF Distinct, Elements
<1> QED
  BY <1>1, <1>5, <1>6, <1>7, <1>8

LEMMA EmptyFacts ==
  ASSUME NEW S
  PROVE  <<>> \in Seq(S) /\ Elements(<<>>) = {} /\ Distinct(<<>>)
  BY DEF Elements, Distinct

--------------------------------------------------------------------------------
(* The passes over the bodies                                                   *)

TakenByDeployed == UNION {Takes(f) : f \in Deployed}

TakenLate == IF phase = "done" THEN prog.special ELSE {}
OwnOf(f) == IF f \in InEntries THEN prog.own[f] ELSE {}

\* What the passes have gathered.
Collected ==
  /\ TypeOK
  /\ prog \in Programs
  /\ Distinct(todo) /\ Elements(todo) \cap InEntries = {}
  /\ \A f \in Elements(todo) : prog.kind[f] \in {"fn", "base"}
  /\ \A f \in InEntries : prog.kind[f] \in {"fn", "base", "generic"}
  /\ \A f \in Fns : prog.kind[f] \in {"fn", "base"} => f \in Elements(todo) \cup InEntries
  /\ \A g \in queue : prog.kind[g] = "generic" /\ g \notin InEntries
  /\ \A f \in Deployed : \A g \in prog.calls[f] : prog.kind[g] = "generic" => g \in InEntries \cup queue
  /\ \A g \in InEntries \cup queue : prog.kind[g] = "generic" => \E f \in Deployed : g \in prog.calls[f]
  /\ phase # "bodies" => todo = <<>> /\ queue = {}
  /\ taken = TakenByDeployed \cup TakenLate
  /\ phase = "fixpoint" => 1 <= idx /\ idx <= Len(entries) + 1
  /\ phase = "bodies" => \A f \in Fns : eff[f] = OwnOf(f) /\ via[f] = NoVia
  /\ phase # "bodies" => groups = {<<prog.sig[g], g>> : g \in (TakenByDeployed \cap InEntries) \ prog.multi}

LEMMA ProgramFacts ==
  ASSUME NEW p \in Programs
  PROVE  WellFormed(p) /\ p \in ProgramType
  BY ProgramsAssumption DEF WellFormed

LEMMA TakesFacts ==
  ASSUME prog \in Programs, NEW f \in Fns
  PROVE  Takes(f) \subseteq Fns /\ \A g \in Takes(f) : prog.kind[g] = "fn"
<1>1. WellFormed(prog) /\ prog \in ProgramType
  BY ProgramFacts
<1>2. prog.stores[f] \subseteq Fns /\ \A g \in prog.stores[f] : prog.kind[g] = "fn"
  BY <1>1 DEF ProgramType, WellFormed
<1>3. \A x \in Slots : \A g \in Fns : <<x, g>> \in prog.binds[f] => prog.kind[g] = "fn"
  BY <1>1 DEF WellFormed
<1> QED
  BY <1>2, <1>3 DEF Takes

LEMMA DeclaredMutType == \A d \in Declared : DeclaredMut(d) \in Mutability
  BY DEF Declared, DeclaredMut, Mutability

LEMMA InitCollected == Init => Collected
<1> SUFFICES ASSUME Init PROVE Collected
  OBVIOUS
<1>1. prog \in Programs /\ WellFormed(prog) /\ prog \in ProgramType
  BY ProgramFacts DEF Init
<1>2. prog.order \in Seq(Fns) /\ Distinct(prog.order)
  BY <1>1 DEF WellFormed, ProgramType, Distinct
<1>3. Elements(prog.order) = {f \in Fns : prog.kind[f] \in {"fn", "base"}}
  BY <1>1 DEF WellFormed, Elements
<1>4. InEntries = {} /\ entries \in Seq(Fns) /\ Len(entries) = 0
  BY DEF Init, InEntries
<1>5. Deployed = {} /\ TakenByDeployed = {}
  BY <1>4 DEF Deployed, TakenByDeployed
<1>6. mut \in [Fns -> Mutability]
  BY <1>1, DeclaredMutType DEF Init, ProgramType
<1>7. eff \in [Fns -> SUBSET Effect] /\ via \in [Fns -> [target : Fns \cup {None}, through : Fns \cup {None}]]
  BY DEF Init, NoVia
<1>8. \A i, j \in 1..Len(entries) : entries[i] = entries[j] => i = j
  BY <1>4
<1>9. TypeOK
  BY <1>2, <1>4, <1>6, <1>7, <1>8 DEF Init, TypeOK
<1>10. Distinct(todo) /\ Elements(todo) = {f \in Fns : prog.kind[f] \in {"fn", "base"}}
  BY <1>2, <1>3 DEF Init
<1>11. taken = TakenByDeployed \cup TakenLate /\ queue = {} /\ phase = "bodies"
  BY <1>5 DEF Init, TakenLate
<1>12. \A f \in Fns : eff[f] = OwnOf(f) /\ via[f] = NoVia
  BY <1>4 DEF Init, OwnOf
<1> QED
  BY <1>1, <1>4, <1>5, <1>9, <1>10, <1>11, <1>12 DEF Collected

LEMMA EnterFacts ==
  ASSUME TypeOK, prog \in Programs, NEW f \in Fns, f \notin InEntries, Enter(f)
  PROVE  /\ entries' \in Seq(Fns) /\ InEntries' = InEntries \cup {f}
         /\ \A i, j \in 1..Len(entries') : entries'[i] = entries'[j] => i = j
         /\ eff' \in [Fns -> SUBSET Effect]
         /\ \A h \in Fns : eff'[h] = IF h = f THEN prog.own[f] ELSE eff[h]
<1>1. entries \in Seq(Fns) /\ Distinct(entries) /\ InEntries = Elements(entries)
  BY DEF TypeOK, Distinct, InEntries, Elements
<1>2. entries' = Append(entries, f)
  BY DEF Enter
<1>3. InEntries' = Elements(Append(entries, f))
  BY <1>2 DEF InEntries, Elements
<1>4. Distinct(Append(entries, f))
  BY <1>1, AppendFacts
<1>5. prog.own[f] \in SUBSET Effect
  BY ProgramFacts DEF ProgramType
<1>6. eff' = [eff EXCEPT ![f] = prog.own[f]] /\ eff \in [Fns -> SUBSET Effect]
  BY DEF Enter, TypeOK
<1>7. eff' \in [Fns -> SUBSET Effect] /\ \A h \in Fns : eff'[h] = IF h = f THEN prog.own[f] ELSE eff[h]
  BY <1>5, <1>6
<1> QED
  BY <1>1, <1>2, <1>3, <1>4, <1>7, AppendFacts DEF Distinct

LEMMA TodoFacts ==
  ASSUME Collected, todo # <<>>
  PROVE  /\ Head(todo) \in Fns /\ Head(todo) \notin InEntries
         /\ Tail(todo) \in Seq(Fns) /\ Distinct(Tail(todo))
         /\ Elements(todo) = {Head(todo)} \cup Elements(Tail(todo))
         /\ Head(todo) \notin Elements(Tail(todo))
<1>1. todo \in Seq(Fns) /\ Distinct(todo) /\ Elements(todo) \cap InEntries = {}
  BY DEF Collected, TypeOK
<1> QED
  BY <1>1, HeadFacts

\* One more body checked, the next of the list or a specialization.
LEMMA EnterDeployed ==
  ASSUME Collected, phase = "bodies", NEW f \in Fns, f \notin InEntries, Enter(f),
         prog.kind[f] \in {"fn", "generic"},
         prog.kind[f] = "generic" => f \in queue,
         queue' = (queue \cup NewSpecs(f)) \ {f}, taken' = taken \cup Takes(f),
         todo' \in Seq(Fns), Distinct(todo'), f \notin Elements(todo'),
         Elements(todo) \subseteq Elements(todo') \cup {f}, Elements(todo') \subseteq Elements(todo),
         UNCHANGED <<prog, phase, groups, via, idx, changed, mut, errs>>
  PROVE  Collected'
<1>1. WellFormed(prog) /\ prog \in ProgramType /\ TypeOK
  BY ProgramFacts DEF Collected
<1>2. /\ entries' \in Seq(Fns) /\ InEntries' = InEntries \cup {f}
      /\ \A i, j \in 1..Len(entries') : entries'[i] = entries'[j] => i = j
      /\ eff' \in [Fns -> SUBSET Effect]
      /\ \A h \in Fns : eff'[h] = IF h = f THEN prog.own[f] ELSE eff[h]
  BY <1>1, EnterFacts DEF Collected
<1>3. Deployed' = Deployed \cup {f}
  BY <1>2 DEF Deployed
<1>4. \A h : Takes(h)' = Takes(h)
  BY DEF Takes
<1>5. TakenByDeployed' = TakenByDeployed \cup Takes(f)
  BY <1>3, <1>4 DEF TakenByDeployed
<1>6. taken' = TakenByDeployed' \cup TakenLate'
  BY <1>5 DEF Collected, TakenLate
<1>7. NewSpecs(f) = {g \in prog.calls[f] : prog.kind[g] = "generic" /\ g \notin InEntries \cup {f}}
  BY DEF NewSpecs
<1>8. prog.calls[f] \subseteq Fns
  BY <1>1 DEF ProgramType
<1>9. TypeOK'
  BY <1>1, <1>2, <1>7, <1>8, TakesFacts DEF TypeOK, Collected
<1>10. \A g \in queue' : prog'.kind[g] = "generic" /\ g \notin InEntries'
  BY <1>2, <1>7 DEF Collected
<1>11. \A h \in Deployed' : \A g \in prog'.calls[h] : prog'.kind[g] = "generic" => g \in InEntries' \cup queue'
  BY <1>2, <1>3, <1>7 DEF Collected
<1>12. \A g \in InEntries' \cup queue' : prog'.kind[g] = "generic" => \E h \in Deployed' : g \in prog'.calls[h]
  <2> SUFFICES ASSUME NEW g \in InEntries' \cup queue', prog'.kind[g] = "generic"
               PROVE  \E h \in Deployed' : g \in prog'.calls[h]
    OBVIOUS
  <2>1. CASE g \in InEntries \cup queue
    BY <1>3, <2>1 DEF Collected
  <2>2. CASE g \in NewSpecs(f)
    BY <1>3, <1>7, <2>2
  <2> QED
    BY <1>2, <2>1, <2>2
<1>13. /\ Elements(todo') \cap InEntries' = {}
       /\ \A h \in Elements(todo') : prog'.kind[h] \in {"fn", "base"}
       /\ \A h \in InEntries' : prog'.kind[h] \in {"fn", "base", "generic"}
       /\ \A h \in Fns : prog'.kind[h] \in {"fn", "base"} => h \in Elements(todo') \cup InEntries'
  BY <1>2 DEF Collected
<1>14. \A h \in Fns : eff'[h] = OwnOf(h)' /\ via'[h] = NoVia'
  BY <1>2 DEF Collected, OwnOf, NoVia
<1>15. prog' \in Programs /\ phase' = "bodies"
  BY DEF Collected
<1>16. Elements(todo)' = Elements(todo') /\ Distinct(todo)' = Distinct(todo')
  OBVIOUS
<1> QED
  BY <1>6, <1>9, <1>10, <1>11, <1>12, <1>13, <1>14, <1>15, <1>16 DEF Collected

LEMMA CheckFunctionCollected == ASSUME Collected, CheckFunction PROVE Collected'
<1> DEFINE f == Head(todo)
<1>1. /\ phase = "bodies" /\ todo # <<>> /\ prog.kind[f] = "fn" /\ Enter(f)
      /\ todo' = Tail(todo) /\ queue' = queue \cup NewSpecs(f) /\ taken' = taken \cup Takes(f)
      /\ UNCHANGED <<prog, phase, groups, via, idx, changed, mut, errs>>
  BY DEF CheckFunction
<1>2. /\ f \in Fns /\ f \notin InEntries
      /\ todo' \in Seq(Fns) /\ Distinct(todo')
      /\ Elements(todo) = {f} \cup Elements(todo')
      /\ f \notin Elements(todo')
  BY <1>1, TodoFacts
<1>3. f \notin queue \cup NewSpecs(f)
  BY <1>1 DEF Collected, NewSpecs
<1>4. queue' = (queue \cup NewSpecs(f)) \ {f}
  BY <1>1, <1>3
<1> QED
  BY <1>1, <1>2, <1>4, EnterDeployed

LEMMA DrainCollected == ASSUME Collected, DrainSpecialization PROVE Collected'
<1>1. PICK g \in queue : /\ Enter(g) /\ queue' = (queue \cup NewSpecs(g)) \ {g}
                         /\ taken' = taken \cup Takes(g)
  BY DEF DrainSpecialization
<1>2. /\ phase = "bodies" /\ todo = <<>> /\ todo' = todo
      /\ UNCHANGED <<prog, phase, groups, via, idx, changed, mut, errs>>
  BY DEF DrainSpecialization
<1>3. g \in Fns /\ g \notin InEntries /\ prog.kind[g] = "generic"
  BY DEF Collected, TypeOK
<1>4. todo' \in Seq(Fns) /\ Distinct(todo') /\ Elements(todo') = {} /\ Elements(todo) = {}
  BY <1>2, EmptyFacts
<1> QED
  BY <1>1, <1>2, <1>3, <1>4, EnterDeployed

LEMMA CheckBaseHeadCollected == ASSUME Collected, CheckBaseHead PROVE Collected'
<1> DEFINE f == Head(todo)
<1>1. /\ phase = "bodies" /\ todo # <<>> /\ prog.kind[f] = "base" /\ Enter(f)
      /\ todo' = Tail(todo)
      /\ UNCHANGED <<prog, phase, queue, taken, groups, via, idx, changed, mut, errs>>
  BY DEF CheckBaseHead
<1>2. /\ f \in Fns /\ f \notin InEntries
      /\ todo' \in Seq(Fns) /\ Distinct(todo')
      /\ Elements(todo) = {f} \cup Elements(todo')
      /\ f \notin Elements(todo')
  BY <1>1, TodoFacts
<1>3. /\ entries' \in Seq(Fns) /\ InEntries' = InEntries \cup {f}
      /\ \A i, j \in 1..Len(entries') : entries'[i] = entries'[j] => i = j
      /\ eff' \in [Fns -> SUBSET Effect]
      /\ \A h \in Fns : eff'[h] = IF h = f THEN prog.own[f] ELSE eff[h]
  BY <1>1, <1>2, EnterFacts DEF Collected
<1>4. Deployed' = Deployed
  BY <1>1, <1>3 DEF Deployed
<1>5. TakenByDeployed' = TakenByDeployed
  BY <1>1, <1>4 DEF TakenByDeployed, Takes
<1>6. taken' = TakenByDeployed' \cup TakenLate'
  BY <1>1, <1>5 DEF Collected, TakenLate
<1>7. TypeOK'
  BY <1>1, <1>2, <1>3 DEF TypeOK, Collected
<1>8. \A g \in queue' : prog'.kind[g] = "generic" /\ g \notin InEntries'
  BY <1>1, <1>3 DEF Collected
<1>9. \A h \in Deployed' : \A g \in prog'.calls[h] : prog'.kind[g] = "generic" => g \in InEntries' \cup queue'
  BY <1>1, <1>3, <1>4 DEF Collected
<1>10. \A g \in InEntries' \cup queue' : prog'.kind[g] = "generic" => \E h \in Deployed' : g \in prog'.calls[h]
  BY <1>1, <1>3, <1>4 DEF Collected
<1>11. /\ Elements(todo') \cap InEntries' = {}
       /\ \A h \in Elements(todo') : prog'.kind[h] \in {"fn", "base"}
       /\ \A h \in InEntries' : prog'.kind[h] \in {"fn", "base", "generic"}
       /\ \A h \in Fns : prog'.kind[h] \in {"fn", "base"} => h \in Elements(todo') \cup InEntries'
  BY <1>1, <1>2, <1>3 DEF Collected
<1>12. \A h \in Fns : eff'[h] = OwnOf(h)' /\ via'[h] = NoVia'
  BY <1>1, <1>3 DEF Collected, OwnOf, NoVia
<1>13. prog' \in Programs /\ phase' = "bodies"
  BY <1>1 DEF Collected
<1> QED
  BY <1>2, <1>6, <1>7, <1>8, <1>9, <1>10, <1>11, <1>12, <1>13 DEF Collected

\* The steps after the bodies leave what they gathered alone.
LEMMA LaterCollected ==
  ASSUME Collected, TypeOK', phase # "bodies", phase' # "bodies",
         UNCHANGED <<prog, todo, queue, entries, groups>>, taken' = TakenByDeployed \cup TakenLate',
         phase' = "fixpoint" => 1 <= idx' /\ idx' <= Len(entries) + 1
  PROVE  Collected'
<1>1. InEntries' = InEntries /\ Deployed' = Deployed
  BY DEF InEntries, Deployed
<1>2. TakenByDeployed' = TakenByDeployed
  BY <1>1 DEF TakenByDeployed, Takes
<1>3. Elements(todo)' = Elements(todo) /\ Distinct(todo)' = Distinct(todo)
  BY DEF Elements, Distinct
<1> QED
  BY <1>1, <1>2, <1>3 DEF Collected

LEMMA EntryFacts ==
  ASSUME TypeOK
  PROVE  /\ InEntries \subseteq Fns /\ Len(entries) \in Nat
         /\ \A i \in 1..Len(entries) : entries[i] \in InEntries
         /\ \A f \in InEntries : \E i \in 1..Len(entries) : entries[i] = f
  BY DEF TypeOK, InEntries

LEMMA StartFixpointCollected == ASSUME Collected, StartFixpoint PROVE Collected'
<1>1. /\ phase = "bodies" /\ todo = <<>> /\ queue = {} /\ phase' = "fixpoint" /\ idx' = 1 /\ changed' = FALSE
      /\ groups' = {<<prog.sig[g], g>> : g \in (taken \cap InEntries) \ prog.multi}
      /\ UNCHANGED <<prog, todo, queue, taken, entries, eff, via, mut, errs>>
  BY DEF StartFixpoint
<1>2. InEntries' = InEntries /\ Deployed' = Deployed
  BY <1>1 DEF InEntries, Deployed
<1>3. TakenByDeployed' = TakenByDeployed
  BY <1>1, <1>2 DEF TakenByDeployed, Takes
<1>4. taken = TakenByDeployed /\ taken' = TakenByDeployed' \cup TakenLate'
  BY <1>1, <1>3 DEF Collected, TakenLate
<1>5. groups' = {<<prog'.sig[g], g>> : g \in (TakenByDeployed' \cap InEntries') \ prog'.multi}
  BY <1>1, <1>2, <1>3, <1>4
<1>6. Elements(todo)' = Elements(todo) /\ Distinct(todo)' = Distinct(todo)
  BY <1>1 DEF Elements, Distinct
<1>7. \A g \in Fns : prog.sig[g] \in Sigs
  BY ProgramFacts DEF Collected, ProgramType
<1>8. groups' \subseteq Sigs \X Fns
  BY <1>1, <1>7 DEF Collected, TypeOK
<1>9. TypeOK'
  BY <1>1, <1>8 DEF Collected, TypeOK
<1> QED
  BY <1>1, <1>2, <1>4, <1>5, <1>6, <1>9, EntryFacts DEF Collected

LEMMA ReachableFacts ==
  ASSUME TypeOK, NEW f
  PROVE  /\ Direct(f) \subseteq InEntries /\ BySig(f) \subseteq InEntries
         /\ Reachable(f) \subseteq InEntries /\ Arriving(f) \subseteq Effect
<1>1. Direct(f) \subseteq InEntries /\ BySig(f) \subseteq InEntries
  BY DEF Direct, BySig
<1>2. Reachable(f) \subseteq InEntries /\ InEntries \subseteq Fns
  BY <1>1, EntryFacts DEF Reachable
<1>3. \A g \in Fns : eff[g] \subseteq Effect
  BY DEF TypeOK
<1> QED
  BY <1>1, <1>2, <1>3 DEF Arriving

LEMMA CausesType ==
  ASSUME TypeOK, NEW f
  PROVE  Causes(f) \subseteq [target : Fns \cup {None}, through : Fns \cup {None}]
<1>1. /\ Writers(Direct(f)) \subseteq Fns /\ Writers(BySig(f)) \subseteq Fns
  BY ReachableFacts, EntryFacts DEF Writers
<1>2. \A g \in Fns : via[g].target \in Fns \cup {None} /\ via[g].through \in Fns \cup {None}
  BY DEF TypeOK
<1>3. \A g \in Writers(Direct(f)) :
        (IF via[g].target = None THEN NoVia
         ELSE [target |-> via[g].target,
               through |-> IF via[g].through = None THEN g ELSE via[g].through])
          \in [target : Fns \cup {None}, through : Fns \cup {None}]
  BY <1>1, <1>2 DEF NoVia
<1>4. \A g \in Writers(BySig(f)) :
        [target |-> g, through |-> None] \in [target : Fns \cup {None}, through : Fns \cup {None}]
  BY <1>1
<1> QED
  BY <1>3, <1>4 DEF Causes

\* What one visit does to the entry it visits, and to no other.
LEMMA VisitFacts ==
  ASSUME TypeOK, Visit, 1 <= idx
  PROVE  /\ phase = "fixpoint" /\ idx \in 1..Len(entries) /\ idx' = idx + 1 /\ idx' \in Nat
         /\ UNCHANGED <<prog, phase, todo, queue, taken, groups, entries, mut, errs>>
         /\ entries[idx] \in InEntries
         /\ \A h \in Fns : eff'[h] = IF h = entries[idx] THEN eff[h] \cup Arriving(h) ELSE eff[h]
         /\ changed' = (changed \/ ~ Arriving(entries[idx]) \subseteq eff[entries[idx]])
         /\ \A h \in Fns : h # entries[idx] => via'[h] = via[h]
         /\ IF "writes" \in Arriving(entries[idx]) \ eff[entries[idx]]
            THEN via'[entries[idx]] \in Causes(entries[idx])
            ELSE via'[entries[idx]] = via[entries[idx]]
         /\ TypeOK'
<1> DEFINE f == entries[idx]
<1>1. /\ phase = "fixpoint" /\ idx \in 1..Len(entries) /\ idx' = idx + 1 /\ idx' \in Nat
      /\ UNCHANGED <<prog, phase, todo, queue, taken, groups, entries, mut, errs>>
  BY EntryFacts DEF Visit, TypeOK
<1>2. f \in InEntries /\ f \in Fns
  BY <1>1, EntryFacts
<1>3. /\ eff' = [eff EXCEPT ![f] = eff[f] \cup Arriving(f)]
      /\ changed' = (changed \/ ~ Arriving(f) \subseteq eff[f])
      /\ IF "writes" \in Arriving(f) \ eff[f]
         THEN \E c \in Causes(f) : via' = [via EXCEPT ![f] = c]
         ELSE via' = via
  BY DEF Visit
<1>4. eff \in [Fns -> SUBSET Effect] /\ via \in [Fns -> [target : Fns \cup {None}, through : Fns \cup {None}]]
  BY DEF TypeOK
<1>5. Arriving(f) \subseteq Effect
  BY ReachableFacts
<1>6. \A h \in Fns : eff'[h] = IF h = f THEN eff[h] \cup Arriving(h) ELSE eff[h]
  BY <1>2, <1>3, <1>4
<1>7. eff' \in [Fns -> SUBSET Effect]
  BY <1>2, <1>3, <1>4, <1>5
<1>8. CASE "writes" \in Arriving(f) \ eff[f]
  <2>1. PICK c \in Causes(f) : via' = [via EXCEPT ![f] = c]
    BY <1>3, <1>8
  <2>2. c \in [target : Fns \cup {None}, through : Fns \cup {None}]
    BY CausesType
  <2>3. /\ via' \in [Fns -> [target : Fns \cup {None}, through : Fns \cup {None}]]
        /\ via'[f] \in Causes(f) /\ \A h \in Fns : h # f => via'[h] = via[h]
    BY <1>2, <1>4, <2>1, <2>2
  <2>4. TypeOK'
    BY <1>1, <1>3, <1>7, <2>3 DEF TypeOK
  <2> QED
    BY <1>1, <1>2, <1>3, <1>6, <1>8, <2>3, <2>4
<1>9. CASE ~("writes" \in Arriving(f) \ eff[f])
  <2>1. via' = via
    BY <1>3, <1>9
  <2>2. TypeOK'
    BY <1>1, <1>3, <1>4, <1>7, <2>1 DEF TypeOK
  <2> QED
    BY <1>1, <1>2, <1>3, <1>6, <1>9, <2>1, <2>2
<1> QED
  BY <1>8, <1>9

LEMMA EndSweepFacts ==
  ASSUME TypeOK, EndSweep
  PROVE  /\ phase = "fixpoint" /\ idx = Len(entries) + 1 /\ changed' = FALSE
         /\ UNCHANGED <<prog, todo, queue, taken, groups, entries, eff, via, mut, errs>>
         /\ changed => idx' = 1 /\ phase' = "fixpoint"
         /\ ~changed => idx' = idx /\ phase' = "resolve"
         /\ TypeOK'
<1>1. /\ phase = "fixpoint" /\ idx = Len(entries) + 1 /\ changed' = FALSE
      /\ UNCHANGED <<prog, todo, queue, taken, groups, entries, eff, via, mut, errs>>
      /\ changed => idx' = 1 /\ phase' = "fixpoint"
      /\ ~changed => idx' = idx /\ phase' = "resolve"
  BY DEF EndSweep
<1>2. idx \in Nat /\ (changed \/ ~changed)
  BY DEF TypeOK
<1>3. CASE changed
  <2>1. idx' = 1 /\ phase' = "fixpoint"
    BY <1>1, <1>3
  <2>2. TypeOK'
    BY <1>1, <2>1 DEF TypeOK
  <2> QED
    BY <1>1, <1>3, <2>1, <2>2
<1>4. CASE ~changed
  BY <1>1, <1>2, <1>4 DEF TypeOK
<1> QED
  BY <1>1, <1>2, <1>3, <1>4

LEMMA ResolveFacts ==
  ASSUME Collected, Resolve
  PROVE  /\ phase = "resolve" /\ phase' = "special" /\ mut' = [f \in Fns |-> Resolved(f)]
         /\ errs' = StaticErrors \cup AccessorErrors \cup LadderErrors(mut') \cup VarHeadErrors
         /\ UNCHANGED <<prog, todo, queue, taken, groups, entries, eff, via, idx, changed>>
         /\ TypeOK'
<1>1. /\ phase = "resolve" /\ phase' = "special" /\ mut' = [f \in Fns |-> Resolved(f)]
      /\ errs' = StaticErrors \cup AccessorErrors \cup LadderErrors(mut') \cup VarHeadErrors
      /\ UNCHANGED <<prog, todo, queue, taken, groups, entries, eff, via, idx, changed>>
  BY DEF Resolve
<1>2. \A f \in Fns : Resolved(f) \in Mutability
  BY DEF Resolved, Mutability, Collected, TypeOK
<1>3. TypeOK'
  BY <1>1, <1>2 DEF Collected, TypeOK
<1> QED
  BY <1>1, <1>3

LEMMA CheckSpecialsFacts ==
  ASSUME Collected, CheckSpecials
  PROVE  /\ phase = "special" /\ phase' = "done" /\ taken' = taken \cup prog.special
         /\ UNCHANGED <<prog, todo, queue, groups, entries, eff, via, idx, changed, mut, errs>>
         /\ TypeOK'
<1>1. /\ phase = "special" /\ phase' = "done" /\ taken' = taken \cup prog.special
      /\ UNCHANGED <<prog, todo, queue, groups, entries, eff, via, idx, changed, mut, errs>>
  BY DEF CheckSpecials
<1>2. prog.special \subseteq Fns
  BY ProgramFacts DEF Collected, ProgramType
<1>3. TypeOK'
  BY <1>1, <1>2 DEF Collected, TypeOK
<1> QED
  BY <1>1, <1>3

LEMMA NextCollected == ASSUME Collected, [Next]_vars PROVE Collected'
<1>1. CASE CheckFunction
  BY <1>1, CheckFunctionCollected
<1>2. CASE CheckBaseHead
  BY <1>2, CheckBaseHeadCollected
<1>3. CASE DrainSpecialization
  BY <1>3, DrainCollected
<1>4. CASE StartFixpoint
  BY <1>4, StartFixpointCollected
<1>5. CASE Visit
  <2>1. TypeOK /\ 1 <= idx /\ Len(entries) \in Nat /\ phase = "fixpoint"
    BY <1>5, EntryFacts DEF Collected, Visit
  <2>2. taken' = TakenByDeployed \cup TakenLate'
    BY <1>5, <2>1, VisitFacts DEF Collected, TakenLate
  <2>3. 1 <= idx' /\ idx' <= Len(entries) + 1
    BY <1>5, <2>1, VisitFacts
  <2> QED
    BY <1>5, <2>1, <2>2, <2>3, VisitFacts, LaterCollected
<1>6. CASE EndSweep
  <2>1. TypeOK /\ Len(entries) \in Nat
    BY EntryFacts DEF Collected
  <2>2. taken' = TakenByDeployed \cup TakenLate'
    BY <1>6, <2>1, EndSweepFacts DEF Collected, TakenLate
  <2>3. changed \in BOOLEAN
    BY <2>1 DEF TypeOK
  <2> QED
    BY <1>6, <2>1, <2>2, <2>3, EndSweepFacts, LaterCollected
<1>7. CASE Resolve
  <2>1. taken' = TakenByDeployed \cup TakenLate'
    BY <1>7, ResolveFacts DEF Collected, TakenLate
  <2> QED
    BY <1>7, <2>1, ResolveFacts, LaterCollected
<1>8. CASE CheckSpecials
  <2>1. taken' = TakenByDeployed \cup TakenLate'
    BY <1>8, CheckSpecialsFacts DEF Collected, TakenLate
  <2> QED
    BY <1>8, <2>1, CheckSpecialsFacts, LaterCollected
<1>9. CASE UNCHANGED vars
  <2>1. InEntries' = InEntries /\ Deployed' = Deployed
    BY <1>9 DEF vars, InEntries, Deployed
  <2>2. TakenByDeployed' = TakenByDeployed /\ TakenLate' = TakenLate
    BY <1>9, <2>1 DEF vars, TakenByDeployed, Takes, TakenLate
  <2>3. Elements(todo)' = Elements(todo) /\ Distinct(todo)' = Distinct(todo)
    BY <1>9 DEF vars, Elements, Distinct
  <2>4. \A f \in Fns : OwnOf(f)' = OwnOf(f)
    BY <1>9, <2>1 DEF vars, OwnOf
  <2>5. TypeOK'
    BY <1>9 DEF vars, Collected, TypeOK
  <2> QED
    BY <1>9, <2>1, <2>2, <2>3, <2>4, <2>5 DEF vars, Collected, NoVia
<1> QED
  BY <1>1, <1>2, <1>3, <1>4, <1>5, <1>6, <1>7, <1>8, <1>9 DEF Next

LEMMA SpecCollected == Spec => []Collected
  BY InitCollected, NextCollected, PTL DEF Spec

\* The variables keep their types.
THEOREM SpecTypeOK == Spec => []TypeOK
<1>1. Collected => TypeOK
  BY DEF Collected
<1> QED
  BY SpecCollected, <1>1, PTL

\* A base head that is not deployed leaves no trace: no address and no
\* specialization that no deployed body asked for.
THEOREM SpecHeadsLeaveNoTrace == Spec => []HeadsLeaveNoTrace
<1>1. ASSUME Collected PROVE HeadsLeaveNoTrace
  <2>1. taken \subseteq TakenByDeployed \cup prog.special
    BY <1>1 DEF Collected, TakenLate
  <2>2. \A g \in InEntries : prog.kind[g] = "generic" => \E f \in Deployed : g \in prog.calls[f]
    BY <1>1 DEF Collected
  <2> QED
    BY <2>1, <2>2 DEF HeadsLeaveNoTrace, TakenByDeployed
<1> QED
  BY SpecCollected, <1>1, PTL

--------------------------------------------------------------------------------
(* The fixpoint                                                                 *)

\* S holds every entry that does e itself or reaches one of S.
ClosedFor(e, S) == \A f \in InEntries : (e \in prog.own[f] \/ Reachable(f) \cap S # {}) => f \in S

\* The sweep that runs has been at f.
Visited(f) == \E i \in 1..Len(entries) : i < idx /\ entries[i] = f

\* How far the sweeps have come.
Swept ==
  /\ \A f \in InEntries : prog.own[f] \subseteq eff[f]
  /\ phase = "fixpoint" /\ ~changed => \A f \in InEntries : Visited(f) => Arriving(f) \subseteq eff[f]
  /\ phase \in {"resolve", "special", "done"} => \A f \in InEntries : Arriving(f) \subseteq eff[f]
  /\ phase # "bodies" =>
       \A e \in Effect : \A S \in SUBSET Fns : ClosedFor(e, S) => {f \in InEntries : e \in eff[f]} \subseteq S

LEMMA SameCalls ==
  ASSUME UNCHANGED <<prog, entries, groups>>
  PROVE  /\ InEntries' = InEntries /\ Deployed' = Deployed
         /\ \A f : Direct(f)' = Direct(f) /\ BySig(f)' = BySig(f) /\ Reachable(f)' = Reachable(f)
         /\ \A e, S : ClosedFor(e, S)' <=> ClosedFor(e, S)
<1>1. InEntries' = InEntries
  BY DEF InEntries
<1>2. Deployed' = Deployed
  BY <1>1 DEF Deployed
<1>3. ASSUME NEW f PROVE Direct(f)' = Direct(f) /\ BySig(f)' = BySig(f) /\ Reachable(f)' = Reachable(f)
  <2>1. \A x : SlotReach(f, x)' = SlotReach(f, x)
    BY DEF SlotReach, Sources
  <2>2. \A x : Sources(f, x)' = Sources(f, x)
    BY DEF Sources
  <2>3. \A x : Known(f, x)' <=> Known(f, x)
    BY <2>1, <2>2 DEF Known
  <2>4. \A x : Targets(f, x)' = Targets(f, x)
    BY <2>1, <2>2 DEF Targets
  <2>5. PtrCallTargets(f)' = PtrCallTargets(f) /\ PtrCallSigs(f)' = PtrCallSigs(f)
    BY <2>3, <2>4 DEF PtrCallTargets, PtrCallSigs
  <2>6. Direct(f)' = Direct(f) /\ BySig(f)' = BySig(f)
    BY <1>1, <2>5 DEF Direct, BySig
  <2> QED
    BY <2>6 DEF Reachable
<1>4. \A e, S : ClosedFor(e, S)' <=> ClosedFor(e, S)
  BY <1>1, <1>3 DEF ClosedFor
<1> QED
  BY <1>1, <1>2, <1>3, <1>4

LEMMA BodiesSwept == Collected /\ phase = "bodies" => Swept
<1>1. Collected /\ phase = "bodies" => \A f \in InEntries : eff[f] = prog.own[f]
  BY EntryFacts DEF Collected, OwnOf
<1> QED
  BY <1>1 DEF Swept

LEMMA StartFixpointSwept == ASSUME Collected, StartFixpoint PROVE Swept'
<1>1. /\ phase = "bodies" /\ phase' = "fixpoint" /\ idx' = 1
      /\ UNCHANGED <<prog, entries, eff>>
  BY DEF StartFixpoint
<1>2. \A f \in InEntries : eff[f] = prog.own[f]
  BY <1>1, EntryFacts DEF Collected, OwnOf
<1>3. InEntries' = InEntries
  BY <1>1 DEF InEntries
<1>4. ASSUME NEW e \in Effect, NEW S \in SUBSET Fns, ClosedFor(e, S)'
      PROVE  {f \in InEntries' : e \in eff'[f]} \subseteq S
  BY <1>1, <1>2, <1>3, <1>4 DEF ClosedFor
<1>5. \A f : ~Visited(f)'
  BY <1>1, EntryFacts DEF Collected, Visited
<1> QED
  BY <1>1, <1>2, <1>3, <1>4, <1>5 DEF Swept

LEMMA VisitSwept == ASSUME Collected, Swept, Visit PROVE Swept'
<1> DEFINE f == entries[idx]
<1>1. /\ TypeOK /\ TypeOK' /\ 1 <= idx
      /\ phase = "fixpoint" /\ idx \in 1..Len(entries) /\ idx' = idx + 1
      /\ UNCHANGED <<prog, phase, groups, entries>>
      /\ f \in InEntries /\ InEntries \subseteq Fns
      /\ \A h \in Fns : eff'[h] = IF h = f THEN eff[h] \cup Arriving(h) ELSE eff[h]
      /\ changed' = (changed \/ ~ Arriving(f) \subseteq eff[f])
  <2>1. TypeOK /\ 1 <= idx
    BY DEF Collected, Visit
  <2> QED
    BY <2>1, VisitFacts, EntryFacts
<1>2. /\ InEntries' = InEntries
      /\ \A h : Reachable(h)' = Reachable(h)
      /\ \A e, S : ClosedFor(e, S)' <=> ClosedFor(e, S)
  BY <1>1, SameCalls
<1>3. \A h \in InEntries' : prog'.own[h] \subseteq eff'[h]
  BY <1>1, <1>2 DEF Swept
<1>4. ASSUME ~changed', NEW h \in InEntries, Visited(h)' PROVE Arriving(h)' \subseteq eff'[h]
  <2>1. Arriving(f) \subseteq eff[f] /\ ~changed
    BY <1>1, <1>4
  <2>2. \A k \in Fns : eff'[k] = eff[k]
    BY <1>1, <2>1
  <2>3. Reachable(h) \subseteq Fns
    BY <1>1, ReachableFacts
  <2>4. Arriving(h)' = Arriving(h)
    BY <1>2, <2>2, <2>3 DEF Arriving
  <2>5. PICK i \in 1..Len(entries) : i < idx' /\ entries[i] = h
    BY <1>1, <1>4 DEF Visited
  <2>6. i < idx \/ i = idx
    BY <1>1, <2>5, EntryFacts
  <2>7. Arriving(h) \subseteq eff[h]
    BY <1>1, <2>1, <2>5, <2>6 DEF Swept, Visited
  <2> QED
    BY <1>1, <2>2, <2>4, <2>7
<1>5. ASSUME NEW e \in Effect, NEW S \in SUBSET Fns, ClosedFor(e, S)
      PROVE  {h \in InEntries' : e \in eff'[h]} \subseteq S
  <2>1. {h \in InEntries : e \in eff[h]} \subseteq S
    BY <1>1, <1>5 DEF Swept
  <2>2. e \in Arriving(f) => f \in S
    <3> SUFFICES ASSUME e \in Arriving(f) PROVE f \in S
      OBVIOUS
    <3>1. PICK g \in Reachable(f) : e \in eff[g]
      BY DEF Arriving
    <3>2. g \in InEntries
      BY <1>1, ReachableFacts
    <3>3. g \in S
      BY <2>1, <3>1, <3>2
    <3> QED
      BY <1>1, <1>5, <3>1, <3>3 DEF ClosedFor
  <2> QED
    BY <1>1, <1>2, <2>1, <2>2
<1> QED
  BY <1>1, <1>2, <1>3, <1>4, <1>5 DEF Swept

LEMMA EndSweepSwept == ASSUME Collected, Swept, EndSweep PROVE Swept'
<1>1. /\ TypeOK /\ phase = "fixpoint" /\ idx = Len(entries) + 1 /\ Len(entries) \in Nat
      /\ UNCHANGED <<prog, groups, entries, eff>>
      /\ changed => idx' = 1 /\ phase' = "fixpoint"
      /\ ~changed => phase' = "resolve"
      /\ changed \/ ~changed
  <2>1. TypeOK /\ (changed \/ ~changed)
    BY DEF Collected, TypeOK
  <2> QED
    BY <2>1, EndSweepFacts, EntryFacts
<1>2. /\ InEntries' = InEntries
      /\ \A h : Reachable(h)' = Reachable(h)
      /\ \A e, S : ClosedFor(e, S)' <=> ClosedFor(e, S)
  BY <1>1, SameCalls
<1>3. \A h : Arriving(h)' = Arriving(h)
  BY <1>1, <1>2 DEF Arriving
<1>4. /\ \A h \in InEntries' : prog'.own[h] \subseteq eff'[h]
      /\ \A e \in Effect : \A S \in SUBSET Fns : ClosedFor(e, S)' => {h \in InEntries' : e \in eff'[h]} \subseteq S
  BY <1>1, <1>2 DEF Swept
<1>5. CASE changed
  <2>1. idx' = 1 /\ phase' = "fixpoint"
    BY <1>1, <1>5
  <2>2. \A f : ~Visited(f)'
    BY <1>1, <2>1 DEF Visited
  <2> QED
    BY <1>4, <2>1, <2>2 DEF Swept
<1>6. CASE ~changed
  <2>1. phase' = "resolve"
    BY <1>1, <1>6
  <2>2. \A f \in InEntries : Visited(f)
    BY <1>1, EntryFacts DEF Visited
  <2>3. \A f \in InEntries : Arriving(f) \subseteq eff[f]
    BY <1>1, <1>6, <2>2 DEF Swept
  <2> QED
    BY <1>1, <1>2, <1>3, <1>4, <2>1, <2>3 DEF Swept
<1> QED
  BY <1>1, <1>5, <1>6

\* After the fixpoint its result is left alone.
LEMMA LaterSwept ==
  ASSUME Swept, phase \in {"resolve", "special", "done"}, phase' \in {"resolve", "special", "done"},
         UNCHANGED <<prog, groups, entries, eff>>
  PROVE  Swept'
<1>1. /\ InEntries' = InEntries
      /\ \A h : Reachable(h)' = Reachable(h)
      /\ \A e, S : ClosedFor(e, S)' <=> ClosedFor(e, S)
  BY SameCalls
<1>2. \A h : Arriving(h)' = Arriving(h)
  BY <1>1 DEF Arriving
<1> QED
  BY <1>1, <1>2 DEF Swept

LEMMA NextSwept == ASSUME Collected, Collected', Swept, [Next]_vars PROVE Swept'
<1>1. CASE CheckFunction \/ CheckBaseHead \/ DrainSpecialization
  <2>1. phase' = "bodies"
    BY <1>1 DEF CheckFunction, CheckBaseHead, DrainSpecialization
  <2>2. \A f \in InEntries' : eff'[f] = prog'.own[f]
    BY <2>1 DEF Collected, OwnOf, TypeOK, InEntries
  <2> QED
    BY <2>1, <2>2 DEF Swept
<1>2. CASE StartFixpoint
  BY <1>2, StartFixpointSwept
<1>3. CASE Visit
  BY <1>3, VisitSwept
<1>4. CASE EndSweep
  BY <1>4, EndSweepSwept
<1>5. CASE Resolve
  BY <1>5, ResolveFacts, LaterSwept
<1>6. CASE CheckSpecials
  BY <1>6, CheckSpecialsFacts, LaterSwept
<1>7. CASE UNCHANGED vars
  <2>1. /\ InEntries' = InEntries
        /\ \A h : Reachable(h)' = Reachable(h)
        /\ \A e, S : ClosedFor(e, S)' <=> ClosedFor(e, S)
    BY <1>7, SameCalls DEF vars
  <2>2. \A h : Arriving(h)' = Arriving(h) /\ (Visited(h)' <=> Visited(h))
    BY <1>7, <2>1 DEF vars, Arriving, Visited
  <2> QED
    BY <1>7, <2>1, <2>2 DEF vars, Swept
<1> QED
  BY <1>1, <1>2, <1>3, <1>4, <1>5, <1>6, <1>7 DEF Next

LEMMA SpecSwept == Spec => [](Collected /\ Swept)
<1>1. Init => Collected /\ Swept
  BY InitCollected, BodiesSwept DEF Init
<1>2. (Collected /\ Swept) /\ [Next]_vars => (Collected /\ Swept)'
  BY NextCollected, NextSwept
<1> QED
  BY <1>1, <1>2, PTL DEF Spec

\* When the sweeps end, what each function holds is the least assignment of
\* effects that is closed under the calls.
LEMMA SweptLeast == Collected /\ Swept => LeastEffects
<1> SUFFICES ASSUME Collected, Swept, phase = "resolve"
             PROVE  /\ \A f \in InEntries : prog.own[f] \cup Arriving(f) \subseteq eff[f]
                    /\ \A e \in Effect : \A S \in SUBSET Fns :
                         (\A f \in InEntries : (e \in prog.own[f] \/ Reachable(f) \cap S # {}) => f \in S) =>
                            {f \in InEntries : e \in eff[f]} \subseteq S
  BY DEF LeastEffects
<1>1. \A f \in InEntries : prog.own[f] \cup Arriving(f) \subseteq eff[f]
  BY DEF Swept
<1>2. \A e \in Effect : \A S \in SUBSET Fns : ClosedFor(e, S) => {f \in InEntries : e \in eff[f]} \subseteq S
  BY DEF Swept
<1> QED
  BY <1>1, <1>2 DEF ClosedFor

\* The fixpoint is the least one, for every program.
THEOREM SpecLeastEffects == Spec => []LeastEffects
  BY SpecSwept, SweptLeast, PTL

--------------------------------------------------------------------------------
(* The reasons for a write                                                      *)

\* A chain of calls that are really made leads from f to g.
Chain(f, g) == \A S \in SUBSET Fns : (f \in S /\ \A h \in S : Direct(h) \subseteq S) => g \in S

Holder(f) == IF via[f].through = None THEN f ELSE via[f].through

\* The blame laid for f is on a pointer call of a function f really calls.
Blamed(f) ==
  /\ via[f].target \in BySig(Holder(f)) /\ "writes" \in eff[via[f].target]
  /\ Chain(f, Holder(f))

\* Why each function that writes is said to.
Explained ==
  /\ \A f \in Fns : via[f].target = None => via[f] = NoVia
  /\ \A f \in InEntries : "writes" \in eff[f] /\ via[f] = NoVia =>
        \E g \in Fns : "writes" \in prog.own[g] /\ Chain(f, g)
  /\ phase # "bodies" => \A f \in InEntries : via[f] # NoVia => Blamed(f)

LEMMA ExplainedPlain == Explained => PlainWritesAreReal
  BY DEF Explained, PlainWritesAreReal, Chain

LEMMA ExplainedBlame == Explained => BlameIsLocated
  BY DEF Explained, BlameIsLocated, Blamed, Holder, Chain

LEMMA ChainFacts ==
  ASSUME NEW f \in Fns
  PROVE  /\ Chain(f, f)
         /\ \A g \in Direct(f) : \A h : Chain(g, h) => Chain(f, h)
  BY DEF Chain

LEMMA SameChains ==
  ASSUME UNCHANGED <<prog, entries, groups>>, NEW f, NEW g
  PROVE  Chain(f, g)' <=> Chain(f, g)
<1>1. \A h : Direct(h)' = Direct(h)
  BY SameCalls
<1> QED
  BY <1>1 DEF Chain

LEMMA BodiesExplained == Collected /\ phase = "bodies" => Explained
<1> SUFFICES ASSUME Collected, phase = "bodies" PROVE Explained
  OBVIOUS
<1>1. \A f \in InEntries : eff[f] = prog.own[f]
  BY EntryFacts DEF Collected, OwnOf
<1>2. \A f \in InEntries : "writes" \in eff[f] => "writes" \in prog.own[f] /\ Chain(f, f)
  BY <1>1, EntryFacts, ChainFacts DEF Collected
<1>3. \A f \in Fns : via[f].target = None => via[f] = NoVia
  BY DEF Collected
<1>4. InEntries \subseteq Fns
  BY EntryFacts DEF Collected
<1> QED
  BY <1>2, <1>3, <1>4 DEF Explained

\* The reason a visit finds for a new write.
LEMMA CauseFacts ==
  ASSUME Collected, Explained, phase = "fixpoint", NEW f \in InEntries, NEW c \in Causes(f),
         "writes" \in Arriving(f)
  PROVE  \/ c = NoVia /\ \E g \in Fns : "writes" \in prog.own[g] /\ Chain(f, g)
         \/ /\ c.target # None /\ c.target \in Fns /\ "writes" \in eff[c.target]
            /\ \E h \in Fns : /\ h = IF c.through = None THEN f ELSE c.through
                              /\ c.target \in BySig(h) /\ Chain(f, h)
<1>1. TypeOK /\ InEntries \subseteq Fns /\ None \notin Fns /\ f \in Fns
  BY EntryFacts, DomainsAssumption DEF Collected
<1>2. /\ Direct(f) \subseteq InEntries /\ BySig(f) \subseteq InEntries
  BY <1>1, ReachableFacts
<1>3. CASE Writers(Direct(f)) # {}
  <2>1. PICK g \in Writers(Direct(f)) :
          c = IF via[g].target = None THEN NoVia
              ELSE [target |-> via[g].target,
                    through |-> IF via[g].through = None THEN g ELSE via[g].through]
    BY <1>3 DEF Causes
  <2>2. g \in Direct(f) /\ g \in InEntries /\ g \in Fns /\ "writes" \in eff[g]
    BY <1>1, <1>2 DEF Writers
  <2>3. CASE via[g].target = None
    <3>1. c = NoVia /\ via[g] = NoVia
      BY <2>1, <2>2, <2>3 DEF Explained
    <3>2. PICK k \in Fns : "writes" \in prog.own[k] /\ Chain(g, k)
      BY <2>2, <3>1 DEF Explained
    <3>3. Chain(f, k)
      BY <1>1, <2>2, <3>2, ChainFacts
    <3> QED
      BY <3>1, <3>2, <3>3
  <2>4. CASE via[g].target # None
    <3>1. c.target = via[g].target /\ c.through = Holder(g)
      BY <2>1, <2>4 DEF Holder
    <3>2. via[g] # NoVia
      BY <2>4 DEF NoVia
    <3>3. Blamed(g)
      BY <2>2, <3>2 DEF Explained
    <3>4. Holder(g) \in Fns
      BY <1>1, <2>2 DEF Holder, TypeOK
    <3>5. via[g].target \in Fns
      BY <1>1, <2>2, <2>4 DEF TypeOK
    <3>6. Chain(f, Holder(g))
      BY <1>1, <2>2, <3>3, ChainFacts DEF Blamed
    <3> QED
      BY <1>1, <2>4, <3>1, <3>3, <3>4, <3>5, <3>6 DEF Blamed
  <2> QED
    BY <2>3, <2>4
<1>4. CASE Writers(Direct(f)) = {}
  <2>1. PICK g \in Writers(BySig(f)) : c = [target |-> g, through |-> None]
    BY <1>4 DEF Causes
  <2>2. g \in BySig(f) /\ g \in Fns /\ "writes" \in eff[g]
    BY <1>1, <1>2 DEF Writers
  <2>3. c.target = g /\ c.through = None
    BY <2>1
  <2>4. Chain(f, f)
    BY <1>1, ChainFacts
  <2> QED
    BY <1>1, <2>2, <2>3, <2>4
<1> QED
  BY <1>3, <1>4

LEMMA VisitExplained == ASSUME Collected, Explained, Visit PROVE Explained'
<1>0. PICK f : f = entries[idx]
  OBVIOUS
<1>1. /\ TypeOK /\ TypeOK' /\ phase = "fixpoint" /\ UNCHANGED <<prog, phase, groups, entries>>
      /\ f \in InEntries /\ InEntries \subseteq Fns /\ None \notin Fns
      /\ \A h \in Fns : eff'[h] = IF h = f THEN eff[h] \cup Arriving(h) ELSE eff[h]
      /\ \A h \in Fns : h # f => via'[h] = via[h]
      /\ IF "writes" \in Arriving(f) \ eff[f] THEN via'[f] \in Causes(f) ELSE via'[f] = via[f]
  <2>1. TypeOK /\ 1 <= idx
    BY DEF Collected, Visit
  <2> QED
    BY <1>0, <2>1, VisitFacts, EntryFacts, DomainsAssumption
<1>2. /\ InEntries' = InEntries
      /\ \A h : BySig(h)' = BySig(h) /\ BySig(h) \subseteq Fns
      /\ \A h, k : Chain(h, k)' <=> Chain(h, k)
  BY <1>1, SameCalls, SameChains, ReachableFacts
<1>3. \A h \in Fns : eff[h] \subseteq eff'[h]
  BY <1>1
<1>4. ASSUME NEW h \in Fns, via'[h] = via[h], "writes" \in eff'[h] => "writes" \in eff[h]
      PROVE  /\ via'[h].target = None => via'[h] = NoVia'
             /\ h \in InEntries /\ "writes" \in eff'[h] /\ via'[h] = NoVia' =>
                  \E g \in Fns : "writes" \in prog'.own[g] /\ Chain(h, g)'
             /\ h \in InEntries /\ via'[h] # NoVia' => Blamed(h)'
  <2>1. NoVia' = NoVia
    BY DEF NoVia
  <2>2. via[h].target = None => via[h] = NoVia
    BY DEF Explained
  <2>3. h \in InEntries /\ "writes" \in eff[h] /\ via[h] = NoVia =>
          \E g \in Fns : "writes" \in prog.own[g] /\ Chain(h, g)
    BY DEF Explained
  <2>4. ASSUME h \in InEntries, via[h] # NoVia PROVE Blamed(h)'
    <3>1. Blamed(h)
      BY <1>1, <2>4 DEF Explained
    <3>2. Holder(h)' = Holder(h)
      BY <1>4 DEF Holder
    <3>3. via[h].target \in Fns
      BY <1>2, <3>1 DEF Blamed
    <3>4. BySig(Holder(h))' = BySig(Holder(h)) /\ (Chain(h, Holder(h))' <=> Chain(h, Holder(h)))
      <4>1. PICK k : k = Holder(h)
        OBVIOUS
      <4> QED
        BY <1>2, <3>2, <4>1
    <3> QED
      BY <1>3, <1>4, <3>1, <3>2, <3>3, <3>4 DEF Blamed
  <2> QED
    BY <1>1, <1>2, <1>4, <2>1, <2>2, <2>3, <2>4
<1>5. ASSUME "writes" \in Arriving(f) \ eff[f]
      PROVE  /\ via'[f].target = None => via'[f] = NoVia'
             /\ via'[f] = NoVia' => \E g \in Fns : "writes" \in prog'.own[g] /\ Chain(f, g)'
             /\ via'[f] # NoVia' => Blamed(f)'
  <2> DEFINE c == via'[f]
  <2>1. c \in Causes(f) /\ NoVia' = NoVia /\ NoVia.target = None
    BY <1>1, <1>5 DEF NoVia
  <2>2. CASE c = NoVia /\ \E g \in Fns : "writes" \in prog.own[g] /\ Chain(f, g)
    BY <1>1, <1>2, <2>1, <2>2
  <2>3. CASE /\ c.target # None /\ c.target \in Fns /\ "writes" \in eff[c.target]
             /\ \E h \in Fns : /\ h = IF c.through = None THEN f ELSE c.through
                               /\ c.target \in BySig(h) /\ Chain(f, h)
    <3>1. PICK h \in Fns : /\ h = IF c.through = None THEN f ELSE c.through
                           /\ c.target \in BySig(h) /\ Chain(f, h)
      BY <2>3
    <3>2. Holder(f)' = h
      BY <1>1, <3>1 DEF Holder
    <3>3. c.target \in BySig(h)' /\ Chain(f, h)' /\ "writes" \in eff'[c.target]
      BY <1>2, <1>3, <2>3, <3>1
    <3>4. Blamed(f)'
      BY <1>1, <3>2, <3>3 DEF Blamed
    <3> QED
      BY <2>1, <2>3, <3>4
  <2> QED
    BY <1>1, <1>5, <2>1, <2>2, <2>3, CauseFacts
<1>6. ASSUME NEW h \in Fns
      PROVE  /\ via'[h].target = None => via'[h] = NoVia'
             /\ h \in InEntries /\ "writes" \in eff'[h] /\ via'[h] = NoVia' =>
                  \E g \in Fns : "writes" \in prog'.own[g] /\ Chain(h, g)'
             /\ h \in InEntries /\ via'[h] # NoVia' => Blamed(h)'
  <2>1. CASE h = f /\ "writes" \in Arriving(f) \ eff[f]
    BY <1>5, <2>1
  <2>2. CASE ~(h = f /\ "writes" \in Arriving(f) \ eff[f])
    BY <1>1, <1>4, <2>2
  <2> QED
    BY <2>1, <2>2
<1> QED
  BY <1>1, <1>2, <1>6 DEF Explained

\* Steps that change neither the effects nor the reasons.
LEMMA StillExplained ==
  ASSUME Explained, phase # "bodies", UNCHANGED <<prog, entries, groups, eff, via>>
  PROVE  Explained'
<1>1. /\ InEntries' = InEntries
      /\ \A h : BySig(h)' = BySig(h)
      /\ \A h, k : Chain(h, k)' <=> Chain(h, k)
  BY SameCalls, SameChains
<1>2. NoVia' = NoVia
  BY DEF NoVia
<1>3. ASSUME NEW h, Blamed(h) PROVE Blamed(h)'
  <2>1. PICK k : k = Holder(h)
    OBVIOUS
  <2>2. Holder(h)' = k
    BY <2>1 DEF Holder
  <2>3. BySig(k)' = BySig(k) /\ (Chain(h, k)' <=> Chain(h, k))
    BY <1>1
  <2> QED
    BY <1>3, <2>1, <2>2, <2>3 DEF Blamed
<1> QED
  BY <1>1, <1>2, <1>3 DEF Explained

\* While the bodies are checked, and when the fixpoint starts, a function writes
\* only by itself.
LEMMA OwnExplained ==
  ASSUME Collected', \A f \in Fns : eff'[f] = OwnOf(f)' /\ via'[f] = NoVia'
  PROVE  Explained'
<1>1. InEntries' \subseteq Fns
  BY DEF Collected, TypeOK, InEntries
<1>2. \A f \in InEntries' : eff'[f] = prog'.own[f]
  BY <1>1 DEF OwnOf
<1>3. \A f \in Fns : Chain(f, f)'
  BY DEF Chain
<1> QED
  BY <1>1, <1>2, <1>3 DEF Explained

LEMMA NextExplained == ASSUME Collected, Collected', Explained, [Next]_vars PROVE Explained'
<1>1. CASE CheckFunction \/ CheckBaseHead \/ DrainSpecialization
  <2>1. phase' = "bodies"
    BY <1>1 DEF CheckFunction, CheckBaseHead, DrainSpecialization
  <2>2. \A f \in Fns : eff'[f] = OwnOf(f)' /\ via'[f] = NoVia'
    BY <2>1 DEF Collected
  <2> QED
    BY <2>2, OwnExplained
<1>2. CASE StartFixpoint
  <2>1. phase = "bodies" /\ UNCHANGED <<prog, entries, eff, via>>
    BY <1>2 DEF StartFixpoint
  <2>2. InEntries' = InEntries
    BY <2>1 DEF InEntries
  <2>3. \A f \in Fns : eff'[f] = OwnOf(f)' /\ via'[f] = NoVia'
    BY <2>1, <2>2 DEF Collected, OwnOf, NoVia
  <2> QED
    BY <2>3, OwnExplained
<1>3. CASE Visit
  BY <1>3, VisitExplained
<1>4. CASE EndSweep
  BY <1>4, EndSweepFacts, StillExplained DEF Collected
<1>5. CASE Resolve
  BY <1>5, ResolveFacts, StillExplained
<1>6. CASE CheckSpecials
  BY <1>6, CheckSpecialsFacts, StillExplained
<1>7. CASE UNCHANGED vars
  <2>1. CASE phase = "bodies"
    <3>1. InEntries' = InEntries
      BY <1>7 DEF vars, InEntries
    <3>2. \A f \in Fns : eff'[f] = OwnOf(f)' /\ via'[f] = NoVia'
      BY <1>7, <2>1, <3>1 DEF vars, Collected, OwnOf, NoVia
    <3> QED
      BY <3>2, OwnExplained
  <2>2. CASE phase # "bodies"
    BY <1>7, <2>2, StillExplained DEF vars
  <2> QED
    BY <2>1, <2>2
<1> QED
  BY <1>1, <1>2, <1>3, <1>4, <1>5, <1>6, <1>7 DEF Next

LEMMA SpecExplained == Spec => [](Collected /\ Explained)
<1>1. Init => Collected /\ Explained
  BY InitCollected, BodiesExplained DEF Init
<1>2. (Collected /\ Explained) /\ [Next]_vars => (Collected /\ Explained)'
  BY NextCollected, NextExplained
<1> QED
  BY <1>1, <1>2, PTL DEF Spec

\* A message that says a function modifies state is true of it, and one that
\* blames a pointer names the writer and the function that calls through it.
THEOREM SpecReasonsTrue == Spec => [](PlainWritesAreReal /\ BlameIsLocated)
  BY SpecExplained, ExplainedPlain, ExplainedBlame, PTL

\* The effects found are the least ones the calls allow, the reasons given for
\* them are true, and a head that is not deployed adds nothing.
THEOREM SpecEffectsExact == Spec => []EffectsExact
<1>1. TypeOK /\ LeastEffects /\ (PlainWritesAreReal /\ BlameIsLocated) /\ HeadsLeaveNoTrace => EffectsExact
  BY DEF EffectsExact
<1> QED
  BY SpecTypeOK, SpecLeastEffects, SpecReasonsTrue, SpecHeadsLeaveNoTrace, <1>1, PTL

--------------------------------------------------------------------------------
(* What runs below a function is no more than what it reaches.                  *)

\* A call of f through a pointer is followed: it calls specializations that have
\* effects, and its pointers hold what the contract takes.
Followed(f) ==
  /\ \A g \in prog.calls[f] : prog.kind[g] = "generic" => g \in InEntries
  /\ \A x \in prog.thru[f] : Known(f, x) \/ Targets(f, x) \subseteq TakenByDeployed

LEMMA SlotReachFacts ==
  ASSUME NEW f, NEW x \in Slots
  PROVE  /\ x \in SlotReach(f, x) /\ SlotReach(f, x) \subseteq Slots
         /\ \A y \in SlotReach(f, x) : Sources(f, y) \cap Slots \subseteq SlotReach(f, x)
<1>1. x \in SlotReach(f, x) /\ SlotReach(f, x) \subseteq Slots
  BY DEF SlotReach
<1>2. ASSUME NEW y \in SlotReach(f, x), NEW s \in Sources(f, y) \cap Slots
      PROVE  s \in SlotReach(f, x)
  <2>1. ASSUME NEW S \in SUBSET Slots, x \in S, \A z \in S : Sources(f, z) \cap Slots \subseteq S
        PROVE  s \in S
    <3>1. y \in S
      BY <1>2, <2>1 DEF SlotReach
    <3> QED
      BY <1>2, <2>1, <3>1
  <2> QED
    BY <1>2, <2>1 DEF SlotReach
<1> QED
  BY <1>1, <1>2

\* The addresses the contract takes are of functions that are checked, and
\* grouped by their signatures.
LEMMA TakenFacts ==
  ASSUME Collected, phase # "bodies", PointersSeen
  PROVE  /\ RunTaken = TakenByDeployed /\ TakenByDeployed \subseteq Deployed
         /\ \A f, g : g \in TakenByDeployed /\ prog.sig[g] \in PtrCallSigs(f) => g \in BySig(f)
<1>1. RunTaken = TakenByDeployed
  BY DEF RunTaken, PointersSeen, TakenByDeployed, Deployed
<1>2. Elements(todo) = {}
  BY EmptyFacts DEF Collected
<1>3. \A f \in Deployed : f \in Fns
  BY EntryFacts DEF Deployed, Collected
<1>4. TakenByDeployed \subseteq Fns /\ \A g \in TakenByDeployed : prog.kind[g] = "fn"
  BY <1>3, TakesFacts DEF TakenByDeployed, Collected
<1>5. \A g \in Fns : prog.kind[g] = "fn" => g \in InEntries
  BY <1>2 DEF Collected
<1>6. TakenByDeployed \subseteq Deployed
  BY <1>4, <1>5 DEF Deployed
<1>7. groups = {<<prog.sig[g], g>> : g \in TakenByDeployed}
  <2>1. (TakenByDeployed \cap InEntries) \ prog.multi = TakenByDeployed
    BY <1>6 DEF PointersSeen, Deployed
  <2> QED
    BY <2>1 DEF Collected
<1>8. ASSUME NEW f, NEW g \in TakenByDeployed, prog.sig[g] \in PtrCallSigs(f) PROVE g \in BySig(f)
  BY <1>6, <1>7, <1>8 DEF BySig, Deployed
<1> QED
  BY <1>1, <1>6, <1>8

\* What a followed pointer may hold when f runs is reached by f.
LEMMA MayHoldReached ==
  ASSUME Collected, phase # "bodies", PointersSeen, NEW f \in Fns, Followed(f), NEW x \in prog.thru[f]
  PROVE  MayHold(f, x) \subseteq Reachable(f) \cap Deployed
<1>1. WellFormed(prog) /\ prog \in ProgramType
  BY ProgramFacts DEF Collected
<1>2. x \in Slots
  BY <1>1 DEF ProgramType
<1>3. /\ x \in SlotReach(f, x) /\ SlotReach(f, x) \subseteq Slots
      /\ \A y \in SlotReach(f, x) : Sources(f, y) \cap Slots \subseteq SlotReach(f, x)
  BY <1>2, SlotReachFacts
<1>4. /\ RunTaken = TakenByDeployed /\ TakenByDeployed \subseteq Deployed
      /\ \A g : g \in TakenByDeployed /\ prog.sig[g] \in PtrCallSigs(f) => g \in BySig(f)
  BY TakenFacts
<1>5. \A y \in Slots : Sources(f, y) \cap Fns \subseteq Takes(f)
  BY DEF Sources, Takes
<1>6. \A y \in SlotReach(f, x) : Sources(f, y) \cap Fns \subseteq Targets(f, x)
  BY DEF Targets
<1>7. CASE Known(f, x)
  <2> DEFINE H == {p \in Slots \X Fns : p[1] \in SlotReach(f, x) => p[2] \in Targets(f, x)}
  <2>1. H \in SUBSET (Slots \X Fns)
    OBVIOUS
  <2>2. ASSUME NEW y \in Slots
        PROVE  /\ \A s \in Sources(f, y) : s \in Fns => <<y, s>> \in H
               /\ \A s \in Sources(f, y) \cap Slots : \A h \in Fns : <<s, h>> \in H => <<y, h>> \in H
               /\ (y \in prog.open[f] \/ Unknown \in Sources(f, y) \/ Sources(f, y) = {}) =>
                    \A h \in RunTaken : prog.sig[h] = SlotSig[y] => <<y, h>> \in H
    <3>1. \A s \in Sources(f, y) : s \in Fns => <<y, s>> \in H
      BY <1>6
    <3>2. \A s \in Sources(f, y) \cap Slots : \A h \in Fns : <<s, h>> \in H => <<y, h>> \in H
      BY <1>3
    <3>3. y \in prog.open[f] \/ Unknown \in Sources(f, y) \/ Sources(f, y) = {} => y \notin SlotReach(f, x)
      BY <1>7 DEF Known
    <3>4. RunTaken \subseteq Fns
      BY <1>4, EntryFacts DEF Deployed, Collected
    <3> QED
      BY <3>1, <3>2, <3>3, <3>4
  <2>3. \A g \in MayHold(f, x) : <<x, g>> \in H
    BY <2>1, <2>2 DEF MayHold
  <2>4. MayHold(f, x) \subseteq Targets(f, x)
    BY <1>3, <2>3
  <2>5. Targets(f, x) \subseteq Takes(f)
    BY <1>3, <1>5 DEF Targets
  <2>6. \A g \in Takes(f) : g \in Fns /\ prog.kind[g] = "fn"
    BY TakesFacts DEF Collected
  <2>7. \A g \in Fns : prog.kind[g] = "fn" => g \in Deployed
    BY EmptyFacts DEF Collected, Deployed
  <2>8. Targets(f, x) \subseteq PtrCallTargets(f)
    BY <1>7 DEF PtrCallTargets
  <2> QED
    BY <2>4, <2>5, <2>6, <2>7, <2>8 DEF Direct, Reachable, Deployed
<1>8. CASE ~Known(f, x)
  <2> DEFINE H == {p \in Slots \X Fns : p[1] \in SlotReach(f, x) =>
                      p[2] \in TakenByDeployed /\ prog.sig[p[2]] = SlotSig[p[1]]}
  <2>1. H \in SUBSET (Slots \X Fns)
    OBVIOUS
  <2>2. Targets(f, x) \subseteq TakenByDeployed
    BY <1>8 DEF Followed
  <2>3. \A y \in Slots : /\ \A s \in Sources(f, y) \cap Fns : prog.sig[s] = SlotSig[y]
                         /\ \A s \in Sources(f, y) \cap Slots : SlotSig[s] = SlotSig[y]
    BY <1>1 DEF WellFormed, Sources
  <2>4. ASSUME NEW y \in Slots
        PROVE  /\ \A s \in Sources(f, y) : s \in Fns => <<y, s>> \in H
               /\ \A s \in Sources(f, y) \cap Slots : \A h \in Fns : <<s, h>> \in H => <<y, h>> \in H
               /\ (y \in prog.open[f] \/ Unknown \in Sources(f, y) \/ Sources(f, y) = {}) =>
                    \A h \in RunTaken : prog.sig[h] = SlotSig[y] => <<y, h>> \in H
    <3>1. \A s \in Sources(f, y) : s \in Fns => <<y, s>> \in H
      BY <1>6, <2>2, <2>3
    <3>2. \A s \in Sources(f, y) \cap Slots : \A h \in Fns : <<s, h>> \in H => <<y, h>> \in H
      BY <1>3, <2>3
    <3>3. RunTaken \subseteq Fns
      BY <1>4, EntryFacts DEF Deployed, Collected
    <3>4. \A h \in RunTaken : prog.sig[h] = SlotSig[y] => <<y, h>> \in H
      BY <1>4, <3>3
    <3> QED
      BY <3>1, <3>2, <3>4
  <2>5. \A g \in MayHold(f, x) : <<x, g>> \in H
    BY <2>1, <2>4 DEF MayHold
  <2>6. \A g \in MayHold(f, x) : g \in TakenByDeployed /\ prog.sig[g] = SlotSig[x]
    BY <1>3, <2>5
  <2>7. SlotSig[x] \in PtrCallSigs(f)
    BY <1>8 DEF PtrCallSigs
  <2> QED
    BY <1>4, <2>6, <2>7 DEF Reachable
<1> QED
  BY <1>7, <1>8

LEMMA DeployedFacts ==
  ASSUME Collected, phase # "bodies"
  PROVE  /\ Deployed \subseteq InEntries /\ InEntries \subseteq Fns
         /\ \A g \in Fns : prog.kind[g] = "fn" => g \in Deployed
         /\ \A g \in InEntries : prog.kind[g] = "generic" => g \in Deployed
         /\ \A f \in Deployed : Followed(f)
<1>1. Deployed \subseteq InEntries /\ InEntries \subseteq Fns
  BY EntryFacts DEF Deployed, Collected
<1>2. \A g \in Fns : prog.kind[g] = "fn" => g \in Deployed
  BY EmptyFacts DEF Collected, Deployed
<1>3. \A g \in InEntries : prog.kind[g] = "generic" => g \in Deployed
  BY DEF Deployed
<1>4. ASSUME NEW f \in Deployed PROVE Followed(f)
  <2>1. \A g \in prog.calls[f] : prog.kind[g] = "generic" => g \in InEntries
    BY DEF Collected
  <2>2. prog.thru[f] \subseteq Slots
    BY <1>1, ProgramFacts DEF Collected, ProgramType
  <2>3. ASSUME NEW x \in Slots PROVE Targets(f, x) \subseteq TakenByDeployed
    <3>1. SlotReach(f, x) \subseteq Slots
      BY SlotReachFacts
    <3>2. \A y \in Slots : Sources(f, y) \cap Fns \subseteq Takes(f)
      BY DEF Sources, Takes
    <3>3. Takes(f) \subseteq TakenByDeployed
      BY DEF TakenByDeployed
    <3> QED
      BY <3>1, <3>2, <3>3 DEF Targets
  <2> QED
    BY <2>1, <2>2, <2>3 DEF Followed
<1> QED
  BY <1>1, <1>2, <1>3, <1>4

\* Every call f can make when it runs is one the fixpoint follows.
LEMMA RunCallsReached ==
  ASSUME Collected, phase # "bodies", PointersSeen, NEW f \in Fns, Followed(f)
  PROVE  RunCalls(f) \subseteq Reachable(f) \cap Deployed
<1>1. WellFormed(prog) /\ prog \in ProgramType
  BY ProgramFacts DEF Collected
<1>2. prog.calls[f] \subseteq Reachable(f) \cap Deployed
  <2>1. \A g \in prog.calls[f] : g \in Fns /\ prog.kind[g] \in {"fn", "generic"}
    BY <1>1 DEF WellFormed, ProgramType
  <2>2. \A g \in prog.calls[f] : g \in Deployed
    BY <2>1, DeployedFacts DEF Followed
  <2> QED
    BY <2>2, DeployedFacts DEF Reachable, Direct
<1>3. \A x \in prog.thru[f] : MayHold(f, x) \subseteq Reachable(f) \cap Deployed
  BY MayHoldReached
<1>4. {g \in RunTaken : prog.sig[g] \in prog.storedCalls[f]} \subseteq Reachable(f) \cap Deployed
  BY TakenFacts DEF PtrCallSigs, Reachable
<1>5. ASSUME NEW g \in RunCalls(f)
      PROVE  \/ g \in prog.calls[f]
             \/ \E x \in prog.thru[f] : g \in MayHold(f, x)
             \/ g \in RunTaken /\ prog.sig[g] \in prog.storedCalls[f]
  BY <1>5 DEF RunCalls
<1>6. \A g \in RunCalls(f) : g \in Reachable(f) \cap Deployed
  BY <1>2, <1>3, <1>4, <1>5
<1> QED
  BY <1>6

\* An effect the fixpoint leaves out of a function does not happen when it runs.
LEMMA AbsentNeverRuns ==
  ASSUME Collected, Swept, phase \in {"special", "done"}, PointersSeen,
         NEW f \in InEntries, Followed(f), NEW e, e \notin eff[f]
  PROVE  e \notin RunEffects(f)
<1> DEFINE S == {h \in InEntries : e \notin eff[h] /\ (h \in Deployed \/ h = f)}
<1>1. phase # "bodies" /\ S \in SUBSET Fns /\ f \in S
  BY DeployedFacts
<1>2. ASSUME NEW h \in S PROVE RunCalls(h) \subseteq S
  <2>1. h \in Fns /\ Followed(h)
    BY <1>1, DeployedFacts
  <2>2. RunCalls(h) \subseteq Reachable(h) \cap Deployed
    BY <1>1, <2>1, RunCallsReached
  <2>3. Arriving(h) \subseteq eff[h]
    BY DEF Swept
  <2>4. \A k \in Reachable(h) : eff[k] \subseteq eff[h]
    BY <2>3 DEF Arriving
  <2> QED
    BY <1>1, <2>2, <2>4, DeployedFacts
<1>3. RunReach(f) \subseteq S
  BY <1>1, <1>2 DEF RunReach
<1>4. \A g \in S : e \notin prog.own[g]
  BY DEF Swept
<1> QED
  BY <1>3, <1>4 DEF RunEffects

--------------------------------------------------------------------------------
(* What is resolved from the effects                                            *)

\* What f is resolved to, from what it declares.
SettledMut(f) ==
  IF ~Inferred(f) \/ prog.decl[f] = "static" THEN DeclaredMut(prog.decl[f])
  ELSE IF "writes" \in eff[f] \/ f \in prog.guarded THEN "nonpayable"
  ELSE IF eff[f] # {} THEN "view" ELSE "pure"

Settled ==
  /\ phase \in {"bodies", "fixpoint", "resolve"} =>
       /\ errs = {}
       /\ \A f \in Fns : mut[f] = DeclaredMut(prog.decl[f])
  /\ phase \in {"special", "done"} =>
       /\ errs = StaticErrors \cup AccessorErrors \cup LadderErrors(mut) \cup VarHeadErrors
       /\ \A f \in Fns : mut[f] = SettledMut(f)

LEMMA SameErrors ==
  ASSUME UNCHANGED <<prog, entries, eff>>
  PROVE  /\ StaticErrors' = StaticErrors /\ AccessorErrors' = AccessorErrors
         /\ VarHeadErrors' = VarHeadErrors /\ \A m : LadderErrors(m)' = LadderErrors(m)
         /\ \A f : SettledMut(f)' = SettledMut(f)
<1>1. InEntries' = InEntries
  BY DEF InEntries
<1>2. \A f : Inferred(f)' = Inferred(f)
  BY <1>1 DEF Inferred
<1>3. StaticErrors' = StaticErrors
  BY <1>1 DEF StaticErrors
<1>4. AccessorErrors' = AccessorErrors
  BY <1>2 DEF AccessorErrors
<1>5. VarHeadErrors' = VarHeadErrors
  BY <1>1 DEF VarHeadErrors
<1>6. \A m : LadderErrors(m)' = LadderErrors(m)
  BY DEF LadderErrors
<1>7. \A f : SettledMut(f)' = SettledMut(f)
  BY <1>2 DEF SettledMut
<1> QED
  BY <1>3, <1>4, <1>5, <1>6, <1>7

LEMMA ResolveSettled == ASSUME Collected, Settled, Resolve PROVE Settled'
<1>1. /\ phase = "resolve" /\ phase' = "special" /\ mut' = [f \in Fns |-> Resolved(f)]
      /\ errs' = StaticErrors \cup AccessorErrors \cup LadderErrors(mut') \cup VarHeadErrors
      /\ UNCHANGED <<prog, entries, eff>>
  BY ResolveFacts
<1>2. \A f \in Fns : Resolved(f) = SettledMut(f)
  BY <1>1 DEF Resolved, SettledMut, Settled
<1>3. \A f \in Fns : mut'[f] = SettledMut(f)'
  BY <1>1, <1>2, SameErrors
<1>4. PICK m : m = mut'
  OBVIOUS
<1>5. LadderErrors(m)' = LadderErrors(m)
  BY <1>1, SameErrors
<1>6. LadderErrors(mut)' = LadderErrors(m)
  BY <1>4, <1>5 DEF LadderErrors
<1>7. errs' = StaticErrors' \cup AccessorErrors' \cup LadderErrors(mut)' \cup VarHeadErrors'
  BY <1>1, <1>4, <1>6, SameErrors
<1> QED
  BY <1>1, <1>3, <1>7 DEF Settled

LEMMA StillSettled ==
  ASSUME Settled, UNCHANGED <<prog, mut, errs>>,
         \/ phase \in {"bodies", "fixpoint", "resolve"} /\ phase' \in {"bodies", "fixpoint", "resolve"}
         \/ phase \in {"special", "done"} /\ phase' \in {"special", "done"} /\ UNCHANGED <<entries, eff>>
  PROVE  Settled'
<1>1. CASE phase \in {"bodies", "fixpoint", "resolve"} /\ phase' \in {"bodies", "fixpoint", "resolve"}
  BY <1>1 DEF Settled
<1>2. CASE phase \in {"special", "done"} /\ phase' \in {"special", "done"} /\ UNCHANGED <<entries, eff>>
  <2>1. LadderErrors(mut)' = LadderErrors(mut)
    BY DEF LadderErrors
  <2>2. errs' = StaticErrors' \cup AccessorErrors' \cup LadderErrors(mut)' \cup VarHeadErrors'
    BY <1>2, <2>1, SameErrors DEF Settled
  <2>3. \A f \in Fns : mut'[f] = SettledMut(f)'
    BY <1>2, SameErrors DEF Settled
  <2> QED
    BY <1>2, <2>2, <2>3 DEF Settled
<1> QED
  BY <1>1, <1>2

LEMMA NextSettled == ASSUME Collected, Settled, [Next]_vars PROVE Settled'
<1>0. phase \in {"bodies", "fixpoint", "resolve", "special", "done"}
  BY DEF Collected, TypeOK
<1>1. CASE CheckFunction
  BY <1>1, StillSettled DEF CheckFunction
<1>2. CASE CheckBaseHead
  BY <1>2, StillSettled DEF CheckBaseHead
<1>3. CASE DrainSpecialization
  BY <1>3, StillSettled DEF DrainSpecialization
<1>4. CASE StartFixpoint
  BY <1>4, StillSettled DEF StartFixpoint
<1>5. CASE Visit
  BY <1>5, StillSettled DEF Visit
<1>6. CASE EndSweep
  <2>1. TypeOK /\ changed \in BOOLEAN
    BY DEF Collected, TypeOK
  <2> QED
    BY <1>6, <2>1, EndSweepFacts, StillSettled
<1>7. CASE Resolve
  BY <1>7, ResolveSettled
<1>8. CASE CheckSpecials
  BY <1>8, StillSettled DEF CheckSpecials
<1>9. CASE UNCHANGED vars
  BY <1>0, <1>9, StillSettled DEF vars
<1> QED
  BY <1>1, <1>2, <1>3, <1>4, <1>5, <1>6, <1>7, <1>8, <1>9 DEF Next

LEMMA SpecSettled == Spec => [](Collected /\ Swept /\ Settled)
<1>1. Init => Settled
  BY DEF Init, Settled
<1>2. Settled /\ Collected /\ [Next]_vars => Settled'
  BY NextSettled
<1> QED
  BY SpecSwept, SpecCollected, <1>1, <1>2, PTL DEF Spec

\* An accepted function that is resolved to view or pure has no more effects.
LEMMA MutMeans ==
  ASSUME Collected, Settled, Accepted, NEW f \in Deployed
  PROVE  /\ mut[f] \in {"view", "pure"} => "writes" \notin eff[f] /\ f \notin prog.guarded
         /\ mut[f] = "pure" => eff[f] = {}
<1>1. WellFormed(prog) /\ prog \in ProgramType
  BY ProgramFacts DEF Collected
<1>2. phase # "bodies" /\ phase = "done" /\ f \in InEntries /\ f \in Fns
  BY DeployedFacts DEF Accepted
<1>3. prog.kind[f] \in {"fn", "generic"}
  BY DEF Deployed, Collected
<1>4. prog.decl[f] \in {"none", "static", "payable"}
  BY <1>1, <1>2, <1>3 DEF WellFormed
<1>5. mut[f] = SettledMut(f)
  BY <1>2 DEF Settled
<1>6. CASE prog.decl[f] = "none"
  BY <1>2, <1>3, <1>5, <1>6 DEF SettledMut, Inferred
<1>7. CASE prog.decl[f] = "static"
  <2>1. StaticErrors = {}
    BY <1>2 DEF Settled, Accepted
  <2>2. eff[f] \cap {"writes", "reads"} = {} /\ "env" \notin eff[f]
    BY <1>2, <1>7, <2>1 DEF StaticErrors
  <2>3. eff[f] \subseteq {"writes", "reads", "env"}
    BY <1>2 DEF Collected, TypeOK, Effect
  <2>4. f \notin prog.guarded
    BY <1>1, <1>2, <1>7 DEF WellFormed
  <2> QED
    BY <2>2, <2>3, <2>4
<1>8. CASE prog.decl[f] = "payable"
  BY <1>5, <1>8 DEF SettledMut, Inferred, DeclaredMut
<1> QED
  BY <1>4, <1>6, <1>7, <1>8

LEMMA MutRuns ==
  ASSUME Collected, Swept, Settled, Accepted, PointersSeen, NEW f \in Deployed
  PROVE  /\ mut[f] \in {"view", "pure"} => "writes" \notin RunEffects(f) /\ f \notin prog.guarded
         /\ mut[f] = "pure" => RunEffects(f) = {}
<1>1. phase # "bodies" /\ phase \in {"special", "done"}
  BY DEF Accepted
<1>2. f \in InEntries /\ Followed(f)
  BY <1>1, DeployedFacts
<1>3. \A e : e \notin eff[f] => e \notin RunEffects(f)
  BY <1>1, <1>2, AbsentNeverRuns
<1> QED
  BY <1>3, MutMeans

LEMMA SettledSound == Collected /\ Swept /\ Settled => EffectsSound
  BY MutRuns DEF EffectsSound

LEMMA SettledOverrides == Collected /\ Swept /\ Settled => OverridesHonest
<1> SUFFICES ASSUME Collected, Swept, Settled, Accepted, PointersSeen,
                    NEW p \in prog.overrides, p[1] \in Deployed
             PROVE  /\ mut[p[2]] \in {"view", "pure"} =>
                         "writes" \notin RunEffects(p[1]) /\ p[1] \notin prog.guarded
                    /\ mut[p[2]] = "pure" => RunEffects(p[1]) = {}
                    /\ mut[p[2]] # "payable" => mut[p[1]] # "payable"
  BY DEF OverridesHonest
<1>1. LadderErrors(mut) = {}
  BY DEF Settled, Accepted
<1>2. ~(MutRank[mut[p[1]]] > MutRank[mut[p[2]]]) /\ (mut[p[1]] = "payable") = (mut[p[2]] = "payable")
  BY <1>1 DEF LadderErrors
<1>3. mut[p[1]] \in {"pure", "view", "nonpayable", "payable"}
  <2>1. p[1] \in Fns
    BY DeployedFacts DEF Accepted
  <2> QED
    BY <2>1 DEF Collected, TypeOK, Mutability
<1>4. /\ MutRank["pure"] = 0 /\ MutRank["view"] = 1
      /\ MutRank["nonpayable"] = 2 /\ MutRank["payable"] = 3
  BY DEF MutRank
<1>5. mut[p[2]] = "pure" => mut[p[1]] = "pure"
  BY <1>2, <1>3, <1>4
<1>6. mut[p[2]] = "view" => mut[p[1]] \in {"view", "pure"}
  BY <1>2, <1>3, <1>4
<1> QED
  BY <1>2, <1>5, <1>6, MutRuns

LEMMA SettledAccessors == Collected /\ Swept /\ Settled => AccessorsReadOnly
<1> SUFFICES ASSUME Collected, Swept, Settled, Accepted, PointersSeen,
                    NEW f \in prog.getter \cap Deployed, prog.decl[f] # "payable"
             PROVE  "writes" \notin RunEffects(f) /\ f \notin prog.guarded
  BY DEF AccessorsReadOnly
<1>1. phase # "bodies" /\ phase \in {"special", "done"}
  BY DEF Accepted
<1>2. f \in InEntries /\ f \in Fns /\ Followed(f)
  BY <1>1, DeployedFacts
<1>3. prog.kind[f] \in {"fn", "generic"}
  BY DEF Deployed, Collected
<1>4. prog.decl[f] \in {"none", "static", "payable"}
  BY <1>2, <1>3, ProgramFacts DEF WellFormed, Collected
<1>5. Inferred(f)
  BY <1>2, <1>3, <1>4 DEF Inferred
<1>6. AccessorErrors = {}
  BY <1>1 DEF Settled, Accepted
<1>7. "writes" \notin eff[f] /\ f \notin prog.guarded
  BY <1>5, <1>6 DEF AccessorErrors
<1> QED
  BY <1>1, <1>2, <1>7, AbsentNeverRuns

LEMMA SettledHeads == Collected /\ Swept /\ Settled => PureHeads
<1> SUFFICES ASSUME Collected, Swept, Settled, PointersSeen, HeadsSeen,
                    NEW f \in prog.varHeads \cap InEntries,
                    <<"JETH433", f>> \in errs, prog.decl[f] = "none"
             PROVE  RunEffects(f) = {}
  BY DEF PureHeads
<1>1. phase # "bodies" /\ phase \in {"special", "done"}
  BY DEF Settled, Collected, TypeOK
<1>2. f \in InEntries /\ f \in Fns
  BY <1>1, DeployedFacts
<1>3. Followed(f)
  BY DEF HeadsSeen, Followed, TakenByDeployed
<1>4. <<"JETH433", f>> \in StaticErrors \cup AccessorErrors \cup LadderErrors(mut) \cup VarHeadErrors
  BY <1>1 DEF Settled
<1>5. /\ <<"JETH433", f>> \notin StaticErrors /\ <<"JETH433", f>> \notin AccessorErrors
      /\ <<"JETH433", f>> \notin LadderErrors(mut)
  BY DEF StaticErrors, AccessorErrors, LadderErrors
<1>6. <<"JETH433", f>> \in VarHeadErrors
  BY <1>4, <1>5
<1>7. eff[f] = {}
  BY <1>6 DEF VarHeadErrors
<1> QED
  BY <1>1, <1>2, <1>3, <1>7, AbsentNeverRuns

\* No function of an accepted contract does, when it runs, what its ABI, the ABI
\* of what it overrides or its being an accessor denies; a base head is refused
\* as pure only if running it touches nothing.
THEOREM SpecMutabilityHonest == Spec => []MutabilityHonest
<1>1. Collected /\ Swept /\ Settled => MutabilityHonest
  BY SettledSound, SettledOverrides, SettledAccessors, SettledHeads DEF MutabilityHonest
<1> QED
  BY SpecSettled, <1>1, PTL

--------------------------------------------------------------------------------
(* The choice of the emitted functions                                          *)

\* Everything a body calls or takes that is in its own object is registered.
Registered(b) == InternalCalls(b) \cup b.takes \subseteq called /\ b.takes \subseteq addressed

CheckedBodies ==
  {contract.body[f] : f \in functions}
  \cup {b \in {contract.ctor} : pass # "bodies"}
  \cup {b \in {contract.entry} : pass \in {"ids", "partition", "done"}}

Taken == contract.ctor.takes \cup contract.entry.takes \cup UNION {contract.body[f].takes : f \in functions}

\* What the passes over the bodies have gathered.
Gathered ==
  /\ EmissionTypeOK
  /\ contract \in Contracts
  /\ \A f \in Elements(unchecked) : contract.kind[f] # "generic"
  /\ \A f \in Members : contract.kind[f] # "generic" => f \in Elements(unchecked) \cup functions
  /\ pass # "bodies" => Elements(unchecked) = {}
  /\ graph = {p \in Members \X Members : p[1] \in functions /\ p[2] \in contract.body[p[1]].calls}
  /\ \A b \in CheckedBodies : Registered(b)
  /\ addressed \subseteq Taken /\ addressed \subseteq called
  /\ \A f \in functions : \A g \in contract.body[f].calls :
       contract.kind[g] = "generic" => g \in functions \/ (pass = "bodies" /\ g \in worklist)
  /\ pass \in {"partition", "done"} => ids = addressed
  /\ pass = "done" => /\ retained = Retained
                      /\ \A L \in linked : objects[L] = LibraryObject(L)

\* What the earlier passes made sure of, body by body.
LEMMA ContractFacts ==
  ASSUME contract \in Contracts
  PROVE  /\ WellFormedContract(contract) /\ contract \in ContractType
         /\ \A f \in Members : contract.body[f] \in Bodies(contract)
         /\ contract.ctor \in Bodies(contract) /\ contract.entry \in Bodies(contract)
         /\ \A b \in Bodies(contract) :
              /\ b.calls \subseteq Members /\ b.takes \subseteq Members
              /\ InternalCalls(b) \subseteq Members
              /\ \A g \in b.takes : contract.kind[g] \in {"internal", "libInternal"}
              /\ \A g \in InternalCalls(b) : contract.kind[g] # "libExternal"
         /\ \A g \in Members : contract.kind[g] = "libExternal" => contract.lib[g] \in Libs
<1>1. WellFormedContract(contract) /\ contract \in ContractType
  BY ContractsAssumption DEF WellFormedContract
<1>2. /\ \A f \in Members : contract.body[f] \in Bodies(contract)
      /\ contract.ctor \in Bodies(contract) /\ contract.entry \in Bodies(contract)
  BY DEF Bodies
<1>3. \A b \in Bodies(contract) : b \in BodyType
  BY <1>1 DEF Bodies, ContractType
<1>4. \A b \in Bodies(contract) : b.calls \subseteq Members /\ b.takes \subseteq Members
  BY <1>3 DEF BodyType
<1>5. \A b \in Bodies(contract) : \A g \in b.takes : contract.kind[g] \in {"internal", "libInternal"}
  BY <1>1 DEF WellFormedContract
<1>6. \A b \in Bodies(contract) :
        InternalCalls(b) \subseteq Members /\ \A g \in InternalCalls(b) : contract.kind[g] # "libExternal"
  BY <1>4 DEF InternalCalls
<1>7. \A g \in Members : contract.kind[g] = "libExternal" => contract.lib[g] \in Libs
  BY <1>1 DEF WellFormedContract
<1> QED
  BY <1>1, <1>2, <1>4, <1>5, <1>6, <1>7

LEMMA EmissionInitGathered == EmissionInit => Gathered
<1> SUFFICES ASSUME EmissionInit PROVE Gathered
  OBVIOUS
<1>1. contract \in Contracts /\ WellFormedContract(contract) /\ contract \in ContractType
  BY ContractFacts DEF EmissionInit
<1>2. unchecked \in Seq(Members)
  BY <1>1 DEF EmissionInit, ContractType
<1>3. Elements(unchecked) = {f \in Members : contract.kind[f] # "generic"}
  BY <1>1 DEF EmissionInit, WellFormedContract, Elements
<1>4. EmissionTypeOK
  BY <1>2 DEF EmissionInit, EmissionTypeOK
<1>5. CheckedBodies = {}
  BY DEF EmissionInit, CheckedBodies
<1> QED
  BY <1>1, <1>3, <1>4, <1>5 DEF EmissionInit, Gathered

\* What collecting one more body does to the collections.
LEMMA CollectFacts ==
  ASSUME Gathered, NEW b \in Bodies(contract), UNCHANGED contract,
         called' = called \cup InternalCalls(b) \cup b.takes, addressed' = addressed \cup b.takes,
         linked' = linked \cup {contract.lib[g] : g \in {h \in b.calls : contract.kind[h] = "libExternal"}}
  PROVE  /\ called' \subseteq Members /\ addressed' \subseteq Members /\ linked' \subseteq Libs
         /\ called' \cap {f \in Members : contract.kind[f] = "libExternal"} = {}
         /\ addressed' \subseteq called'
         /\ Registered(b)' /\ \A d : Registered(d) => Registered(d)'
<1>1. /\ b.calls \subseteq Members /\ b.takes \subseteq Members
      /\ InternalCalls(b) \subseteq Members
      /\ \A g \in b.takes : contract.kind[g] \in {"internal", "libInternal"}
      /\ \A g \in InternalCalls(b) : contract.kind[g] # "libExternal"
      /\ \A g \in Members : contract.kind[g] = "libExternal" => contract.lib[g] \in Libs
  BY ContractFacts DEF Gathered
<1>2. EmissionTypeOK /\ addressed \subseteq called
  BY DEF Gathered
<1>3. called' \subseteq Members /\ addressed' \subseteq Members /\ linked' \subseteq Libs
  BY <1>1, <1>2 DEF EmissionTypeOK
<1>4. \A f \in called' : contract.kind[f] # "libExternal"
  <2>1. \A f \in called : contract.kind[f] # "libExternal"
    BY <1>2 DEF EmissionTypeOK
  <2> QED
    BY <1>1, <2>1
<1>5. \A d : InternalCalls(d)' = InternalCalls(d)
  BY DEF InternalCalls
<1>6. Registered(b)' /\ \A d : Registered(d) => Registered(d)'
  BY <1>5 DEF Registered
<1> QED
  BY <1>2, <1>3, <1>4, <1>6

\* One more function checked, the next of the list or a specialization.
LEMMA CheckGathered ==
  ASSUME Gathered, pass = "bodies", NEW f \in Members,
         UNCHANGED <<contract, pass, ids, retained, objects>>,
         functions' = functions \cup {f},
         graph' = graph \cup {<<f, g>> : g \in contract.body[f].calls},
         called' = called \cup InternalCalls(contract.body[f]) \cup contract.body[f].takes,
         addressed' = addressed \cup contract.body[f].takes,
         linked' = linked \cup {contract.lib[g] : g \in {h \in contract.body[f].calls : contract.kind[h] = "libExternal"}},
         worklist' \subseteq Members, worklist \subseteq worklist' \cup {f},
         {g \in contract.body[f].calls : contract.kind[g] = "generic" /\ g \notin functions} \subseteq worklist' \cup {f},
         unchecked' \in Seq(Members), Elements(unchecked') \subseteq Elements(unchecked),
         Elements(unchecked) \subseteq Elements(unchecked') \cup {f}
  PROVE  Gathered'
<1>1. contract \in Contracts /\ contract' = contract /\ EmissionTypeOK /\ pass' = "bodies"
  BY DEF Gathered
<1>2. PICK b \in Bodies(contract) : b = contract.body[f]
  BY <1>1, ContractFacts
<1>3. b.calls \subseteq Members
  BY <1>1, <1>2, ContractFacts
<1>4. /\ called' \subseteq Members /\ addressed' \subseteq Members /\ linked' \subseteq Libs
      /\ called' \cap {h \in Members : contract.kind[h] = "libExternal"} = {}
      /\ addressed' \subseteq called'
      /\ Registered(b)' /\ \A d : Registered(d) => Registered(d)'
  BY <1>2, CollectFacts
<1>5. graph' = {p \in Members \X Members : p[1] \in functions' /\ p[2] \in contract.body[p[1]].calls}
  <2>1. graph = {p \in Members \X Members : p[1] \in functions /\ p[2] \in contract.body[p[1]].calls}
    BY DEF Gathered
  <2>2. {<<f, g>> : g \in b.calls} = {p \in Members \X Members : p[1] = f /\ p[2] \in contract.body[p[1]].calls}
    BY <1>2, <1>3
  <2> QED
    BY <1>2, <2>1, <2>2
<1>6. EmissionTypeOK'
  <2>1. graph' \subseteq Members \X Members
    BY <1>5
  <2> QED
    BY <1>1, <1>4, <2>1 DEF EmissionTypeOK
<1>7. \A d \in CheckedBodies' : Registered(d)'
  <2>1. CheckedBodies' = CheckedBodies \cup {b}
    BY <1>1, <1>2 DEF CheckedBodies
  <2>2. \A d \in CheckedBodies : Registered(d)
    BY DEF Gathered
  <2> QED
    BY <1>4, <2>1, <2>2
<1>8. addressed' \subseteq Taken'
  BY <1>1 DEF Gathered, Taken
<1>9. \A h \in functions' : \A g \in contract'.body[h].calls :
        contract'.kind[g] = "generic" => g \in functions' \/ (pass' = "bodies" /\ g \in worklist')
  <2> SUFFICES ASSUME NEW h \in functions', NEW g \in contract.body[h].calls, contract.kind[g] = "generic"
               PROVE  g \in functions' \/ g \in worklist'
    BY <1>1
  <2>1. CASE h = f
    BY <2>1
  <2>2. CASE h \in functions
    BY <2>2 DEF Gathered
  <2> QED
    BY <2>1, <2>2
<1>10. /\ \A h \in Elements(unchecked') : contract'.kind[h] # "generic"
       /\ \A h \in Members : contract'.kind[h] # "generic" => h \in Elements(unchecked') \cup functions'
  BY <1>1 DEF Gathered
<1>11. Elements(unchecked)' = Elements(unchecked')
  OBVIOUS
<1> QED
  BY <1>1, <1>4, <1>5, <1>6, <1>7, <1>8, <1>9, <1>10, <1>11 DEF Gathered

LEMMA CheckMemberGathered == ASSUME Gathered, CheckMember PROVE Gathered'
<1> DEFINE f == Head(unchecked)
<1>1. EmissionTypeOK /\ contract \in Contracts /\ unchecked \in Seq(Members)
  BY DEF Gathered, EmissionTypeOK
<1>2. /\ pass = "bodies" /\ unchecked # <<>> /\ unchecked' = Tail(unchecked)
      /\ UNCHANGED <<contract, pass, ids, retained, objects>>
      /\ functions' = functions \cup {f}
      /\ graph' = graph \cup {<<f, g>> : g \in contract.body[f].calls}
      /\ worklist' = worklist \cup {g \in contract.body[f].calls : contract.kind[g] = "generic" /\ g \notin functions}
      /\ called' = called \cup InternalCalls(contract.body[f]) \cup contract.body[f].takes
      /\ addressed' = addressed \cup contract.body[f].takes
      /\ linked' = linked \cup {contract.lib[g] : g \in {h \in contract.body[f].calls : contract.kind[h] = "libExternal"}}
  BY DEF CheckMember, Check, Collect
<1>3. /\ f \in Members /\ unchecked' \in Seq(Members)
      /\ Elements(unchecked) = {f} \cup Elements(unchecked')
  BY <1>1, <1>2, HeadFacts
<1>4. contract.body[f].calls \subseteq Members
  BY <1>1, <1>3, ContractFacts
<1>5. worklist' \subseteq Members
  BY <1>1, <1>2, <1>4 DEF EmissionTypeOK
<1> QED
  BY <1>2, <1>3, <1>5, CheckGathered

LEMMA DrainWorklistGathered == ASSUME Gathered, DrainWorklist PROVE Gathered'
<1>1. EmissionTypeOK /\ contract \in Contracts /\ unchecked \in Seq(Members)
  BY DEF Gathered, EmissionTypeOK
<1>2. PICK f \in worklist :
         /\ functions' = functions \cup {f}
         /\ graph' = graph \cup {<<f, h>> : h \in contract.body[f].calls}
         /\ worklist' = (worklist \cup {h \in contract.body[f].calls : contract.kind[h] = "generic" /\ h \notin functions}) \ {f}
         /\ called' = called \cup InternalCalls(contract.body[f]) \cup contract.body[f].takes
         /\ addressed' = addressed \cup contract.body[f].takes
         /\ linked' = linked \cup {contract.lib[h] : h \in {k \in contract.body[f].calls : contract.kind[k] = "libExternal"}}
  BY DEF DrainWorklist
<1>3. pass = "bodies" /\ unchecked' = unchecked /\ UNCHANGED <<contract, pass, ids, retained, objects>>
  BY DEF DrainWorklist
<1>4. f \in Members
  BY <1>1 DEF EmissionTypeOK
<1>5. contract.body[f].calls \subseteq Members
  BY <1>1, <1>4, ContractFacts
<1>6. worklist' \subseteq Members
  BY <1>1, <1>2, <1>5 DEF EmissionTypeOK
<1>7. unchecked' \in Seq(Members) /\ Elements(unchecked') = Elements(unchecked)
  BY <1>1, <1>3
<1> QED
  BY <1>2, <1>3, <1>4, <1>6, <1>7, CheckGathered

\* A body that is no function's, the constructor's or that of receive and fallback.
LEMMA LateGathered ==
  ASSUME Gathered, pass \in {"bodies", "entries"}, pass' \in {"entries", "ids"},
         Elements(unchecked) = {}, pass = "bodies" => worklist = {},
         NEW b \in {contract.ctor, contract.entry}, Collect(b),
         CheckedBodies' = CheckedBodies \cup {b},
         UNCHANGED <<contract, unchecked, functions, graph, ids, retained, objects>>
  PROVE  Gathered'
<1>1. contract \in Contracts /\ EmissionTypeOK
  BY DEF Gathered
<1>2. b \in Bodies(contract) /\ b.calls \subseteq Members
  BY <1>1, ContractFacts
<1>3. /\ worklist' = worklist \cup {g \in b.calls : contract.kind[g] = "generic" /\ g \notin functions}
      /\ called' = called \cup InternalCalls(b) \cup b.takes
      /\ addressed' = addressed \cup b.takes
      /\ linked' = linked \cup {contract.lib[g] : g \in {h \in b.calls : contract.kind[h] = "libExternal"}}
  BY DEF Collect
<1>4. /\ called' \subseteq Members /\ addressed' \subseteq Members /\ linked' \subseteq Libs
      /\ called' \cap {h \in Members : contract.kind[h] = "libExternal"} = {}
      /\ addressed' \subseteq called'
      /\ Registered(b)' /\ \A d : Registered(d) => Registered(d)'
  BY <1>2, <1>3, CollectFacts
<1>5. EmissionTypeOK'
  BY <1>1, <1>2, <1>3, <1>4 DEF EmissionTypeOK
<1>6. \A d \in CheckedBodies' : Registered(d)'
  BY <1>4 DEF Gathered
<1>7. addressed' \subseteq Taken'
  <2>1. Taken' = Taken
    BY DEF Taken
  <2>2. b.takes \subseteq Taken
    BY DEF Taken
  <2>3. addressed \subseteq Taken
    BY DEF Gathered
  <2> QED
    BY <1>3, <2>1, <2>2, <2>3
<1>8. \A h \in functions' : \A g \in contract'.body[h].calls :
        contract'.kind[g] = "generic" => g \in functions'
  BY DEF Gathered
<1>9. Elements(unchecked)' = Elements(unchecked)
  BY DEF Elements
<1> QED
  BY <1>1, <1>4, <1>5, <1>6, <1>7, <1>8, <1>9 DEF Gathered

LEMMA CheckConstructorGathered == ASSUME Gathered, CheckConstructor PROVE Gathered'
<1>1. /\ pass = "bodies" /\ unchecked = <<>> /\ worklist = {} /\ Collect(contract.ctor) /\ pass' = "entries"
      /\ UNCHANGED <<contract, unchecked, functions, graph, ids, retained, objects>>
  BY DEF CheckConstructor
<1>2. CheckedBodies' = CheckedBodies \cup {contract.ctor}
  BY <1>1 DEF CheckedBodies
<1>3. Elements(unchecked) = {}
  BY <1>1, EmptyFacts
<1> QED
  BY <1>1, <1>2, <1>3, LateGathered

LEMMA CheckSpecialEntriesGathered == ASSUME Gathered, CheckSpecialEntries PROVE Gathered'
<1>1. /\ pass = "entries" /\ Collect(contract.entry) /\ pass' = "ids"
      /\ UNCHANGED <<contract, unchecked, functions, graph, ids, retained, objects>>
  BY DEF CheckSpecialEntries
<1>2. CheckedBodies' = CheckedBodies \cup {contract.entry}
  BY <1>1 DEF CheckedBodies
<1>3. Elements(unchecked) = {}
  BY <1>1 DEF Gathered
<1> QED
  BY <1>1, <1>2, <1>3, LateGathered

LEMMA AssignIdsGathered == ASSUME Gathered, AssignIds PROVE Gathered'
<1>1. /\ pass = "ids" /\ pass' = "partition" /\ ids' = addressed /\ called' = called \cup (addressed \cap functions)
      /\ UNCHANGED <<contract, unchecked, worklist, functions, addressed, graph, linked, retained, objects>>
  BY DEF AssignIds
<1>2. called' = called
  BY <1>1 DEF Gathered
<1>3. CheckedBodies' = CheckedBodies
  BY <1>1 DEF CheckedBodies
<1>4. \A d : Registered(d)' = Registered(d)
  BY <1>1, <1>2 DEF Registered, InternalCalls
<1>5. EmissionTypeOK'
  BY <1>1, <1>2 DEF Gathered, EmissionTypeOK
<1>6. Elements(unchecked)' = Elements(unchecked) /\ Taken' = Taken
  BY <1>1 DEF Elements, Taken
<1> QED
  BY <1>1, <1>2, <1>3, <1>4, <1>5, <1>6 DEF Gathered

\* The objects are made of what no step changes any more.
LEMMA SameObjects ==
  ASSUME UNCHANGED <<contract, functions, graph>>
  PROVE  Retained' = Retained /\ \A L : LibraryObject(L)' = LibraryObject(L)
<1>1. \A S, T : ReachThrough(S, T)' = ReachThrough(S, T)
  BY DEF ReachThrough
<1>2. \A f : IsLib(f)' = IsLib(f)
  BY DEF IsLib
<1>3. \A L : LibExternals(L)' = LibExternals(L)
  BY DEF LibExternals
<1>4. Retained' = Retained
  <2> DEFINE S == {g \in functions : ~IsLib(g)}
  <2>1. S' = S
    BY <1>2
  <2>2. PICK R : R = S
    OBVIOUS
  <2>3. ReachThrough(R, Members)' = ReachThrough(R, Members)
    BY <1>1
  <2> QED
    BY <1>2, <2>1, <2>2, <2>3 DEF Retained, ReachThrough
<1>5. ASSUME NEW L PROVE LibraryObject(L)' = LibraryObject(L)
  BY DEF LibraryObject, LibExternals, ReachThrough
<1> QED
  BY <1>4, <1>5

LEMMA PartitionGathered == ASSUME Gathered, Partition PROVE Gathered'
<1>1. /\ pass = "partition" /\ pass' = "done" /\ retained' = Retained
      /\ objects' = [L \in Libs |-> IF L \in linked THEN LibraryObject(L) ELSE {}]
      /\ UNCHANGED <<contract, unchecked, worklist, functions, called, addressed, graph, linked, ids>>
  BY DEF Partition
<1>2. CheckedBodies' = CheckedBodies
  BY <1>1 DEF CheckedBodies
<1>3. \A d : Registered(d)' = Registered(d)
  BY <1>1 DEF Registered, InternalCalls
<1>4. Retained' = Retained /\ \A L : LibraryObject(L)' = LibraryObject(L)
  BY <1>1, SameObjects
<1>5. linked \subseteq Libs
  BY DEF Gathered, EmissionTypeOK
<1>6. \A L \in linked' : objects'[L] = LibraryObject(L)'
  BY <1>1, <1>4, <1>5
<1>7. Retained \subseteq functions /\ \A L : LibraryObject(L) \subseteq Members
  BY DEF Retained, LibraryObject, LibExternals, ReachThrough
<1>8. EmissionTypeOK'
  BY <1>1, <1>7 DEF Gathered, EmissionTypeOK
<1>9. Elements(unchecked)' = Elements(unchecked) /\ Taken' = Taken
  BY <1>1 DEF Elements, Taken
<1> QED
  BY <1>1, <1>2, <1>3, <1>4, <1>6, <1>8, <1>9 DEF Gathered

LEMMA NextGathered == ASSUME Gathered, [EmissionNext]_emissionVars PROVE Gathered'
<1>1. CASE CheckMember
  BY <1>1, CheckMemberGathered
<1>2. CASE DrainWorklist
  BY <1>2, DrainWorklistGathered
<1>3. CASE CheckConstructor
  BY <1>3, CheckConstructorGathered
<1>4. CASE CheckSpecialEntries
  BY <1>4, CheckSpecialEntriesGathered
<1>5. CASE AssignIds
  BY <1>5, AssignIdsGathered
<1>6. CASE Partition
  BY <1>6, PartitionGathered
<1>7. CASE UNCHANGED emissionVars
  <2>1. CheckedBodies' = CheckedBodies /\ Taken' = Taken /\ Elements(unchecked)' = Elements(unchecked)
    BY <1>7 DEF emissionVars, CheckedBodies, Taken, Elements
  <2>2. \A d : Registered(d)' = Registered(d)
    BY <1>7 DEF emissionVars, Registered, InternalCalls
  <2>3. Retained' = Retained /\ \A L : LibraryObject(L)' = LibraryObject(L)
    BY <1>7, SameObjects DEF emissionVars
  <2>4. EmissionTypeOK'
    BY <1>7 DEF emissionVars, Gathered, EmissionTypeOK
  <2> QED
    BY <1>7, <2>1, <2>2, <2>3, <2>4 DEF emissionVars, Gathered
<1> QED
  BY <1>1, <1>2, <1>3, <1>4, <1>5, <1>6, <1>7 DEF EmissionNext

LEMMA SpecGathered == EmissionSpec => []Gathered
  BY EmissionInitGathered, NextGathered, PTL DEF EmissionSpec

LEMMA ReachFacts ==
  ASSUME NEW S \in SUBSET Members, NEW T
  PROVE  /\ S \subseteq ReachThrough(S, T) /\ ReachThrough(S, T) \subseteq Members
         /\ \A f, g : f \in ReachThrough(S, T) /\ <<f, g>> \in graph /\ g \in T /\ g \in Members
                         => g \in ReachThrough(S, T)
<1>1. S \subseteq ReachThrough(S, T) /\ ReachThrough(S, T) \subseteq Members
  BY DEF ReachThrough
<1>2. ASSUME NEW f \in ReachThrough(S, T), NEW g \in T, <<f, g>> \in graph, g \in Members
      PROVE  g \in ReachThrough(S, T)
  <2>1. ASSUME NEW R \in SUBSET Members, S \subseteq R, \A p \in graph : p[1] \in R /\ p[2] \in T => p[2] \in R
        PROVE  g \in R
    <3>1. f \in R
      BY <2>1 DEF ReachThrough
    <3> QED
      BY <1>2, <2>1, <3>1
  <2> QED
    BY <1>2, <2>1 DEF ReachThrough
<1> QED
  BY <1>1, <1>2

\* When everything is checked, a call of a checked body is an edge to a function
\* that is checked.
LEMMA EdgeFacts ==
  ASSUME Gathered, pass = "done", NEW f \in functions, NEW g \in contract.body[f].calls
  PROVE  /\ f \in Members /\ g \in functions /\ g \in Members /\ <<f, g>> \in graph
<1>1. f \in Members /\ contract \in Contracts
  BY DEF Gathered, EmissionTypeOK
<1>2. g \in Members
  BY <1>1, ContractFacts
<1>3. g \in functions
  BY <1>2 DEF Gathered
<1> QED
  BY <1>1, <1>2, <1>3 DEF Gathered

\* A generic is checked because the contract's own functions lead to it.
Spawned ==
  /\ \A g \in worklist : g \in Members => contract.kind[g] = "generic"
  /\ \A g \in Members : contract.kind[g] = "generic" /\ (g \in functions \/ (pass = "bodies" /\ g \in worklist))
                        => g \in CalledByOwn

LEMMA OwnFacts ==
  /\ CalledByOwn \subseteq Members
  /\ \A g \in Members : contract.kind[g] \in {"external", "internal"} => g \in CalledByOwn
  /\ \A f \in CalledByOwn : \A g \in contract.body[f].calls : g \in Members => g \in CalledByOwn
<1>1. CalledByOwn \subseteq Members
  BY DEF CalledByOwn
<1>2. \A g \in Members : contract.kind[g] \in {"external", "internal"} => g \in CalledByOwn
  BY DEF CalledByOwn
<1>3. ASSUME NEW f \in CalledByOwn, NEW g \in contract.body[f].calls, g \in Members
      PROVE  g \in CalledByOwn
  <2> SUFFICES ASSUME NEW R \in SUBSET Members,
                      \A h \in Members : contract.kind[h] \in {"external", "internal"} => h \in R,
                      \A h \in R : contract.body[h].calls \subseteq R
               PROVE  g \in R
    BY <1>3 DEF CalledByOwn
  <2>1. f \in R
    BY DEF CalledByOwn
  <2> QED
    BY <2>1
<1> QED
  BY <1>1, <1>2, <1>3

\* A library calls no generic, so what calls one is the contract's own.
LEMMA SpawnFacts ==
  ASSUME contract \in Contracts, NEW f \in Members, contract.kind[f] = "generic" => f \in CalledByOwn,
         NEW g \in contract.body[f].calls, contract.kind[g] = "generic"
  PROVE  g \in CalledByOwn
<1>1. g \in Members /\ WellFormedContract(contract) /\ contract \in ContractType
  BY ContractFacts
<1>2. contract.kind[f] \notin {"libExternal", "libInternal"}
  BY <1>1 DEF WellFormedContract
<1>3. contract.kind[f] \in MemberKinds
  BY <1>1 DEF ContractType
<1>4. f \in CalledByOwn
  BY <1>2, <1>3, OwnFacts DEF MemberKinds
<1> QED
  BY <1>1, <1>4, OwnFacts

LEMMA NextSpawned == ASSUME Gathered, Spawned, [EmissionNext]_emissionVars PROVE Spawned'
<1>1. contract \in Contracts /\ EmissionTypeOK
  BY DEF Gathered
<1>2. ASSUME contract' = contract PROVE CalledByOwn' = CalledByOwn
  BY <1>2 DEF CalledByOwn
<1>3. ASSUME UNCHANGED <<contract, functions>>,
             \A g \in worklist' : g \in Members => contract.kind[g] = "generic",
             pass' = "bodies" => pass = "bodies" /\ worklist' = worklist
      PROVE  Spawned'
  BY <1>2, <1>3 DEF Spawned
<1>4. ASSUME NEW f \in Members, contract.kind[f] = "generic" => f \in worklist, pass = "bodies", pass' = pass,
             contract' = contract, functions' = functions \cup {f},
             worklist' \subseteq worklist \cup {g \in contract.body[f].calls : contract.kind[g] = "generic" /\ g \notin functions}
      PROVE  Spawned'
  <2>1. contract.kind[f] = "generic" => f \in CalledByOwn
    BY <1>4 DEF Spawned
  <2>2. \A g \in contract.body[f].calls : contract.kind[g] = "generic" => g \in CalledByOwn
    BY <1>1, <2>1, SpawnFacts
  <2> QED
    BY <1>2, <1>4, <2>1, <2>2 DEF Spawned
<1>5. CASE CheckMember
  <2>1. Head(unchecked) \in Members /\ contract.kind[Head(unchecked)] # "generic"
    <3>1. unchecked \in Seq(Members) /\ unchecked # <<>>
      BY <1>1, <1>5 DEF CheckMember, EmissionTypeOK
    <3>2. Head(unchecked) \in Members /\ Head(unchecked) \in Elements(unchecked)
      BY <3>1, HeadFacts
    <3> QED
      BY <3>2 DEF Gathered
  <2> QED
    BY <1>4, <1>5, <2>1 DEF CheckMember, Check, Collect
<1>6. CASE DrainWorklist
  <2>1. PICK f \in worklist :
          /\ functions' = functions \cup {f}
          /\ worklist' = (worklist \cup {h \in contract.body[f].calls : contract.kind[h] = "generic" /\ h \notin functions}) \ {f}
    BY <1>6 DEF DrainWorklist
  <2>2. f \in Members /\ pass = "bodies" /\ pass' = pass /\ contract' = contract
    BY <1>1, <1>6, <2>1 DEF DrainWorklist, EmissionTypeOK
  <2> QED
    BY <1>4, <2>1, <2>2
<1>7. CASE CheckConstructor \/ CheckSpecialEntries
  <2>1. /\ UNCHANGED <<contract, functions>> /\ pass' # "bodies"
        /\ \A g \in worklist' : g \in worklist \/ contract.kind[g] = "generic"
    BY <1>7 DEF CheckConstructor, CheckSpecialEntries, Collect
  <2> QED
    BY <1>3, <2>1 DEF Spawned
<1>8. CASE AssignIds \/ Partition \/ UNCHANGED emissionVars
  <2>1. UNCHANGED <<contract, functions, worklist>> /\ (pass' = "bodies" => pass = "bodies")
    BY <1>8 DEF AssignIds, Partition, emissionVars
  <2> QED
    BY <1>3, <2>1 DEF Spawned
<1> QED
  BY <1>5, <1>6, <1>7, <1>8 DEF EmissionNext

LEMMA SpecSpawned == EmissionSpec => []Spawned
<1>1. EmissionInit => Spawned
  BY DEF EmissionInit, Spawned
<1>2. Gathered /\ Spawned /\ [EmissionNext]_emissionVars => Spawned'
  BY NextSpawned
<1> QED
  BY <1>1, <1>2, SpecGathered, PTL DEF EmissionSpec

\* What the call graph reaches from the contract's functions is what they call.
LEMMA OwnReached ==
  ASSUME Gathered, Spawned, pass = "done"
  PROVE  /\ CalledByOwn \subseteq functions
         /\ ReachThrough({h \in functions : ~IsLib(h)}, Members) = CalledByOwn
<1> DEFINE own == {h \in functions : ~IsLib(h)}
           reached == ReachThrough(own, Members)
<1>1. /\ contract \in Contracts /\ functions \subseteq Members /\ Elements(unchecked) = {}
      /\ \A f \in Members : contract.kind[f] # "generic" => f \in functions
      /\ graph = {p \in Members \X Members : p[1] \in functions /\ p[2] \in contract.body[p[1]].calls}
  BY DEF Gathered, EmissionTypeOK
<1>2. /\ own \in SUBSET Members /\ own \subseteq reached /\ reached \subseteq Members
      /\ \A f, g : f \in reached /\ <<f, g>> \in graph /\ g \in Members => g \in reached
  BY <1>1, ReachFacts
<1>3. CalledByOwn \subseteq reached \cap functions
  <2>1. \A g \in Members : contract.kind[g] \in {"external", "internal"} => g \in reached \cap functions
    BY <1>1, <1>2 DEF IsLib
  <2>2. \A g \in reached \cap functions : contract.body[g].calls \subseteq reached \cap functions
    BY <1>2, EdgeFacts
  <2>3. reached \cap functions \in SUBSET Members
    BY <1>1
  <2> QED
    BY <2>1, <2>2, <2>3 DEF CalledByOwn
<1>4. reached \subseteq CalledByOwn
  <2>1. own \subseteq CalledByOwn
    <3>1. ASSUME NEW h \in own PROVE h \in CalledByOwn
      <4>1. h \in Members /\ contract.kind[h] \in {"external", "internal", "generic"}
        <5>1. contract.kind[h] \in MemberKinds
          BY <1>1, ContractFacts DEF ContractType
        <5> QED
          BY <1>1, <5>1 DEF IsLib, MemberKinds
      <4> QED
        BY <4>1, OwnFacts DEF Spawned
    <3> QED
      BY <3>1
  <2>2. \A p \in graph : p[1] \in CalledByOwn /\ p[2] \in Members => p[2] \in CalledByOwn
    BY <1>1, OwnFacts
  <2>3. CalledByOwn \in SUBSET Members
    BY OwnFacts
  <2> QED
    BY <2>1, <2>2, <2>3 DEF ReachThrough
<1> QED
  BY <1>3, <1>4

\* The contract keeps all but the lost functions and the libraries' entries.
LEMMA KeptUnlessLost ==
  ASSUME Gathered, Spawned, pass = "done", NEW g \in Members, contract.kind[g] # "libExternal"
  PROVE  g \in retained <=> g \notin Lost
<1>1. /\ CalledByOwn \subseteq functions
      /\ ReachThrough({h \in functions : ~IsLib(h)}, Members) = CalledByOwn
  BY OwnReached
<1>2. retained = Retained /\ contract.kind[g] \in MemberKinds
  BY ContractFacts DEF Gathered, ContractType
<1>3. contract.kind[g] # "generic" => g \in functions
  BY DEF Gathered
<1>4. contract.kind[g] = "generic" /\ g \in functions => g \in CalledByOwn
  BY DEF Spawned
<1>5. CASE \E e \in Members : contract.kind[e] = "libExternal"
  <2>1. g \in retained <=> g \in functions /\ (IsLib(g) => g \in CalledByOwn)
    BY <1>1, <1>2, <1>5 DEF Retained
  <2>2. g \in Lost <=> g \notin CalledByOwn /\ contract.kind[g] \in {"generic", "libInternal"}
    BY <1>5 DEF Lost
  <2> QED
    BY <1>1, <1>2, <1>3, <1>4, <2>1, <2>2, OwnFacts DEF IsLib, MemberKinds
<1>6. CASE ~\E e \in Members : contract.kind[e] = "libExternal"
  <2>1. g \in retained <=> g \in functions
    BY <1>2, <1>6 DEF Retained
  <2>2. g \in Lost <=> g \notin CalledByOwn /\ contract.kind[g] = "generic"
    BY <1>6 DEF Lost
  <2> QED
    BY <1>1, <1>3, <1>4, <2>1, <2>2
<1> QED
  BY <1>5, <1>6

\* So what a checked body calls or takes is kept unless it is lost.
LEMMA BodyKept ==
  ASSUME Gathered, Spawned, pass = "done", NEW b \in CheckedBodies
  PROVE  /\ InternalCalls(b) \cap retained \cap called = InternalCalls(b) \ Lost
         /\ b.takes \cap DispatchCases = b.takes \ Lost
<1>1. b \in Bodies(contract) /\ contract \in Contracts
  <2>1. contract \in Contracts /\ functions \subseteq Members
    BY DEF Gathered, EmissionTypeOK
  <2> QED
    BY <2>1, ContractFacts DEF CheckedBodies
<1>2. /\ InternalCalls(b) \subseteq Members /\ b.takes \subseteq Members
      /\ \A g \in InternalCalls(b) \cup b.takes : contract.kind[g] # "libExternal"
  BY <1>1, ContractFacts
<1>3. InternalCalls(b) \subseteq called /\ b.takes \subseteq ids
  BY DEF Gathered, Registered
<1>4. \A g \in InternalCalls(b) \cup b.takes : g \in retained <=> g \notin Lost
  BY <1>2, KeptUnlessLost
<1> QED
  BY <1>3, <1>4 DEF DispatchCases

\* The bodies in either object have been checked.
LEMMA ObjectBodies ==
  ASSUME Gathered, pass = "done"
  PROVE  RuntimeBodies \cup CreationBodies \subseteq CheckedBodies
<1>1. /\ contract.ctor \in CheckedBodies /\ contract.entry \in CheckedBodies
      /\ \A f \in retained : contract.body[f] \in CheckedBodies
  BY DEF CheckedBodies, Gathered, EmissionTypeOK
<1>2. RuntimeCode \subseteq retained /\ CreationFns \subseteq retained
  BY DEF RuntimeCode, RuntimeFns, CreationFns
<1> QED
  BY <1>1, <1>2 DEF RuntimeBodies, CreationBodies

\* What the creation object copies is closed under the calls that are kept.
LEMMA CreationFacts ==
  ASSUME retained \subseteq Members
  PROVE  /\ CreationFns \subseteq retained
         /\ \A b \in CreationBodies : CallKeys(b) \cap retained \subseteq CreationFns
<1>1. CreationFns \subseteq retained
  BY DEF CreationFns
<1>2. CallKeys(contract.ctor) \cap retained \subseteq CreationFns
  BY DEF CreationFns
<1>3. ASSUME NEW f \in CreationFns, NEW g \in CallKeys(contract.body[f]) \cap retained
      PROVE  g \in CreationFns
  <2>1. ASSUME NEW R \in SUBSET retained, CallKeys(contract.ctor) \cap retained \subseteq R,
               \A h \in R : CallKeys(contract.body[h]) \cap retained \subseteq R
        PROVE  g \in R
    <3>1. f \in R
      BY <2>1 DEF CreationFns
    <3> QED
      BY <1>3, <2>1, <3>1
  <2> QED
    BY <1>3, <2>1 DEF CreationFns
<1> QED
  BY <1>1, <1>2, <1>3 DEF CreationBodies

LEMMA GatheredResolve == Gathered /\ Spawned => CallsResolve
<1> SUFFICES ASSUME Gathered, Spawned, pass = "done"
             PROVE  /\ \A b \in RuntimeBodies : InternalCalls(b) \cap RuntimeFns = InternalCalls(b) \ Lost
                    /\ \A b \in CreationBodies : InternalCalls(b) \cap CreationFns = InternalCalls(b) \ Lost
                    /\ \A L \in linked : \A f \in objects[L] : InternalCalls(contract.body[f]) \subseteq objects[L]
  BY DEF CallsResolve
<1>1. contract \in Contracts /\ EmissionTypeOK /\ retained \subseteq functions /\ functions \subseteq Members
  BY DEF Gathered, EmissionTypeOK
<1>2. \A b \in RuntimeBodies : InternalCalls(b) \cap RuntimeFns = InternalCalls(b) \ Lost
  <2>1. ASSUME NEW b \in RuntimeBodies
        PROVE  InternalCalls(b) \cap retained \cap called = InternalCalls(b) \ Lost
    BY ObjectBodies, BodyKept
  <2> QED
    BY <2>1 DEF RuntimeFns
<1>3. ASSUME NEW b \in CreationBodies
      PROVE  InternalCalls(b) \cap CreationFns = InternalCalls(b) \ Lost
  <2>1. InternalCalls(b) \cap retained \cap called = InternalCalls(b) \ Lost
    BY ObjectBodies, BodyKept
  <2>2. InternalCalls(b) \subseteq called
    BY ObjectBodies DEF Gathered, Registered
  <2>3. CreationFns \subseteq retained /\ CallKeys(b) \cap retained \subseteq CreationFns
    BY <1>1, CreationFacts
  <2>4. InternalCalls(b) \subseteq CallKeys(b)
    BY DEF CallKeys
  <2> QED
    BY <2>1, <2>2, <2>3, <2>4
<1>4. ASSUME NEW L \in linked, NEW f \in objects[L], NEW g \in InternalCalls(contract.body[f])
      PROVE  g \in objects[L]
  <2> DEFINE T == {h \in Members : contract.kind[h] # "libExternal"}
             R == ReachThrough(LibExternals(L), T)
  <2>1. objects[L] = LibraryObject(L) /\ LibExternals(L) \in SUBSET Members
    BY DEF Gathered, LibExternals
  <2>2. f \in R /\ f \in Members
    BY <2>1, ReachFacts DEF LibraryObject
  <2>3. contract.kind[f] \in {"libExternal", "libInternal"}
    BY <2>1 DEF LibraryObject, LibExternals
  <2>4. f \in functions
    <3>1. contract.kind[f] # "generic"
      BY <2>3
    <3> QED
      BY <2>2, <3>1 DEF Gathered
  <2>5. g \in contract.body[f].calls /\ contract.kind[g] # "libExternal"
    BY DEF InternalCalls
  <2>6. contract.kind[g] = "libInternal"
    BY <1>1, <2>2, <2>3, <2>5, ContractFacts DEF WellFormedContract
  <2>7. g \in functions /\ g \in Members /\ <<f, g>> \in graph
    BY <2>4, <2>5, EdgeFacts
  <2>8. g \in R
    BY <2>1, <2>2, <2>5, <2>7, ReachFacts
  <2> QED
    BY <2>1, <2>6, <2>7, <2>8 DEF LibraryObject
<1> QED
  BY <1>2, <1>3, <1>4

LEMMA GatheredObjects == Gathered => ObjectsAreLibraries
<1> SUFFICES ASSUME Gathered, pass = "done", NEW L \in linked
             PROVE  /\ \A f \in objects[L] : contract.kind[f] = "libInternal" \/ f \in LibExternals(L)
                    /\ LibExternals(L) \cap functions \subseteq objects[L]
  BY DEF ObjectsAreLibraries
<1>1. objects[L] = LibraryObject(L)
  BY DEF Gathered
<1> QED
  BY <1>1 DEF LibraryObject

\* Every object has what its code calls, wherever the call was discovered, but for the
\* lost functions, and nothing that is not its own.
THEOREM SpecObjectsComplete == EmissionSpec => []ObjectsComplete
<1>1. Gathered /\ Spawned => ObjectsComplete
  BY GatheredResolve, GatheredObjects DEF Gathered, ObjectsComplete
<1> QED
  BY SpecGathered, SpecSpawned, <1>1, PTL

\* Every function whose address an emitted body takes is a case of the dispatcher and is
\* defined in each object that calls through pointers, but for the lost ones.
THEOREM SpecPointersDispatch == EmissionSpec => []PointersDispatch
<1>1. ASSUME Gathered, Spawned, pass = "done"
      PROVE  /\ \A b \in RuntimeBodies \cup CreationBodies : b.takes \cap DispatchCases = b.takes \ Lost
             /\ DispatchCases \subseteq RuntimeFns
             /\ (\E b \in CreationBodies : b.thru) => DispatchCases \subseteq CreationFns
  <2>1. DispatchCases \subseteq retained /\ ids \subseteq called
    BY <1>1 DEF DispatchCases, Gathered
  <2>2. \A b \in RuntimeBodies \cup CreationBodies : b.takes \cap DispatchCases = b.takes \ Lost
    BY <1>1, ObjectBodies, BodyKept
  <2>3. ASSUME NEW b \in CreationBodies, b.thru PROVE DispatchCases \subseteq CreationFns
    <3>1. DispatchCases \subseteq CallKeys(b)
      BY <2>3 DEF CallKeys
    <3>2. retained \subseteq Members
      BY <1>1 DEF Gathered, EmissionTypeOK
    <3> QED
      BY <2>1, <3>1, <3>2, CreationFacts
  <2> QED
    BY <2>1, <2>2, <2>3 DEF DispatchCases, RuntimeFns
<1>2. Gathered /\ Spawned => PointersDispatch
  BY <1>1 DEF PointersDispatch
<1> QED
  BY SpecGathered, SpecSpawned, <1>2, PTL
================================================================================
