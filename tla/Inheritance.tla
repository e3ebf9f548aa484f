---------------------------- MODULE Inheritance -----------------------------
(* Inheritance in the analyzer (src/analyzer.ts): linearize orders a class    *)
(* and its bases, resolveGetterOverrides, resolveOverrides and                *)
(* enforceInterfaceImplementation judge the versions of one function along    *)
(* that order and choose the one the contract dispatches to, checkSuperCall   *)
(* what `super` reaches.                                                      *)
EXTENDS Naturals, Sequences, FiniteSets, SequencesExt, Functions, TLC

CONSTANTS Hierarchies,  \* the hierarchies analyzed
          Deployed,     \* the class that deploys
          NoFn,         \* a class that does not declare the function
          NoBase, Ambiguous  \* what a class may be delivered in place of a definition

\* What the parser makes: finitely many classes, the deployed one among them, each
\* with a list of names it extends; an interface extends interfaces only (JETH349).
ASSUME HierarchiesAssumption ==
  \A h \in Hierarchies :
    /\ Deployed \in DOMAIN h.bases /\ IsFiniteSet(DOMAIN h.bases)
    /\ \A c \in DOMAIN h.bases :
         /\ h.bases[c] \in Seq(ToSet(h.bases[c]))
         /\ h.kind[c] = "interface" =>
              \A b \in ToSet(h.bases[c]) \cap DOMAIN h.bases : h.kind[b] = "interface"

ASSUME MarkersAssumption ==
  NoBase # Ambiguous /\ \A h \in Hierarchies : {NoBase, Ambiguous} \cap DOMAIN h.bases = {}

(* A hierarchy: bases[c] the classes and interfaces c extends, in order;      *)
(* kind[c] "contract", "abstract" or "interface"; fn[c] c's version of the    *)
(* function f, a record [virtual, override, list, body, external, returns],   *)
(* list the names in `@override(...)`; var, the public variable f that        *)
(* overrides a function, a record [at, list, returns], or NoFn.               *)

VARIABLES hierarchy, pc,
          stack,    \* the classes c3 is linearizing, innermost last
          memo,     \* the linearizations found
          seqs,     \* what is left of the sequences c3Merge merges for the innermost
          out,      \* what it has merged
          validVar, \* the variable is a valid override
          errors    \* diagnostics: code and class

Codes == { "JETH369", "JETH370", "JETH371", "JETH372", "JETH374", "JETH375", "JETH376", "JETH377",
           "JETH380", "JETH381", "JETH385", "JETH386", "JETH388", "JETH415", "JETH430", "JETH431",
           "JETH433", "JETH443", "JETH456", "JETH483" }

vars == <<hierarchy, pc, stack, memo, seqs, out, validVar, errors>>

Classes == DOMAIN hierarchy.bases
BasesOf(c) == hierarchy.bases[c]
IsInterface(c) == hierarchy.kind[c] = "interface"
Concrete(c) == hierarchy.kind[c] = "contract"
Top == Last(stack)

Init ==
  /\ hierarchy \in Hierarchies
  /\ pc = "linearize"
  /\ stack = <<Deployed>> /\ memo = <<>>
  /\ seqs = <<>> /\ out = <<>>
  /\ validVar = FALSE
  /\ errors = {}

\* ---- C3 ------------------------------------------------------------------

Fail(code, c) ==
  /\ errors' = errors \cup {<<code, c>>} /\ pc' = "done"
  /\ UNCHANGED <<hierarchy, stack, memo, seqs, out, validVar>>

Linearizing == pc = "linearize" /\ stack # <<>>

\* directBases stops at the first base that is repeated or that nothing declares.
Repeated(i) == \E j \in 1..(i - 1) : BasesOf(Top)[j] = BasesOf(Top)[i]
Offending == { i \in DOMAIN BasesOf(Top) : Repeated(i) \/ BasesOf(Top)[i] \notin Classes }
FirstOffending == CHOOSE i \in Offending : \A j \in Offending : i <= j
BasesKnown == Offending = {}

DuplicateBase == Linearizing /\ ~BasesKnown /\ Repeated(FirstOffending) /\ Fail("JETH456", Top)
UnknownBase == Linearizing /\ ~BasesKnown /\ ~Repeated(FirstOffending) /\ Fail("JETH370", Top)

\* c3 goes on with the base written last of those not linearized yet.
Pending == { i \in DOMAIN BasesOf(Top) : BasesOf(Top)[i] \notin DOMAIN memo }
NextBase == BasesOf(Top)[CHOOSE i \in Pending : \A j \in Pending : j <= i]

CyclicBase ==
  /\ Linearizing /\ BasesKnown
  /\ Pending # {} /\ NextBase \in ToSet(stack)
  /\ Fail("JETH372", NextBase)

Descend ==
  /\ Linearizing /\ BasesKnown
  /\ Pending # {} /\ NextBase \notin ToSet(stack)
  /\ stack' = Append(stack, NextBase)
  /\ UNCHANGED <<hierarchy, pc, memo, seqs, out, validVar, errors>>

\* What is merged: the linearizations of the bases, the last written first, and
\* that list itself.
Reversed(c) == Reverse(BasesOf(c))
\* Mutant: the bases are merged in the order written.
ToMergeForward == Append([i \in DOMAIN BasesOf(Top) |-> memo[BasesOf(Top)[i]]], BasesOf(Top))
ToMerge == Append([i \in DOMAIN Reversed(Top) |-> memo[Reversed(Top)[i]]], Reversed(Top))

StartMerge ==
  /\ Linearizing /\ BasesKnown /\ Pending = {} /\ seqs = <<>>
  /\ seqs' = ToMerge
  /\ UNCHANGED <<hierarchy, pc, stack, memo, out, validVar, errors>>

Merging == Linearizing /\ seqs # <<>>
AllMerged == \A i \in DOMAIN seqs : seqs[i] = <<>>

\* The sequences whose head is in no sequence's tail.
GoodHeads ==
  { i \in DOMAIN seqs :
      seqs[i] # <<>> /\ \A j \in DOMAIN seqs : seqs[j] # <<>> => Head(seqs[i]) \notin ToSet(Tail(seqs[j])) }

\* The first good head moves to the output. It is spliced out of every sequence
\* that holds it, and holds it as its head.
MergeTurn ==
  /\ Merging /\ GoodHeads # {}
  /\ LET pick == Head(seqs[CHOOSE i \in GoodHeads : \A j \in GoodHeads : i <= j])
     IN /\ seqs' = [i \in DOMAIN seqs |->
                      IF seqs[i] # <<>> /\ Head(seqs[i]) = pick THEN Tail(seqs[i]) ELSE seqs[i]]
        /\ out' = Append(out, pick)
  /\ UNCHANGED <<hierarchy, pc, stack, memo, validVar, errors>>

Unmergeable ==
  /\ Merging /\ ~AllMerged /\ GoodHeads = {}
  /\ Fail("JETH371", Top)

MergeBases ==
  /\ Merging /\ AllMerged
  /\ memo' = [c \in DOMAIN memo \cup {Top} |-> IF c = Top THEN <<Top>> \o out ELSE memo[c]]
  /\ stack' = Front(stack)
  /\ pc' = IF stack' = <<>> THEN "getter" ELSE "linearize"
  /\ seqs' = <<>> /\ out' = <<>>
  /\ UNCHANGED <<hierarchy, validVar, errors>>

\* ---- the versions of f along the linearization ---------------------------

Lin == memo[Deployed]
Above(c) == ToSet(memo[c]) \ {c}
View(c) == ToSet(memo[c])
Fn(c) == hierarchy.fn[c]
Defines(c) == Fn(c) # NoFn /\ ~IsInterface(c)
Declares(c) == Fn(c) # NoFn /\ IsInterface(c)
Definers == { c \in ToSet(Lin) : Defines(c) }
HasVar == hierarchy.var # NoFn /\ hierarchy.var.at \in ToSet(Lin)
First(S) == Lin[CHOOSE i \in DOMAIN Lin : Lin[i] \in S /\ \A j \in 1..(i - 1) : Lin[j] \notin S]
Index(c) == CHOOSE i \in DOMAIN Lin : Lin[i] = c

\* The definer a direct base contributes: the most derived one in its hierarchy.
HeadWithin(b, candidates) ==
  LET within == candidates \cap View(b)
      maximal == { d \in within : \A e \in within : d \notin Above(e) }
  IN IF maximal = {} THEN {} ELSE {First(maximal)}
ContractHeads(c, candidates) == UNION { HeadWithin(b, candidates) : b \in ToSet(BasesOf(c)) }

\* interfaceOverrideHeads: the declaring interfaces among a class's interface bases.
InterfaceHeads(c) ==
  UNION { { i \in View(b) : Declares(i) } : b \in { b \in ToSet(BasesOf(c)) : IsInterface(b) } }

\* `@override(...)` names nothing but heads, each once; all of them when there
\* are several.
NamesHeads(list, heads) == ToSet(list) \subseteq heads /\ IsInjective(list)
NamesAll(list, heads) == Cardinality(heads) >= 2 => heads \subseteq ToSet(list)

\* ---- the variable that overrides f ---------------------------------------

VarBases == { c \in Definers : Index(c) > Index(hierarchy.var.at) }
VarInterfaces ==
  { i \in Above(hierarchy.var.at) : Declares(i) /\ Fn(i).returns = hierarchy.var.returns }

VarIsValid ==
  LET v == hierarchy.var
  IN /\ VarBases \cup VarInterfaces # {}
     /\ LET heads == ContractHeads(v.at, VarBases) \cup VarInterfaces
        IN NamesHeads(v.list, heads) /\ NamesAll(v.list, heads)
     /\ \A b \in VarBases : Fn(b).virtual /\ Fn(b).external /\ Fn(b).returns = v.returns

ResolveGetter ==
  /\ pc = "getter"
  /\ validVar' = (HasVar /\ VarIsValid)
  /\ errors' = IF HasVar /\ ~VarIsValid THEN {<<"JETH433", hierarchy.var.at>>} ELSE {}
  /\ pc' = "override"
  /\ UNCHANGED <<hierarchy, stack, memo, seqs, out>>

\* ---- resolveOverrides ----------------------------------------------------

Overridden(v) == Definers \cap Above(v)
Code(code, S) == { <<code, c>> : c \in S }
Report(code, c, broken) == IF broken THEN {<<code, c>>} ELSE {}

ListErrors(c, heads) ==
  Report("JETH415", c, ~NamesHeads(Fn(c).list, heads)) \cup Report("JETH381", c, ~NamesAll(Fn(c).list, heads))

\* One contract declares f.
LoneErrors ==
  LET v == First(Definers)
  IN Report("JETH369", v, Fn(v).override /\ \A i \in ToSet(Lin) : ~Declares(i))
     \cup (IF InterfaceHeads(v) = {} THEN {} ELSE ListErrors(v, InterfaceHeads(v)))

PairErrors(v, over) ==
  Report("JETH375", v, \E b \in over : ~Fn(b).virtual)
  \cup Report("JETH377", v, \E b \in over : Fn(b).returns # Fn(v).returns)
  \cup Report("JETH443", v, \E b \in over : Fn(b).external # Fn(v).external)
  \cup Report("JETH431", v, ~Fn(v).body /\ \E b \in over : Fn(b).body)
OrderErrors(v) ==
  Report("JETH374", v, Overridden(v) # {} /\ ~Fn(v).override)
  \cup Report("JETH376", v, Overridden(v) # {} /\ v # First(Definers) /\ ~Fn(v).virtual)
  \cup Report("JETH369", v, Overridden(v) = {} /\ Fn(v).override)
  \cup ListErrors(v, ContractHeads(v, Overridden(v)) \cup InterfaceHeads(v))

\* Several do: each version against every version it overrides.
\* Mutant: against the nearest version it overrides only.
VersionErrorsNearest(v) ==
  OrderErrors(v) \cup PairErrors(v, IF Overridden(v) = {} THEN {} ELSE {First(Overridden(v))})
VersionErrors(v) == OrderErrors(v) \cup PairErrors(v, Overridden(v))

\* deliveredVia: the definition a class hands on, given those its bases do.
Maximal(sub) == { d \in sub : d = Ambiguous \/ \A e \in sub \ {Ambiguous} : d \notin Above(e) }
DeliveredOf(c, sub) ==
  LET declaring == { i \in DOMAIN BasesOf(c) : Declares(BasesOf(c)[i]) }
  IN IF Defines(c) \/ Declares(c) THEN c
     ELSE IF declaring # {} THEN BasesOf(c)[CHOOSE i \in declaring : \A j \in declaring : i <= j]
     ELSE IF Maximal(sub) = {} THEN NoBase
     ELSE IF Cardinality(Maximal(sub)) = 1 THEN CHOOSE d \in Maximal(sub) : TRUE ELSE Ambiguous
Delivered[c \in ToSet(Lin)] == DeliveredOf(c, { Delivered[b] : b \in ToSet(BasesOf(c)) } \ {NoBase})

Bodyless(c) == IsInterface(c) \/ ~Fn(c).body

\* Mutant: any definition is subsumed by one that derives from it.
SubsumedAny(x, y) ==
  /\ y # x /\ y.def # Ambiguous /\ x.def # Ambiguous
  /\ x.def \in Above(y.def)
\* x, delivered through a base, needs no override beside y: y overrides it and
\* x is but an obligation.
Subsumed(x, y) ==
  /\ y # x /\ y.def # Ambiguous /\ x.def # Ambiguous
  /\ x.def \in Above(y.def) /\ Bodyless(x.def)
  /\ IsInterface(x.def) \/ y.def = x.base \/ x.base \in Above(y.def)

\* What the bases of a class hand on, and what of it is not subsumed.
PerBase(c) ==
  { d \in { [base |-> b, def |-> Delivered[b]] : b \in ToSet(BasesOf(c)) } : d.def # NoBase }
Live(c) == { x.def : x \in { x \in PerBase(c) : \A y \in PerBase(c) : ~Subsumed(x, y) } }

MustOverride(c) ==
  /\ ~Defines(c) /\ ~IsInterface(c)
  /\ Cardinality(Live(c)) >= 2
  /\ ~(validVar /\ hierarchy.var.at = c)

VarWithin(c) == validVar /\ hierarchy.var.at \in View(c)
DefinersIn(c) == Definers \cap View(c)

\* The concrete classes that leave f without a body: by declaring it so, or by
\* inheriting it so. The deployed one has a code of its own.
Unimplemented ==
  Code("JETH483", { c \in ToSet(Lin) : Defines(c) /\ Concrete(c) /\ ~Fn(c).body })
  \cup Code("JETH483", { c \in ToSet(Tail(Lin)) :
         /\ Concrete(c) /\ DefinersIn(c) # {} /\ First(DefinersIn(c)) # c
         /\ ~Fn(First(DefinersIn(c))).body /\ ~VarWithin(c) })
  \cup Code("JETH380", { c \in {Deployed} : Concrete(c) /\ ~validVar /\ ~Fn(First(Definers)).body })

ResolveOverrides ==
  /\ pc = "override"
  /\ errors' = errors \cup
       (IF Definers = {} THEN {}
        ELSE Unimplemented \cup Code("JETH430", { c \in ToSet(Lin) : MustOverride(c) })
             \cup (IF Cardinality(Definers) = 1 THEN LoneErrors ELSE UNION { VersionErrors(v) : v \in Definers }))
  /\ pc' = "interface"
  /\ UNCHANGED <<hierarchy, stack, memo, seqs, out, validVar>>

\* ---- enforceInterfaceImplementation --------------------------------------

InterfaceErrors(i) ==
  LET winner == First(Definers)
      missing == Definers = {} \/ validVar \/ ~Fn(winner).body
  IN IF validVar /\ Fn(i).returns = hierarchy.var.returns THEN {}
     ELSE IF missing THEN Code("JETH385", { c \in {Deployed} : Concrete(c) })
     ELSE Code("JETH386", { c \in {winner} : Fn(c).returns # Fn(i).returns })
          \cup Code("JETH388", { c \in {winner} : ~Fn(c).external })

UnimplementedIn(i) ==
  Code("JETH483", { c \in ToSet(Tail(Lin)) :
    /\ Concrete(c) /\ i \in Above(c)
    /\ ~(VarWithin(c) /\ Fn(i).returns = hierarchy.var.returns)
    /\ \/ DefinersIn(c) = {}
       \/ (~Fn(First(DefinersIn(c))).body /\ First(DefinersIn(c)) # c) })

EnforceInterfaces ==
  /\ pc = "interface"
  /\ errors' = errors \cup
       UNION { InterfaceErrors(i) \cup UnimplementedIn(i) : i \in { i \in ToSet(Lin) : Declares(i) } }
  /\ pc' = "done"
  /\ UNCHANGED <<hierarchy, stack, memo, seqs, out, validVar>>

Next ==
  \/ DuplicateBase \/ UnknownBase \/ CyclicBase \/ Descend
  \/ StartMerge \/ MergeTurn \/ Unmergeable \/ MergeBases
  \/ ResolveGetter \/ ResolveOverrides \/ EnforceInterfaces

Spec == Init /\ [][Next]_vars

\* What a call of f enters: the variable's getter drops every function version.
Entry == IF validVar THEN hierarchy.var.at ELSE First(Definers)

\* checkSuperCall in a body of class c: the version `super.f` enters, if it
\* compiles. With one version only the names c sees count.
SuperTarget(c) ==
  LET chain == { v \in Definers : v = First(Definers) \/ Fn(v).body }
      after == { v \in chain : Index(v) > Index(c) }
  IN IF \/ validVar \/ after = {} \/ ~Fn(First(after)).body \/ Fn(First(after)).external
        \/ (Cardinality(Definers) = 1 /\ First(after) \notin Above(c))
     THEN NoBase ELSE First(after)

-----------------------------------------------------------------------------
Done == pc = "done"
Accepted == Done /\ errors = {}
Linearized == pc # "linearize" /\ Deployed \in DOMAIN memo

\* The compiler's state is well formed: what is being linearized is a path of
\* distinct classes (linearize's set `stack`), and what is found was found once.
TypeOK ==
  /\ pc \in {"linearize", "getter", "override", "interface", "done"}
  /\ ToSet(stack) \cup DOMAIN memo \subseteq Classes
  /\ IsInjective(stack) /\ ToSet(stack) \cap DOMAIN memo = {}
  /\ seqs \in Seq(Seq(Classes)) /\ out \in Seq(Classes)
  /\ validVar \in BOOLEAN
  /\ errors \subseteq Codes \X Classes

Before(x, y, order) ==
  \E i, j \in DOMAIN order : i < j /\ order[i] = x /\ order[j] = y
Keeps(order, s) == \A i, j \in DOMAIN s : i < j => Before(s[i], s[j], order)

\* A linearization (linearize, c3Merge) holds a class and everything it extends
\* once, the bases in the order written, the last first, and all that a class it
\* extends is followed by in that class's own order: what a method means in a base
\* it still means, relative to the same classes, in what extends it.
LinearizationSound ==
  \A c \in DOMAIN memo :
    /\ Head(memo[c]) = c /\ IsInjective(memo[c])
    /\ View(c) = {c} \cup UNION { View(b) : b \in ToSet(BasesOf(c)) }
    /\ Keeps(memo[c], Reversed(c))
    /\ \A b \in Above(c) : Keeps(memo[c], memo[b])

\* c3Merge gives up (JETH371) only when no order of the bases' linearizations
\* and of the written bases exists, and it never gives up on a chain of bases
\* that some order fits.
LinearizationComplete ==
  stack # <<>> /\ <<"JETH371", Top>> \in errors =>
    \A order \in SetToSeqs(UNION { View(b) : b \in ToSet(BasesOf(Top)) }) :
      ~ /\ Keeps(order, Reversed(Top))
        /\ \A b \in ToSet(BasesOf(Top)) : Keeps(order, memo[b])

\* The analyzer's order of the classes keeps every base's own order, and is given
\* up only when there is none.
LinearizesAsC3 == TypeOK /\ LinearizationSound /\ LinearizationComplete

\* The definitions of f in a class's hierarchy, the overriding variable among them.
DefinitionsIn(c) == DefinersIn(c) \cup { v \in Classes : validVar /\ v = hierarchy.var.at /\ v \in View(c) }

\* In an accepted program every class has one meaning of f: among the contract
\* definitions it inherits there is one that derives from all the others, so no
\* class is left to the accident of the linearization (resolveOverrides' pair
\* rules with its diamond rule).
Dominance ==
  Accepted => \A c \in ToSet(Lin) :
    DefinitionsIn(c) = {} \/ \E d \in DefinitionsIn(c) : \A e \in DefinitionsIn(c) \ {d} : e \in Above(d)

\* In an accepted program a class that does not override f keeps the body each of
\* its bases runs: a body is replaced only where a class says @override
\* (checkOverrideDiamond).
BodiesKept ==
  Accepted => \A c \in ToSet(Lin) : ~Defines(c) => \A b \in ToSet(BasesOf(c)) :
    DefinersIn(b) # {} /\ Fn(First(DefinersIn(b))).body => First(DefinersIn(c)) = First(DefinersIn(b))

\* In an accepted program whatever overrides f keeps its type and visibility, at
\* any distance and through interfaces: a call compiled against one version is
\* right for the one that runs.
Substitutable ==
  Accepted =>
    /\ \A v \in Definers : \A b \in Definers \cap Above(v) :
         Fn(b).returns = Fn(v).returns /\ Fn(b).external = Fn(v).external /\ Fn(b).virtual
    /\ validVar => \A b \in Definers \cap Above(hierarchy.var.at) :
         Fn(b).returns = hierarchy.var.returns /\ Fn(b).external /\ Fn(b).virtual
    /\ Definers # {} /\ Concrete(Deployed) => \A i \in ToSet(Lin) : Declares(i) =>
         IF Entry \in Definers /\ ~validVar THEN Fn(Entry).returns = Fn(i).returns /\ Fn(Entry).external
         ELSE hierarchy.var.returns = Fn(i).returns

\* In an accepted program every class that is not abstract has a body for f in
\* its own view, whether f is declared by a contract or by an interface, not
\* only the deployed one (JETH380, JETH385, JETH483).
Implemented ==
  Accepted => \A c \in ToSet(Lin) :
    Concrete(c) /\ (\E d \in View(c) : Defines(d) \/ Declares(d)) =>
      (validVar /\ hierarchy.var.at \in View(c)) \/ (DefinersIn(c) # {} /\ Fn(First(DefinersIn(c))).body)

\* Accepted overrides keep the type and the visibility of what they override, and
\* no class that can be deployed lacks a body.
OverridesSubstitutable == Substitutable /\ Implemented

\* `super.f` in the bodies of f, from the one the contract dispatches to, leads
\* through every internal body of f, each once (the chain resolveOverrides
\* builds): no override is skipped and none runs twice.
SuperVisitsAll ==
  Accepted /\ Definers # {} /\ ~validVar /\ Concrete(Deployed) /\ ~Fn(Entry).external =>
    LET bodies == { v \in Definers : Fn(v).body }
    IN /\ \A v \in bodies \ {Entry} : \E u \in bodies : SuperTarget(u) = v
       /\ \A u, v \in bodies : u # v /\ SuperTarget(u) = SuperTarget(v) => SuperTarget(u) = NoBase

\* Where several bases of a class inherit a definition of f, each hands on one. A
\* base may hand on an interface instead, though it inherits a definition that
\* implements it: deliveredVia names the interface a base itself extends first.
NothingHidden ==
  \A c \in ToSet(Lin) : ~Defines(c) =>
    \A b, e \in ToSet(BasesOf(c)) :
      b # e /\ DefinersIn(b) # {} /\ DefinersIn(e) # {} => Delivered[b] \in Definers

\* Among functions, what a class inherits does not hang on the order of its bases:
\* one version dominates, its body is the one the bases run, and super visits
\* every version once. The first two hold where no definition is hidden.
OneVersionDominates ==
  hierarchy.var = NoFn /\ Accepted => (NothingHidden => Dominance /\ BodiesKept) /\ SuperVisitsAll

\* resolveGetterOverrides' doc: what a variable overrides is declared in a base of
\* the variable's class.
VarOverridesBase ==
  validVar => \E b \in Above(hierarchy.var.at) : Defines(b) \/ Declares(b)

\* resolveOverrides' doc: the winner is the most derived definition of the
\* signature.
DispatchesMostDerived ==
  Accepted /\ Definers # {} =>
    \A v \in Definers : Entry = v \/ Entry \notin Above(v)

\* overrideImplementsInterfaceMethod's doc: an @override on an implementation of
\* an interface method is never reported as overriding nothing.
InterfaceOverrideAllowed ==
  \A v \in Classes : <<"JETH369", v>> \in errors => \A i \in Above(v) : ~Declares(i)

\* The test that `super.f()` is rejected where no base declares f.
SuperInBases ==
  Accepted => \A c \in ToSet(Lin) : SuperTarget(c) # NoBase => DefinersIn(c) \ {c} # {}
=============================================================================
