------------------------------- MODULE Emission -------------------------------
(* Which functions the analyzer keeps and the emitter puts in each object of  *)
(* the output (src/analyzer.ts, src/yul.ts): the contract's runtime object,   *)
(* its creation object, and one object for each library called by             *)
(* delegatecall.  A Yul function is visible in its own object only, so every  *)
(* call, direct or through a pointer, must find its target where it is made.  *)
(* All pointers have one signature here.                                      *)
EXTENDS Naturals, Sequences, FiniteSets

CONSTANTS Members, Libs, NoLib, Contracts

MemberKinds == {"external", "internal", "generic", "libExternal", "libInternal"}

BodyType == [calls : SUBSET Members, takes : SUBSET Members, thru : BOOLEAN]
ContractType ==
  [order : Seq(Members), kind : [Members -> MemberKinds], lib : [Members -> Libs \cup {NoLib}],
   body : [Members -> BodyType], ctor : BodyType, entry : BodyType]   \* entry: receive, fallback

Bodies(k) == {k.body[f] : f \in Members} \cup {k.ctor, k.entry}

\* What the passes before have made sure of: each function is checked once, and
\* a generic when it is called; an address is taken of an internal function only
\* (JETH422); "a library never calls a contract fn".
WellFormedContract(k) ==
  /\ k \in ContractType
  /\ \A i, j \in 1..Len(k.order) : k.order[i] = k.order[j] => i = j
  /\ {k.order[i] : i \in 1..Len(k.order)} = {f \in Members : k.kind[f] # "generic"}
  /\ \A b \in Bodies(k) : \A g \in b.takes : k.kind[g] \in {"internal", "libInternal"}
  /\ \A f \in Members : k.kind[f] \in {"libExternal", "libInternal"} =>
       /\ k.lib[f] \in Libs
       /\ \A g \in k.body[f].calls : k.kind[g] \in {"libExternal", "libInternal"}

ASSUME ContractsAssumption == \A k \in Contracts : WellFormedContract(k)
ASSUME NoLibAssumption == NoLib \notin Libs

VARIABLES
  contract,   \* what the bodies of the contract call and take
  pass,
  unchecked,  \* bodies still to be checked
  worklist,   \* specializationQueue
  functions,  \* the functions array
  called,     \* internallyCalled
  addressed,  \* addressTaken
  graph,      \* callGraph, as pairs; specials and the constructor have no edges
  linked,     \* referencedExternalLibraries
  ids,        \* the keys of funcRefIds
  retained,   \* contractFunctions
  objects     \* the functions of each library's object

emissionVars == <<contract, pass, unchecked, worklist, functions, called, addressed, graph, linked, ids, retained, objects>>

IsLib(f) == contract.kind[f] \in {"libExternal", "libInternal"}
LibExternals(L) == {f \in Members : contract.kind[f] = "libExternal" /\ contract.lib[f] = L}

\* The calls of a body that stay in its own object.
InternalCalls(b) == {g \in b.calls : contract.kind[g] # "libExternal"}

-----------------------------------------------------------------------------
(* The analyzer's passes                                                      *)

\* What checking one body leaves in the analyzer's collections.
Collect(b) ==
  /\ worklist' = worklist \cup {g \in b.calls : contract.kind[g] = "generic" /\ g \notin functions}
  /\ called' = called \cup InternalCalls(b) \cup b.takes
  /\ addressed' = addressed \cup b.takes
  /\ linked' = linked \cup {contract.lib[g] : g \in {h \in b.calls : contract.kind[h] = "libExternal"}}

Check(f) ==
  /\ Collect(contract.body[f])
  /\ functions' = functions \cup {f}
  /\ graph' = graph \cup {<<f, g>> : g \in contract.body[f].calls}

CheckMember ==
  /\ pass = "bodies" /\ unchecked # <<>>
  /\ Check(Head(unchecked)) /\ unchecked' = Tail(unchecked)
  /\ UNCHANGED <<contract, pass, ids, retained, objects>>

DrainWorklist ==
  /\ pass = "bodies" /\ unchecked = <<>>
  /\ \E g \in worklist :
       /\ functions' = functions \cup {g}
       /\ graph' = graph \cup {<<g, h>> : h \in contract.body[g].calls}
       /\ worklist' = (worklist \cup {h \in contract.body[g].calls : contract.kind[h] = "generic" /\ h \notin functions}) \ {g}
       /\ called' = called \cup InternalCalls(contract.body[g]) \cup contract.body[g].takes
       /\ addressed' = addressed \cup contract.body[g].takes
       /\ linked' = linked \cup {contract.lib[h] : h \in {k \in contract.body[g].calls : contract.kind[k] = "libExternal"}}
  /\ UNCHANGED <<contract, pass, unchecked, ids, retained, objects>>

\* mergeConstructors, after the worklist is drained.
CheckConstructor ==
  /\ pass = "bodies" /\ unchecked = <<>> /\ worklist = {}
  /\ Collect(contract.ctor) /\ pass' = "entries"
  /\ UNCHANGED <<contract, unchecked, functions, graph, ids, retained, objects>>

\* receive and fallback; internallyCalled is applied once more afterwards.
CheckSpecialEntries ==
  /\ pass = "entries"
  /\ Collect(contract.entry) /\ pass' = "ids"
  /\ UNCHANGED <<contract, unchecked, functions, graph, ids, retained, objects>>

\* Every address taken gets a dispatch id and its function is emitted.
AssignIds ==
  /\ pass = "ids" /\ pass' = "partition"
  /\ ids' = addressed /\ called' = called \cup (addressed \cap functions)
  /\ UNCHANGED <<contract, unchecked, worklist, functions, addressed, graph, linked, retained, objects>>

\* What S reaches along edges of the call graph, through functions of T only.
ReachThrough(S, T) ==
  {f \in Members : \A R \in SUBSET Members :
      (S \subseteq R /\ \A p \in graph : p[1] \in R /\ p[2] \in T => p[2] \in R) => f \in R}

\* partitionExternalLibraries: entries, and what they call without delegatecall.
LibraryObject(L) ==
  LibExternals(L) \cup
  {f \in ReachThrough(LibExternals(L), {g \in Members : contract.kind[g] # "libExternal"}) \cap functions : contract.kind[f] = "libInternal"}

\* Mutant: every library function leaves the contract.
RetainedOwn == {f \in functions : ~IsLib(f)}

\* contractRetainedFunctions, when some library declares an external function.
Retained ==
  IF \E f \in Members : contract.kind[f] = "libExternal"
  THEN {f \in functions : /\ contract.kind[f] # "libExternal"
                          /\ IsLib(f) => f \in ReachThrough({g \in functions : ~IsLib(g)}, Members)}
  ELSE functions

Partition ==
  /\ pass = "partition" /\ pass' = "done"
  /\ retained' = Retained
  /\ objects' = [L \in Libs |-> IF L \in linked THEN LibraryObject(L) ELSE {}]
  /\ UNCHANGED <<contract, unchecked, worklist, functions, called, addressed, graph, linked, ids>>

EmissionInit ==
  /\ contract \in Contracts
  /\ pass = "bodies" /\ unchecked = contract.order
  /\ worklist = {} /\ functions = {} /\ called = {} /\ addressed = {} /\ graph = {} /\ linked = {}
  /\ ids = {} /\ retained = {} /\ objects = [L \in Libs |-> {}]

EmissionNext ==
  \/ CheckMember \/ DrainWorklist \/ CheckConstructor
  \/ CheckSpecialEntries \/ AssignIds \/ Partition

EmissionSpec == EmissionInit /\ [][EmissionNext]_emissionVars

-----------------------------------------------------------------------------
(* The objects the emitter writes                                             *)

\* The userfn definitions of the runtime object.
RuntimeFns == retained \cap called

\* The bodies whose code is in the runtime object: userfns, and the external
\* functions the dispatcher lowers in place.
RuntimeCode == RuntimeFns \cup {f \in retained : contract.kind[f] = "external"}

\* The functions a call through a pointer finds in the contract's dispatcher.
DispatchCases == ids \cap retained

\* Mutant: the constructor's pointer calls are not followed.
CallKeysDirect(b) == InternalCalls(b)

\* collectCallKeys
CallKeys(b) == InternalCalls(b) \cup (IF b.thru THEN DispatchCases ELSE {})

\* ctorReachableFns: copied into the creation object.
CreationFns ==
  {f \in retained : \A R \in SUBSET retained :
      (CallKeys(contract.ctor) \cap retained \subseteq R
       /\ \A g \in R : CallKeys(contract.body[g]) \cap retained \subseteq R) => f \in R}

\* The bodies that run in the runtime object.
RuntimeBodies == {contract.body[f] : f \in RuntimeCode} \cup {contract.entry}
CreationBodies == {contract.body[f] : f \in CreationFns} \cup {contract.ctor}

-----------------------------------------------------------------------------
(* Properties                                                                 *)

\* The variables keep their types.
EmissionTypeOK ==
  /\ pass \in {"bodies", "entries", "ids", "partition", "done"}
  /\ worklist \subseteq Members /\ functions \subseteq Members /\ called \subseteq Members /\ addressed \subseteq Members
  /\ graph \subseteq Members \X Members /\ linked \subseteq Libs /\ ids \subseteq Members
  /\ unchecked \in Seq(Members)
  /\ called \cap {f \in Members : contract.kind[f] = "libExternal"} = {}
  /\ retained \subseteq functions /\ objects \in [Libs -> SUBSET Members]

\* What the functions of the contract itself call, directly or through what they call.
CalledByOwn ==
  {f \in Members : \A R \in SUBSET Members :
      /\ \A g \in Members : contract.kind[g] \in {"external", "internal"} => g \in R
      /\ \A g \in R : contract.body[g].calls \subseteq R
      => f \in R}

\* Of what only the constructor, receive, fallback or a pointer leads to, generics are
\* not specialized any more, and beside a library with external functions the inlined
\* functions leave the contract.
Lost ==
  {f \in Members \ CalledByOwn :
      \/ contract.kind[f] = "generic"
      \/ contract.kind[f] = "libInternal" /\ \E e \in Members : contract.kind[e] = "libExternal"}

\* Every internal call of every emitted body finds its function in the same
\* object, wherever the call was discovered, but for the calls of a lost function
\* (src/analyzer.ts, the worklist and partitionExternalLibraries; src/yul.ts,
\* emitRuntime and emitCreation).
CallsResolve ==
  pass = "done" =>
    LET runtime == RuntimeFns  creation == CreationFns  lost == Lost IN
    /\ \A b \in RuntimeBodies : InternalCalls(b) \cap runtime = InternalCalls(b) \ lost
    /\ \A b \in CreationBodies : InternalCalls(b) \cap creation = InternalCalls(b) \ lost
    /\ \A L \in linked : \A f \in objects[L] : InternalCalls(contract.body[f]) \subseteq objects[L]

\* Every function whose address some emitted body takes is a case of the dispatcher,
\* and is defined in each object that calls through pointers, but for lost ones.
PointersDispatch ==
  pass = "done" =>
    /\ LET lost == Lost IN
         \A b \in RuntimeBodies \cup CreationBodies : b.takes \cap DispatchCases = b.takes \ lost
    /\ DispatchCases \subseteq RuntimeFns
    /\ (\E b \in CreationBodies : b.thru) => DispatchCases \subseteq CreationFns

\* A library's object has each of its external functions, no function of the
\* contract, and another library's entry never: that one is delegated to.
ObjectsAreLibraries ==
  pass = "done" =>
    \A L \in linked :
      /\ \A f \in objects[L] : contract.kind[f] = "libInternal" \/ f \in LibExternals(L)
      /\ LibExternals(L) \cap functions \subseteq objects[L]

\* Every object has what its code calls, and nothing that is not its own.
ObjectsComplete == EmissionTypeOK /\ CallsResolve /\ ObjectsAreLibraries

\* "Specializations are discovered lazily while checking bodies, so a worklist
\* is drained until no new ones appear": the constructor's too.
GenericsChecked ==
  pass = "done" =>
    \A b \in CreationBodies \cup RuntimeBodies :
      \A g \in InternalCalls(b) : contract.kind[g] = "generic" => g \in functions

\* "A library internal function the contract inlines stays."
InlinedStays ==
  pass = "done" => \A g \in InternalCalls(contract.ctor) : contract.kind[g] = "libInternal" => g \in retained

\* "Every address-taken function whose signature equals sig becomes a case; the
\* analyzer guaranteed each is emitted."
TakenEmitted ==
  pass = "done" /\ (\E b \in RuntimeBodies : b.thru) => addressed \subseteq RuntimeFns

\* "Any library function reachable only from one of them belongs to the library
\* object, never the contract."
NoStrays ==
  pass = "done" =>
    \A f \in RuntimeFns : contract.kind[f] = "libInternal" =>
      \E g \in functions : ~IsLib(g)
        /\ f \in ReachThrough({g}, {h \in Members : contract.kind[h] # "libExternal"})
=============================================================================
