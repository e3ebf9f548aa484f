------------------------------ MODULE MCEffects ------------------------------
(* Programs of three or four functions for the inference of effects, and      *)
(* contracts with two libraries for the choice of what is emitted.  Each      *)
(* family varies what its questions need and fixes the rest; a record set is  *)
(* enumerated lazily.  A behaviour is one analysis of one of the two, the     *)
(* other rests.                                                               *)
EXTENDS EffectInference, Emission

CONSTANTS a, b, c, g, x, y, s,          \* functions, pointer slots, a signature
          fn, helper, li, le, me, L, M  \* functions of a contract, its libraries; g again

VARIABLE scenario

OneSig == [z \in {x, y} |-> s]

\* One value for each function, from a set of its own.
Each(A, B, C, G) ==
  {[f \in Fns |-> CASE f = a -> t[1] [] f = b -> t[2] [] f = c -> t[3] [] f = g -> t[4]] :
     t \in A \X B \X C \X G}
None4 == Each({{}}, {{}}, {{}}, {{}})
All(v) == Each({v}, {v}, {v}, {v})

\* Calls in every direction, recursion, and pointers kept in storage.
Graphs ==
  [order : {<<a, b, c>>}, kind : Each({"fn"}, {"fn"}, {"fn"}, {"abstract"}),
   own : Each({{}}, {{}, {"env"}}, {{"writes"}}, {{}}),
   calls : Each(SUBSET {b, c}, SUBSET {a, b, c}, {{}, {a}}, {{}}),
   stores : Each({{}}, {{}, {c}, {b, c}}, {{}}, {{}}),
   binds : None4, open : None4, thru : None4,
   storedCalls : Each({{}, {s}}, {{}, {s}}, {{}, {s}}, {{}}),
   sig : All(s), multi : {{}}, decl : All("none"),
   getter : {{a}}, guarded : {{}}, marked : {{}}, overrides : {{}}, varHeads : {{}},
   getterPure : {FALSE}, special : {{}}]

\* Two pointer slots of one body, every set of bindings but to themselves.
SlotPrograms ==
  [order : {<<a, b, c>>}, kind : Each({"fn"}, {"fn"}, {"fn"}, {"abstract"}),
   own : Each({{}}, {{"writes"}}, {{"reads"}}, {{}}),
   calls : None4, stores : Each({{}}, {{}}, {{}, {b}}, {{}}),
   binds : Each(SUBSET (({x, y} \X {b, c, x, y, Unknown}) \ {<<x, x>>, <<y, y>>}), {{}}, {{}}, {{}}),
   open : Each({{}, {y}}, {{}}, {{}}, {{}}),
   thru : Each({{x}}, {{}}, {{}}, {{}}), storedCalls : None4,
   sig : All(s), multi : {{}}, decl : All("none"),
   getter : {{}}, guarded : {{}}, marked : {{}}, overrides : {{}}, varHeads : {{}},
   getterPure : {FALSE}, special : {{}}]

\* Declarations, guards and overrides over calls of c; g has no body.  A guarded
\* static is refused when it is collected.
RulesOf(aDecl, aGuarded) ==
  [order : {<<a, b, c>>}, kind : Each({"fn"}, {"fn"}, {"fn"}, {"abstract"}),
   own : Each({{}, {"writes"}}, {{}, {"reads"}, {"writes"}}, {{"env"}, {"writes"}}, {{}}),
   calls : Each({{}, {c}}, {{}, {c}}, {{}}, {{}}),
   stores : None4, binds : None4, open : None4, thru : None4,
   storedCalls : None4, sig : All(s), multi : {{}},
   decl : Each(aDecl, {"none", "static", "payable"}, {"none"}, {"none", "view", "pure", "payable"}),
   getter : {{}, {a}}, guarded : aGuarded, marked : {{}, {a}},
   overrides : {{<<a, b>>}, {<<a, g>>}}, varHeads : {{}},
   getterPure : {FALSE}, special : {{}}]
Rules == RulesOf({"none", "payable"}, {{}, {a}}) \cup RulesOf({"static"}, {{}})

\* c is a base head a variable replaced; g is generic.
Heads ==
  [order : {<<a, b, c>>}, kind : Each({"fn"}, {"fn"}, {"base"}, {"generic"}),
   own : Each({{}}, {{}, {"writes"}}, {{}, {"reads"}}, {{}, {"reads"}}),
   calls : Each(SUBSET {b, g}, {{}}, SUBSET {b, g}, {{}, {g}, {b}}),
   stores : Each({{}, {b}}, {{}}, {{}, {b}}, {{}}),
   binds : None4, open : None4, thru : None4,
   storedCalls : Each({{}}, {{}}, {{}, {s}}, {{}}),
   sig : All(s), multi : {{}}, decl : Each({"none"}, {"none"}, {"none", "payable"}, {"none"}),
   getter : {{}}, guarded : {{}}, marked : {{}},
   overrides : {{}}, varHeads : {{c}}, getterPure : BOOLEAN, special : {{}}]
MCPrograms == Graphs \cup SlotPrograms \cup Rules \cup Heads

-----------------------------------------------------------------------------
(* A contract of two functions and a generic, and the functions of two        *)
(* libraries.                                                                 *)
Emitted == {fn, helper, g, li, le, me}

KindOf == [k \in Emitted |-> CASE k = fn -> "external" [] k = helper -> "internal" [] k = g -> "generic"
                           [] k = li -> "libInternal" [] k \in {le, me} -> "libExternal"]
LibOf == [k \in Emitted |-> CASE k \in {li, le} -> L [] k = me -> M [] k \in {fn, helper, g} -> NoLib]

Body(calls, takes, thru) == [calls : calls, takes : takes, thru : thru]
Empty == Body({{}}, {{}}, {FALSE})

BodiesOf(F, H, G, LI, LE, ME) ==
  {[k \in Emitted |-> CASE k = fn -> t[1] [] k = helper -> t[2] [] k = g -> t[3] [] k = li -> t[4] [] k = le -> t[5] [] k = me -> t[6]] :
     t \in F \X H \X G \X LI \X LE \X ME}

\* Everything the six functions may call, with an external library.
Linked ==
  [order : {<<fn, helper, li, le, me>>}, kind : {KindOf}, lib : {LibOf},
   body : BodiesOf(Body(SUBSET {helper, g, li, le}, {{}, {helper}}, {TRUE}), Body({{}, {g}, {li}}, {{}}, {FALSE}),
                 Body({{}, {g}, {helper}}, {{}, {li}}, {FALSE}), Body({{}, {le}}, {{}}, {FALSE}),
                 Body(SUBSET {li, me}, {{}}, {FALSE}), Empty),
   ctor : Body({{}, {g}}, {{}}, BOOLEAN), entry : Body({{}, {li}}, {{}}, {FALSE})]

\* The same contract without a library that has external functions.
Inlined ==
  [order : {<<fn, helper, li, le, me>>}, kind : {[KindOf EXCEPT ![le] = "libInternal", ![me] = "libInternal"]}, lib : {LibOf},
   body : BodiesOf(Body(SUBSET {helper, g, li}, {{}, {helper}, {li}}, BOOLEAN), Body({{}, {g}, {li}}, {{}}, {FALSE}),
                 Body({{}, {g}, {helper}}, {{}}, {FALSE}), Empty, Empty, Empty),
   ctor : Body({{}, {helper}, {li}}, {{}, {li}}, BOOLEAN), entry : Body({{}, {li}}, {{}, {helper}}, BOOLEAN)]

LibraryContracts == Linked \cup Inlined

-----------------------------------------------------------------------------
\* What the other analysis rests on.
RestingContract == CHOOSE k \in Inlined : TRUE
RestingProgram == CHOOSE p \in Heads : TRUE

MCvars == <<scenario, vars, emissionVars>>

MCInit ==
  \/ /\ scenario = "effects" /\ Init
     /\ contract = RestingContract
     /\ EmissionInit
  \/ /\ scenario = "emission" /\ EmissionInit
     /\ prog = RestingProgram
     /\ Init

MCNext ==
  /\ UNCHANGED scenario
  /\ \/ scenario = "effects" /\ Next /\ UNCHANGED emissionVars
     \/ scenario = "emission" /\ EmissionNext /\ UNCHANGED vars

MCSpec == MCInit /\ [][MCNext]_MCvars
=============================================================================
