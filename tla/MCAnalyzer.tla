------------------------------ MODULE MCAnalyzer ------------------------------
(* What the analyzer makes of classes: the members of a unit's classes beside  *)
(* the names of its files, and the hierarchies of one function.  A behaviour   *)
(* analyzes one unit or one hierarchy.                                         *)
EXTENDS Inheritance, MemberScopes

CONSTANT Unknown  \* a name no class has

VARIABLE scenario

-----------------------------------------------------------------------------
(* Units of a route class Main, two more classes, members that all take the   *)
(* name N, a dependency that declares N and M.                                *)
Base(c, call) == [class |-> c, call |-> call]

\* Bases of Main and of Left: at most one, so that one chain leads to them all.
NoBases == [Main |-> <<>>, Left |-> <<>>, Right |-> <<>>]
Lines == { NoBases,
           [Main |-> <<Base("Left", FALSE)>>, Left |-> <<>>, Right |-> <<>>],
           [Main |-> <<Base("Left", FALSE)>>, Left |-> <<Base("Right", FALSE)>>, Right |-> <<>>] }
\* Two bases, or one that is given its arguments.
Branches == { [Main |-> <<Base("Left", FALSE), Base("Right", FALSE)>>, Left |-> <<>>, Right |-> <<>>],
              [Main |-> <<Base("Left", TRUE)>>, Left |-> <<>>, Right |-> <<>>] }

Shapes == [bases : Lines \cup Branches, stray : {FALSE}] \cup [bases : {NoBases}, stray : {TRUE}]

MemberKinds == {"none", "function", "storage", "error", "event", "modifier"}
DeclKinds == {"none", "error", "event", "type"}

UnitsOf(shapes) ==
  { [declared |-> [entry |-> [N |-> en, M |-> "none"], dep |-> [N |-> dn, M |-> dm]],
     imported |-> [N |-> im, M |-> "none"],
     file |-> [Main |-> "entry", Left |-> lf, Right |-> "dep"],
     members |-> [Main |-> [N |-> mm], Left |-> [N |-> ml], Right |-> [N |-> mr]],
     bases |-> shape.bases, stray |-> shape.stray] :
    en \in DeclKinds, dn \in DeclKinds, dm \in {"none", "error"}, im \in {"none", "N", "M"},
    lf \in {"entry", "dep"}, mm \in MemberKinds \ {"event"}, ml \in MemberKinds,
    mr \in {"none", "function", "error"},
    shape \in shapes }

\* beside a hierarchy no unit is analyzed
NoUnit == [members |-> [Main |-> <<>>]]
\* beside a unit no hierarchy is
NoHierarchy == [bases |-> <<>>, kind |-> <<>>, fn |-> <<>>, var |-> NoFn]
MCUnits == { u \in UnitsOf(Shapes) : Sound(u) }

-----------------------------------------------------------------------------
(* Hierarchies: every short base list over four and five classes, then fixed  *)
(* shapes with every small version of f in each class.                        *)

\* ---- base lists ----------------------------------------------------------

Lists(S, n) == UNION { { l \in [1..k -> S] : IsInjective(l) } : k \in 0..n }
Bare(bases, classes) ==
  [bases : bases, kind : {[c \in classes |-> "contract"]}, fn : {[c \in classes |-> NoFn]}, var : {NoFn}]

\* Any class may extend any other: cycles, unknown and repeated bases.
FourClasses ==
  Bare([A : Lists({"C", "Z", Unknown}, 1), B : Lists({"A", "C"}, 2), C : Lists({"A", "B", "Z"}, 2),
        Z : Lists({"A", "B", "C", Unknown}, 2) \cup {<<"A", "A">>, <<"B", "A", "B">>}],
       {"A", "B", "C", "Z"})
FiveClasses ==
  Bare([A : {<<>>}, B : Lists({"A"}, 1), C : Lists({"A", "B"}, 2), D : Lists({"A", "B", "C"}, 2),
        Z : Lists({"A", "B", "C", "D"}, 3)],
       {"A", "B", "C", "D", "Z"})
MCGraphs == FourClasses \cup FiveClasses

\* ---- versions of f -------------------------------------------------------

F(virtual, override, list, body, external, returns) ==
  [virtual |-> virtual, override |-> override, list |-> list, body |-> body, external |-> external, returns |-> returns]
InterfaceF == F(TRUE, FALSE, <<>>, FALSE, TRUE, "uint")

Roots(external) ==
  { NoFn, F(TRUE, FALSE, <<>>, TRUE, external, "uint"), F(FALSE, FALSE, <<>>, TRUE, external, "uint"),
    F(TRUE, FALSE, <<>>, FALSE, external, "uint"), F(TRUE, FALSE, <<>>, TRUE, external, "bool") }
Overrides(lists, external) ==
  { NoFn, F(TRUE, FALSE, <<>>, TRUE, external, "uint"), F(TRUE, TRUE, <<>>, FALSE, external, "uint"),
    F(TRUE, TRUE, <<>>, TRUE, ~external, "uint"), F(TRUE, TRUE, <<>>, TRUE, external, "bool") }
  \cup { F(virtual, TRUE, list, TRUE, external, "uint") : virtual \in BOOLEAN, list \in lists }

Middle == { NoFn, F(TRUE, FALSE, <<>>, TRUE, TRUE, "uint"), F(TRUE, TRUE, <<>>, TRUE, TRUE, "uint") }

\* Interfaces are interfaces, the deployed class a contract, the others abstract
\* in one variant.
Kinds(classes, interfaces, abstract) ==
  { [c \in classes |-> IF c \in interfaces THEN "interface" ELSE IF c \in abstract THEN "abstract" ELSE "contract"],
    [c \in classes |-> IF c \in interfaces THEN "interface" ELSE IF c = Deployed THEN "contract" ELSE "abstract"] }

Diamonds ==
  [bases : [A : {<<>>}, B : {<<"A">>}, C : {<<"A">>, <<>>}, Z : {<<"B", "C">>}],
   kind : Kinds({"A", "B", "C", "Z"}, {}, {"A"}),
   fn : [A : Roots(FALSE), B : Overrides({<<>>}, FALSE), C : Overrides({<<>>}, FALSE),
         Z : Overrides({<<>>, <<"B", "C">>}, FALSE)],
   var : {NoFn}]

\* I is an interface, reached by one path or two.
InterfaceDiamonds ==
  [bases : [I : {<<>>}, B : {<<"I">>, <<>>}, C : {<<"I">>, <<"B">>, <<>>, <<"I", "B">>}, Z : {<<"B", "C">>}],
   kind : { k \in Kinds({"I", "B", "C", "Z"}, {"I"}, {}) : k["C"] = "abstract" },
   fn : [I : {InterfaceF}, B : Middle, C : Overrides({<<>>, <<"I", "B">>}, TRUE),
         Z : Overrides({<<>>, <<"B", "C">>}, TRUE)],
   var : {NoFn}]

\* J extends I, only one of them declares f.
InterfaceChains ==
  [bases : [I : {<<>>}, J : {<<"I">>}, K : {<<>>}, C : {<<"J">>, <<"K">>, <<"J", "K">>, <<"K", "J">>},
            Z : {<<"C">>, <<"J", "C">>, <<"K", "C">>}],
   kind : { k \in Kinds({"I", "J", "K", "C", "Z"}, {"I", "J", "K"}, {}) : k["C"] = "abstract" },
   fn : [I : {InterfaceF}, J : {NoFn}, K : {NoFn, InterfaceF},
         C : Overrides({<<>>, <<"J">>, <<"I", "K">>}, TRUE), Z : Overrides({<<>>, <<"C", "K">>}, TRUE)],
   var : {NoFn}]

\* The variable overrides f, in a middle class or in the deployed one, beside an
\* interface or a second base.
VarAt(at, cbases, fnA, fnB, fnC, fnZ, kinds) ==
  [bases : [A : {<<>>}, B : {<<"A">>, <<>>}, C : cbases, Z : {<<"B", "C">>}],
   kind : kinds, fn : [A : fnA, B : fnB, C : fnC, Z : fnZ],
   var : [at : {at}, list : {<<>>, <<"B", "C">>}, returns : {"uint", "bool"}]]

Contracts == Kinds({"A", "B", "C", "Z"}, {}, {"A"})
Interfaces == Kinds({"A", "B", "C", "Z"}, {"A"}, {})
AnyBase == {<<"A">>, <<"B">>}

\* C extends an interface beside a class that implements it, Z a second
\* implementation beside C.
Redeclared ==
  [bases : [I : {<<>>}, B : {<<"I">>}, C : {<<"I", "B">>, <<"B">>}, D : {<<"I">>, <<"I", "B">>},
            Z : {<<"C", "D">>, <<"D", "C">>}],
   kind : Kinds({"I", "B", "C", "D", "Z"}, {"I"}, {}),
   fn : [I : {InterfaceF}, B : Middle, C : Middle, D : Middle, Z : Middle],
   var : {NoFn}]

MCVersions == Diamonds \cup InterfaceDiamonds \cup InterfaceChains \cup Redeclared
MCVariables ==
  VarAt("Z", AnyBase, Roots(TRUE), Middle, Overrides({<<>>}, TRUE), {NoFn}, Contracts)
  \cup VarAt("Z", AnyBase, {InterfaceF}, Middle, Overrides({<<>>}, TRUE), {NoFn}, Interfaces)
  \cup VarAt("C", AnyBase, Roots(TRUE), Overrides({<<>>}, TRUE), {NoFn}, {NoFn}, Contracts)
  \cup VarAt("C", AnyBase, {InterfaceF}, Overrides({<<>>}, TRUE), {NoFn}, {NoFn}, Interfaces)

MCHierarchies == MCGraphs \cup MCVersions \cup MCVariables

-----------------------------------------------------------------------------
MCvars == <<scenario, vars, scopeVars>>

\* The other half of a behaviour stays as it begins.
MCInit ==
  \/ /\ scenario = "members" /\ ScopesInit
     /\ hierarchy = NoHierarchy /\ pc = "getter" /\ stack = <<>> /\ memo = <<>>
     /\ seqs = <<>> /\ out = <<>> /\ validVar = FALSE /\ errors = {}
  \/ /\ scenario = "hierarchies" /\ Init
     /\ unit = NoUnit /\ stage = "prepass" /\ reports = {} /\ fired = [c \in UnitClasses |-> {}]

MCNext ==
  /\ UNCHANGED scenario
  /\ \/ scenario = "members" /\ ScopesNext /\ UNCHANGED vars
     \/ scenario = "hierarchies" /\ Next /\ UNCHANGED scopeVars

MCSpec == MCInit /\ [][MCNext]_MCvars
=============================================================================
