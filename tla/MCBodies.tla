-------------------------------- MODULE MCBodies --------------------------------
(* What becomes of the bodies of functions and constructors: one unit with its  *)
(* modifiers, or a chain of constructors.                                       *)
EXTENDS Modifiers

CONSTANTS Scenarios
VARIABLES scenario, unit, chain, stage, ir, bits

Numbers == [seven |-> 7, one |-> 1, two |-> 2, three |-> 3, four |-> 4,
            call |-> 5, again |-> 6]
Calls == {"call", "again"}

\* Yes and no answers for the first four conditions.
FourBits == [1..4 -> BOOLEAN]
TwoBits == [1..2 -> BOOLEAN]

Simple == {Mark("one"), Hole}
Inner == {<<Hole>>, <<Return>>, <<Mark("two"), Return>>, <<Hole, Mark("two")>>}
InLoop == {<<Hole>>, <<If(<<Return>>), Mark("two")>>, <<Hole, If(<<Break>>), Mark("two")>>,
           <<If(<<Continue>>), Return>>}
Branches == {If(b): b \in Inner}
Loops == {Nested(k, b): k \in {"while", "do"}, b \in InLoop}
            \cup {For(<<Mark("three")>>, b): b \in InLoop}

Bodies(first, second, third) ==
    {<<a>>: a \in first} \cup {<<a, b>>: a \in first, b \in second}
        \cup {<<a, b, c>>: a \in first, b \in second, c \in third}

Modifier(params, body) == [params |-> params, body |-> body]
Apply(params, bodies, args) ==
    {[modifier |-> Modifier(params, b), args |-> args]: b \in {b \in bodies: Count("hole", b) > 0}}

ControlBodies == Bodies(Simple \cup Branches \cup Loops, Simple \cup Branches, Simple)
InsideBodies == {<<Mark("four"), Hole>>, <<Hole, Mark("y")>>, <<If(<<Return>>), Hole, Mark("y")>>,
                 <<Hole, Hole>>, <<While(<<Hole, If(<<Return>>)>>), Mark("y")>>}

UnitOf(kind, bodies, outer, inside) ==
    [kind: {kind}, params: {<<"x">>}, body: bodies, staged: {FALSE},
     apps: {<<a>>: a \in outer} \cup {<<a, b>>: a \in outer, b \in inside}]

\* Functions whose body ends in a return and leaves its parameters alone.
FunctionUnits ==
    UnitOf("function",
           {<<Mark("x"), ReturnValue("x")>>,
            <<If(<<Mark("one"), ReturnValue("three")>>), Mark("x"), ReturnValue("two")>>},
           Apply(<<>>, ControlBodies, <<>>),
           Apply(<<"y">>, InsideBodies, <<"x">>) \cup Apply(<<"y">>, InsideBodies, <<"call">>))

\* Constructors; the modifier inside may name its parameter like theirs.
ConstructorUnits ==
    UnitOf("constructor",
           {<<Mark("x")>>, <<If(<<Return>>), Mark("x"), Assign("x", "three")>>},
           Apply(<<>>, ControlBodies, <<>>),
           Apply(<<"y">>, InsideBodies, <<"call">>)
               \cup Apply(<<"x", "y">>, {<<Mark("x"), Hole, Mark("y")>>}, <<"three", "call">>))

-----------------------------------------------------------------------------
With_(params, body, args) == [modifier |-> Modifier(params, body), args |-> args]

None == [i \in {} |-> <<>>]
To(b, args) == [i \in {b} |-> args]

Level(ctor, params, body, apps, bases, heritage, super) ==
    [ctor |-> ctor, params |-> params, body |-> body, apps |-> apps, bases |-> bases,
     heritage |-> heritage, super |-> super, staged |-> FALSE]

ParamLists == {<<>>, <<"x">>, <<"y">>, <<"x", "y">>}
ReadAll(params) == [i \in DOMAIN params |-> Mark(params[i])]
ArgLists == {<<>>, <<"call">>, <<"x">>, <<"again", "call">>, <<"y", "call">>}

\* A level of a line of contracts: it gives arguments to the next one by its
\* heritage clause, by super(...) or not at all.
Gives(next) ==
    {[heritage |-> None, super |-> a]: a \in ArgLists}
        \cup {[heritage |-> To(b, a), super |-> <<>>]: a \in ArgLists, b \in next}
LineLevels(next) ==
    {Level(TRUE, p, ReadAll(p) \o <<Mark("one")>>, <<>>, next, g.heritage, g.super):
        p \in ParamLists, g \in Gives(next)}
    \cup {Level(FALSE, <<>>, <<>>, <<>>, next, None, <<>>)}
BaseLevels == {Level(TRUE, p, ReadAll(p) \o <<Mark("two")>>, <<>>, {}, None, <<>>): p \in ParamLists}

Lines == {<<a, b, c>>: a \in LineLevels({2}), b \in LineLevels({3}), c \in BaseLevels}

\* Returns and modifiers at every level of a line.
Guards == {<<>>, <<With_(<<>>, <<Mark("three"), Hole>>, <<>>)>>,
           <<With_(<<"y">>, <<If(<<Return>>), Hole, Mark("y")>>, <<"x">>)>>,
           <<With_(<<"x">>, <<Hole, Hole, Mark("x")>>, <<"call">>),
             With_(<<>>, <<Mark("three"), If(<<Return>>), Hole>>, <<>>)>>}
Returning == {<<Mark("x")>>, <<If(<<Return>>), Mark("x"), Assign("x", "four")>>}
ReturnLevels(next, heritage) ==
    {Level(TRUE, <<"x">>, b, g, next, heritage, <<>>): b \in Returning, g \in Guards}
ReturnLines ==
    {[<<a, b, c>> EXCEPT ![1].staged = s]:
        a \in ReturnLevels({2}, To(2, <<"one">>)), b \in ReturnLevels({3}, To(3, <<"again">>)),
        c \in ReturnLevels({}, None), s \in BOOLEAN}

\* The deployed contract gives arguments to its second base, the first base to
\* a base of its own.
Crossed ==
    {<<Level(TRUE, <<>>, <<Mark("one")>>, <<>>, {2, 4}, To(4, <<"one">>), <<>>),
       Level(TRUE, <<>>, <<Mark("two")>>, <<>>, {3}, To(3, <<"two">>), <<>>),
       Level(TRUE, p, ReadAll(p), <<>>, {}, None, <<>>),
       Level(TRUE, q, ReadAll(q), <<>>, {}, None, <<>>)>>:
        p \in {<<"x">>, <<"y">>}, q \in {<<"x">>, <<"y">>}}
-----------------------------------------------------------------------------
Wraps == INSTANCE ModifierWraps WITH Units <- FunctionUnits \cup ConstructorUnits, Oracles <- FourBits
LineMerges == INSTANCE Constructors WITH Chains <- Lines, Oracles <- TwoBits
ReturnMerges == INSTANCE Constructors WITH Chains <- ReturnLines, Oracles <- FourBits
Crossings == INSTANCE Constructors WITH Chains <- Crossed, Oracles <- TwoBits

MCvars == <<scenario, unit, chain, stage, ir, bits>>

MCInit ==
    /\ scenario \in Scenarios
    /\ CASE scenario = "modifiers" -> Wraps!Init /\ chain = <<>>
         [] scenario = "lines" -> LineMerges!Init /\ unit = <<>>
         [] scenario = "returns" -> ReturnMerges!Init /\ unit = <<>>
         [] scenario = "crossed" -> Crossings!Init /\ unit = <<>>

MCNext ==
    /\ UNCHANGED scenario
    /\ \/ scenario = "modifiers" /\ Wraps!Next /\ UNCHANGED chain
       \/ scenario = "lines" /\ LineMerges!Next /\ UNCHANGED unit
       \/ scenario = "returns" /\ ReturnMerges!Next /\ UNCHANGED unit
       \/ scenario = "crossed" /\ Crossings!Next /\ UNCHANGED unit

MCSpec == MCInit /\ [][MCNext]_MCvars

\* A function or constructor does what its source means, whichever way its
\* modifiers are put around it.
WrapsFaithfully == scenario = "modifiers" => Wraps!WrapsFaithfully

\* One constructor does what those of the chain mean in Solidity's order.
MergesFaithfully == scenario \in {"lines", "returns"} => LineMerges!MergesFaithfully

\* src/analyzer.ts:7764: a body reads the parameters of its own contract, whichever
\* contract of the chain gives the arguments.
BodiesReadOwnParams == scenario = "crossed" => Crossings!BodiesReadOwnParams
================================================================================
