---------------------------- MODULE Constructors -----------------------------
(***************************************************************************)
(* One constructor out of the constructors of an inheritance chain         *)
(* (mergeConstructors).  The chain is the linearization, the deployed      *)
(* contract first.  The arguments of a base are evaluated by the contract  *)
(* that gives them, the most derived first; the bodies run from the most   *)
(* basic up.  The merge nests one block per contract that gives arguments  *)
(* and binds the parameters of the bases in it, under their own names.     *)
(*                                                                         *)
(* A level of the chain: whether it has a constructor, its parameters,     *)
(* body and modifiers, its direct bases, the arguments its heritage clause *)
(* gives (one sequence per base named with arguments) and those of its     *)
(* super(...) call (<<>> when it has none).                                *)
(***************************************************************************)
EXTENDS Modifiers

CONSTANTS Chains, Oracles

VARIABLES chain, stage, ir, bits

vars == <<chain, stage, ir, bits>>

Params(c, i) == c[i].params

-----------------------------------------------------------------------------
(* Who gives a base its arguments                                          *)

\* The direct bases with parameters, seen through those without constructor.
RECURSIVE SuperTargets(_, _)
SuperTargets(c, i) ==
    UNION {IF Params(c, b) # <<>> THEN {b}
           ELSE IF ~c[b].ctor THEN SuperTargets(c, b)
           ELSE {}: b \in c[i].bases}

HeritageGifts(c) ==
    {[from |-> i, to |-> b, args |-> c[i].heritage[b], super |-> FALSE]:
        <<i, b>> \in {<<i, b>> \in (DOMAIN c) \X (DOMAIN c): b \in DOMAIN c[i].heritage}}

SuperGifts(c) ==
    {[from |-> i, to |-> b, args |-> c[i].super, super |-> TRUE]:
        <<i, b>> \in {<<i, b>> \in (DOMAIN c) \X (DOMAIN c):
                         c[i].super # <<>> /\ b \in SuperTargets(c, i)}}

Gifts(c) == HeritageGifts(c) \cup SuperGifts(c)
GiftsTo(c, b) == {g \in Gifts(c): g.to = b}
GiftsFrom(c, i) == {g \in Gifts(c): g.from = i}

\* Two bases bound in the same block may not share a parameter name.
SameBlockCollision(c) ==
    \E g, h \in Gifts(c):
        /\ g # h /\ g.from = h.from
        /\ ToSet(Params(c, g.to)) \cap ToSet(Params(c, h.to)) # {}

\* JETH379: given twice or not at all, in the wrong number, ambiguous, or bound
\* twice in one block; a heritage argument may not read a parameter.
ArgsRejected(c) ==
    \/ \E b \in DOMAIN c: Cardinality(GiftsTo(c, b)) > 1
    \/ \E b \in DOMAIN c \ {1}: Params(c, b) # <<>> /\ GiftsTo(c, b) = {}
    \/ \E g \in Gifts(c): Len(g.args) # Len(Params(c, g.to))
    \/ \E i \in DOMAIN c: c[i].super # <<>> /\ Cardinality(SuperTargets(c, i)) # 1
    \/ SameBlockCollision(c)
    \/ \E g \in Gifts(c): \E e \in ToSet(g.args):
          e \notin DOMAIN Literal /\ ~(g.super /\ e \in ToSet(Params(c, g.from)))

\* JETH323: a modifier copied into the body has a parameter named like one of
\* the parameters in scope, those of the enclosing levels included.
InScope(c, i) ==
    ToSet(Params(c, 1))
        \cup UNION {ToSet(Params(c, g.to)): g \in {g \in Gifts(c): g.from < i}}
ModifierRejected(c, i) ==
    \E k \in DOMAIN c[i].apps:
        LET modifier == c[i].apps[k].modifier
        IN  /\ Buffered(modifier)
            /\ ~NeedBodyOutline(c[i], i > 1)
            /\ ToSet(modifier.params) \cap InScope(c, i) # {}

Rejected(c) == ArgsRejected(c) \/ \E i \in DOMAIN c: c[i].ctor /\ ModifierRejected(c, i)

-----------------------------------------------------------------------------
(* The merged body                                                         *)

\* The bases a level gives arguments to, in the order of its heritage clause
\* and then of the chain.
GiftOrder(c, i) ==
    SetToSortSeq(GiftsFrom(c, i),
                 LAMBDA g, h: IF g.super = h.super THEN g.to < h.to ELSE h.super)

BaseArgDecls(c, i) ==
    FoldLeft(LAMBDA done, g:
                done \o [k \in DOMAIN g.args |-> Decl(Params(c, g.to)[k], g.args[k])],
             <<>>, GiftOrder(c, i))

OwnBody(c, i) == IF c[i].ctor THEN BuildCtorLevel(c[i], i > 1, i - 1) ELSE <<>>

RECURSIVE BuildLevel(_, _)

\* Mutant: the own body stays inside the block that binds the bases' parameters.
BuildLevelInside(c, i) ==
    <<Block(BaseArgDecls(c, i) \o (IF i < Len(c) THEN BuildLevel(c, i + 1) ELSE <<>>)
            \o OwnBody(c, i))>>

BuildLevel(c, i) ==
    LET inner == IF i < Len(c) THEN BuildLevel(c, i + 1) ELSE <<>>
        bound == BaseArgDecls(c, i)
    IN  (IF bound = <<>> THEN inner ELSE <<Block(bound \o inner)>>) \o OwnBody(c, i)

MergeConstructors(c) == ImmutableInits(c[1]) \o BuildLevel(c, 1)

-----------------------------------------------------------------------------

Init ==
    /\ chain \in Chains
    /\ stage = "source" /\ ir = <<>> /\ bits = <<>>

Reject ==
    /\ stage = "source" /\ Rejected(chain)
    /\ stage' = "rejected"
    /\ UNCHANGED <<chain, ir, bits>>

Merge ==
    /\ stage = "source" /\ ~Rejected(chain)
    /\ ir' = MergeConstructors(chain)
    /\ stage' = "merged"
    /\ UNCHANGED <<chain, bits>>

Deploy ==
    /\ stage = "merged"
    /\ bits' \in Oracles
    /\ stage' = "ran"
    /\ UNCHANGED <<chain, ir>>

Next == Reject \/ Merge \/ Deploy

Spec == Init /\ [][Next]_vars

-----------------------------------------------------------------------------
(* Solidity: every contract has its own parameters; arguments from the     *)
(* deployed contract down, bodies from the last base up.                   *)

Levels(c) == [i \in DOMAIN c |-> i]

\* Evaluate the arguments of a gift where they are given, into the scope of
\* the base that takes them.
Give(c, acc, g) ==
    LET giver(m) == [m EXCEPT !.scopes = <<m.globals, acc.scopes[g.from]>>]
        taken == FoldLeft(LAMBDA m, k: Bind(m, giver(m), Params(c, g.to)[k], g.args[k]),
                          Fresh(acc.m, <<>>), [k \in DOMAIN g.args |-> k])
    IN  [m |-> taken, scopes |-> [acc.scopes EXCEPT ![g.to] = taken.scopes[2]]]

Given(c, start) ==
    FoldLeft(LAMBDA acc, i: FoldLeft(LAMBDA a, g: Give(c, a, g), acc, GiftOrder(c, i)),
             [m |-> start,
              scopes |-> [i \in DOMAIN c |-> IF i = 1 THEN start.scopes[2] ELSE <<>>]],
             Levels(c))

Intended(c, b) ==
    LET given == Given(c, Run(ImmutableInits(c[1]), Start(c[1], b)))
        Body(i, m) == IF c[i].ctor
                      THEN Layer(1, [m EXCEPT !.unit = c[i],
                                              !.home = <<m.globals, given.scopes[i]>>])
                      ELSE m
    IN  Observed(FoldRight(Body, Levels(c), given.m))

Lowered == Observed(Run(ir, Start(chain[1], bits)))

\* The deployed code evaluates the arguments and runs the bodies and their
\* modifiers in Solidity's order, each with its own contract's parameters, and
\* a return leaves one level only (mergeConstructors, buildLevel).
MergesFaithfully == stage = "ran" => Lowered = Intended(chain, bits)

\* Same, for the names: a constructor body reads the parameters of its own
\* contract, whichever contract gave them (the comment in mergeConstructors
\* that only bases bound by one provider can collide).
BodiesReadOwnParams == stage = "ran" => Lowered.trace = Intended(chain, bits).trace
=============================================================================
