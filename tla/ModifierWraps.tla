---------------------------- MODULE ModifierWraps ----------------------------
(***************************************************************************)
(* The modifiers of one function, or of the constructor of a contract      *)
(* without bases: source, IR, run.                                         *)
(***************************************************************************)
EXTENDS Modifiers

CONSTANTS Units, Oracles

VARIABLES unit, stage, ir, bits

vars == <<unit, stage, ir, bits>>

\* A constructor without bases: the initializers are the first statements of
\* what the modifiers wrap.
CheckConstructor(u) ==
    BuildCtorLevel([u EXCEPT !.body = ImmutableInits(u) \o @], FALSE, 0)

Init ==
    /\ unit \in Units
    /\ stage = "source" /\ ir = <<>> /\ bits = <<>>

WrapFunction ==
    /\ stage = "source" /\ unit.kind = "function"
    /\ ir' = WrapModifiers(unit)
    /\ stage' = "wrapped"
    /\ UNCHANGED <<unit, bits>>

WrapConstructor ==
    /\ stage = "source" /\ unit.kind = "constructor"
    /\ ir' = CheckConstructor(unit)
    /\ stage' = "wrapped"
    /\ UNCHANGED <<unit, bits>>

\* Deploy or call it; the oracle answers its conditions.
Execute ==
    /\ stage = "wrapped"
    /\ bits' \in Oracles
    /\ stage' = "ran"
    /\ UNCHANGED <<unit, ir>>

Next == WrapFunction \/ WrapConstructor \/ Execute

Spec == Init /\ [][Next]_vars

-----------------------------------------------------------------------------
(* What Solidity does with the same source: the initializers of the state  *)
(* first, then the outermost layer.                                        *)

Intended(u, b) == Observed(Layer(1, Run(ImmutableInits(u), Start(u, b))))
Lowered == Observed(Run(ir, Start(unit, bits)))

Ran == stage = "ran"

\* The wrapped function or constructor does what its source means: the marks
\* of the modifiers and of the body come in the same order with the same
\* values, and the same value is returned (wrapModifiers,
\* buildCtorLevelStmts, modifierLayer, ctorOutlineBind).
WrapsFaithfully == Ran => Lowered = Intended(unit, bits)

\* The arguments of a modifier are read in the scope of the function, whatever
\* the modifier calls its parameters (the comment in inlineModifier).
ArgsInFunctionScope == Ran => Lowered.trace = Intended(unit, bits).trace

\* A body that runs once per placeholder returns what it returns in Solidity
\* (the comment at the modifierBody case of lowerStmt).
LastRunReturned == Ran => Lowered.ret = Intended(unit, bits).ret

\* A modifier's locals and the constructor's parameters do not see each other
\* (the comment on inlineModifier).
ScopesApart == Ran => Lowered.trace = Intended(unit, bits).trace

\* An immutable's initializer runs before any modifier or body (the comment in
\* checkConstructor), so both see its value and it is set when they end.
InitializersFirst ==
    Ran => LET seen == Intended(unit, bits)
           IN  /\ Lowered.trace = seen.trace
               /\ Lowered.immutable = seen.immutable
=============================================================================
