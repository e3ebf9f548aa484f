--------------------------- MODULE ConstantFolding ---------------------------
(* How the analyzer evaluates an expression it knows.                         *)
(*                                                                            *)
(* There are three folders: over whole numbers without bounds (evalConstInt), *)
(* over fractions (foldConstRational), and over values with types             *)
(* (evalTypedConst) as soon as a conversion, a bound of a type or a constant  *)
(* occurs.  The initializer of a constant goes through all three; in the body *)
(* of a function only literals are folded, and the rest follows the rules of  *)
(* TypeRules.tla.  An expression grows here one operator at a time; Declared  *)
(* and Computed say what becomes of it as an initializer and in a body.       *)
EXTENDS TypeRules, Sequences

CONSTANTS
    Limit,      \* 4096, the bits a folded power or shift may take
    Depth,      \* bounds the operators of an expression
    Numbers,    \* the numbers written in it
    Fixed,      \* the types of its conversions
    Constants   \* the constants declared so far: records of a type and a value

ASSUME FoldAssumption == Limit \in Nat /\ Depth \in Nat /\ Numbers \subseteq Int /\ Fixed \subseteq Types

(***************************************************************************)
(* Expressions.                                                            *)
(***************************************************************************)
Number(v) == [k |-> "number", v |-> v]
Bound(t, v) == [k |-> "bound", t |-> t, v |-> v]        \* type(t).max, type(t).min
Ref(c) == [k |-> "ref", t |-> c.type, v |-> c.value]    \* a constant
CastE(t, e) == [k |-> "cast", t |-> t, e |-> e]
UnaryE(op, e) == [k |-> "unary", op |-> op, e |-> e]
BinaryE(op, l, r) == [k |-> "binary", op |-> op, l |-> l, r |-> r]

Operators == {"+", "-", "*", "/", "%", "**", "<<", ">>", "&", "|", "^"}
Leaves == {Number(v) : v \in Numbers} \cup {Ref(c) : c \in Constants}
          \cup {Bound(t, MinValue(t)) : t \in Fixed} \cup {Bound(t, MaxValue(t)) : t \in Fixed}

VARIABLES expr, depth
vars == <<expr, depth>>

(***************************************************************************)
(* Unbounded integers: shifts and bit operations on two's complement.      *)
(***************************************************************************)
Long == 2 * Limit + 4
\* ones: the pairs of bits that give a bit
BigBits(ones, x, y) ==
    LET bit(z, i) == (z \div 2 ^ i) % 2 = 1
        low == MapThenSumSet(LAMBDA i : IF <<bit(x, i), bit(y, i)>> \in ones THEN 2 ^ i ELSE 0,
                             0 .. Long - 1)
    IN  IF <<x < 0, y < 0>> \in ones THEN low - 2 ^ Long ELSE low
BigAnd(x, y) == BigBits({<<TRUE, TRUE>>}, x, y)
BigOr(x, y) == BigBits({<<TRUE, TRUE>>, <<TRUE, FALSE>>, <<FALSE, TRUE>>}, x, y)
BigXor(x, y) == BigBits({<<TRUE, FALSE>>, <<FALSE, TRUE>>}, x, y)
BigShr(x, n) == x \div 2 ^ (IF n > Long THEN Long ELSE n)
BitLength(x) == CHOOSE n \in 0 .. 30 : Abs_(x) < 2 ^ n /\ (n = 0 \/ Abs_(x) >= 2 ^ (n - 1))
BigPower(x, n) ==
    IF Abs_(x) <= 1 THEN IF n % 2 = 0 THEN x * x + (IF n = 0 THEN 1 - x * x ELSE 0) ELSE x
    ELSE LET p[i \in 0 .. n] == IF i = 0 THEN 1 ELSE p[i - 1] * x IN p[n]

BigShl(x, n) == IF x = 0 THEN 0 ELSE x * 2 ^ n

PowExceeds(base, n) == Abs_(base) > 1 /\ n >= 0 /\ BitLength(base) * n > Limit
ShiftExceeds(x, n) == x # 0 /\ n >= 0 /\ BitLength(x) + n > Limit

\* An operator of two whole numbers that needs no test.
BigOp(op, a, b) == CASE op = "+" -> a + b  [] op = "-" -> a - b  [] op = "*" -> a * b
                     [] op = "&" -> BigAnd(a, b)  [] op = "|" -> BigOr(a, b)  [] op = "^" -> BigXor(a, b)

(***************************************************************************)
(* evalConstInt: the value, or none.  known says whether a constant is     *)
(* read as its value or is a variable of its type.                         *)
(***************************************************************************)
IntOf(op, a, b) ==
    CASE op = "**" -> IF b < 0 \/ PowExceeds(a, b) THEN {} ELSE {BigPower(a, b)}
      [] op = "<<" -> IF b < 0 \/ ShiftExceeds(a, b) THEN {} ELSE {BigShl(a, b)}
      [] op = ">>" -> IF b < 0 THEN {} ELSE {BigShr(a, b)}
      [] op = "/" -> IF b = 0 \/ Remainder(a, b) # 0 THEN {} ELSE {Quotient(a, b)}
      [] op = "%" -> IF b = 0 THEN {} ELSE {Remainder(a, b)}
      [] OTHER -> {BigOp(op, a, b)}

RECURSIVE EvalConstInt(_, _)
EvalConstInt(e, known) ==
    CASE e.k = "number" -> {e.v}
      [] e.k \in {"ref", "bound"} -> IF known THEN {e.v} ELSE {}
      [] e.k = "cast" -> {}
      [] e.k = "unary" -> {IF e.op = "-" THEN -x ELSE -x - 1 : x \in EvalConstInt(e.e, known)}
      [] e.k = "binary" -> UNION {IntOf(e.op, a, b) : a \in EvalConstInt(e.l, known),
                                                      b \in EvalConstInt(e.r, known)}

(***************************************************************************)
(* foldConstRational: none, an error, or a reduced fraction.               *)
(***************************************************************************)
Fraction(n, d) ==
    LET divides(g) == Abs_(n) % g = 0 /\ Abs_(d) % g = 0
        g == CHOOSE x \in 1 .. Abs_(d) : divides(x) /\ \A y \in x + 1 .. Abs_(d) : ~divides(y)
        s == IF d < 0 THEN -1 ELSE 1
    IN  [s |-> "value", num |-> (s * n) \div g, den |-> (s * d) \div g]
Whole(n) == [s |-> "value", num |-> n, den |-> 1]
Error == [s |-> "error", num |-> 0, den |-> 1]
NotConstant == [s |-> "none", num |-> 0, den |-> 1]

RationalOf(op, a, b) ==
    CASE op = "+" -> Fraction(a.num * b.den + b.num * a.den, a.den * b.den)
      [] op = "-" -> Fraction(a.num * b.den - b.num * a.den, a.den * b.den)
      [] op = "*" -> Fraction(a.num * b.num, a.den * b.den)
      [] op = "/" -> IF b.num = 0 THEN Error ELSE Fraction(a.num * b.den, a.den * b.num)
      [] op = "**" -> IF b.den # 1 \/ b.num < 0 \/ PowExceeds(a.num, b.num) \/ PowExceeds(a.den, b.num)
                      THEN Error ELSE Fraction(BigPower(a.num, b.num), BigPower(a.den, b.num))
      [] a.den # 1 \/ b.den # 1 -> Error
      [] op = "%" -> IF b.num = 0 THEN Error ELSE Whole(Remainder(a.num, b.num))
      [] op = "<<" -> IF b.num < 0 \/ ShiftExceeds(a.num, b.num) THEN Error ELSE Whole(BigShl(a.num, b.num))
      [] op = ">>" -> IF b.num < 0 THEN Error ELSE Whole(BigShr(a.num, b.num))
      [] OTHER -> Whole(BigOp(op, a.num, b.num))

RECURSIVE FoldConstRational(_)
FoldConstRational(e) ==
    CASE e.k = "number" -> Whole(e.v)
      [] e.k \in {"ref", "bound", "cast"} -> NotConstant
      [] e.k = "unary" ->
            LET x == FoldConstRational(e.e)
            IN  IF x.s # "value" THEN x
                ELSE IF e.op = "-" THEN Fraction(-x.num, x.den)
                ELSE IF x.den # 1 THEN Error ELSE Whole(-x.num - 1)
      [] e.k = "binary" ->
            LET a == FoldConstRational(e.l)
                b == FoldConstRational(e.r)
            IN  IF "none" \in {a.s, b.s} THEN NotConstant
                ELSE IF "error" \in {a.s, b.s} THEN Error
                ELSE RationalOf(e.op, a, b)

(***************************************************************************)
(* evalTypedConst: a value with a type, or with none yet (Free); an error; *)
(* or a revert, when the code it stands for would panic.                   *)
(***************************************************************************)
Free == [kind |-> "const", bytes |-> 0, members |-> 0]
Typed(t, v) == [s |-> "value", type |-> t, value |-> v]
Refused == [s |-> "error", type |-> Free, value |-> 0]
Reverts == [s |-> "revert", type |-> Free, value |-> 0]
\* A whole number of type t: the value that agrees with it modulo its width.
WrapTo(t, v) == IF t = Free THEN v ELSE Wrapped(t, v)
FitsType(t, v) == t = Free \/ InIntRange(v, t)

RECURSIVE ContainsTypedOperand(_)
ContainsTypedOperand(e) ==
    CASE e.k = "number" -> FALSE
      [] e.k \in {"ref", "bound", "cast"} -> TRUE
      [] e.k = "unary" -> ContainsTypedOperand(e.e)
      [] e.k = "binary" -> ContainsTypedOperand(e.l) \/ ContainsTypedOperand(e.r)

\* Mutant: a number takes the other operand's type although it does not fit.
CommonConstTypeNarrow(a, b) ==
    IF a.type = Free THEN {b.type}
    ELSE IF b.type = Free THEN {a.type}
    ELSE CommonNumericType(a.type, b.type)

\* The smallest type of the other operand's sign that holds a number.
CommonConstType(a, b) ==
    LET promote(v, t) == {[t EXCEPT !.bytes = n] : n \in
                           {m \in t.bytes .. WordBytes :
                              /\ InIntRange(v, [t EXCEPT !.bytes = m])
                              /\ \A k \in t.bytes .. m - 1 : ~InIntRange(v, [t EXCEPT !.bytes = k])}}
    IN  IF a.type = Free /\ b.type = Free THEN {Free}
        ELSE IF a.type = Free THEN promote(a.value, b.type)
        ELSE IF b.type = Free THEN promote(b.value, a.type)
        ELSE CommonNumericType(a.type, b.type)

CastConst(t, x) ==
    IF x.type = Free THEN IF InIntRange(x.value, t) THEN Typed(t, x.value) ELSE Refused
    ELSE IF IsCastAllowed(x.type, t) THEN Typed(t, Wrapped(t, x.value)) ELSE Refused

UnaryConst(op, x) ==
    IF op = "-"
    THEN IF x.type.kind = "uint" THEN Refused
         ELSE IF FitsType(x.type, -x.value) THEN Typed(x.type, -x.value) ELSE Reverts
    ELSE Typed(x.type, IF x.type.kind = "uint" THEN Wrapped(x.type, -x.value - 1) ELSE -x.value - 1)

ShiftConst(op, a, b) ==
    IF b.value < 0 THEN Refused
    ELSE IF op = "<<" /\ ShiftExceeds(a.value, b.value) THEN Reverts
    ELSE Typed(a.type, WrapTo(a.type, IF op = "<<" THEN BigShl(a.value, b.value) ELSE BigShr(a.value, b.value)))

BinaryConst(op, a, b, common) ==
    LET t == IF op = "**" THEN a.type ELSE common
        checked(v) == IF FitsType(t, v) THEN Typed(t, v) ELSE Reverts
    IN  CASE op = "**" -> IF b.value < 0 THEN Refused
                          ELSE IF PowExceeds(a.value, b.value) THEN Reverts
                          ELSE checked(BigPower(a.value, b.value))
          [] op \in {"/", "%"} /\ b.value = 0 -> Reverts
          [] op = "/" -> checked(Quotient(a.value, b.value))
          [] op = "%" -> checked(Remainder(a.value, b.value))
          [] op \in Bitwise_ -> Typed(t, WrapTo(t, BigOp(op, a.value, b.value)))
          [] OTHER -> checked(BigOp(op, a.value, b.value))

RECURSIVE EvalTypedConst(_)
EvalTypedConst(e) ==
    CASE e.k = "number" -> Typed(Free, e.v)
      [] e.k \in {"ref", "bound"} -> Typed(e.t, e.v)
      [] e.k \in {"cast", "unary"} ->
            LET x == EvalTypedConst(e.e)
            IN  IF x.s # "value" THEN x
                ELSE IF e.k = "cast" THEN CastConst(e.t, x) ELSE UnaryConst(e.op, x)
      [] e.k = "binary" ->
            LET a == EvalTypedConst(e.l)
                b == EvalTypedConst(e.r)
            IN  IF a.s # "value" THEN a ELSE IF b.s # "value" THEN b
                ELSE IF e.op \in {"<<", ">>"} THEN ShiftConst(e.op, a, b)
                ELSE IF CommonConstType(a, b) = {} THEN Refused
                ELSE BinaryConst(e.op, a, b, CHOOSE t \in CommonConstType(a, b) : TRUE)

(***************************************************************************)
(* foldConstant: the value of a constant of type t, or none when an error  *)
(* is reported.                                                            *)
(***************************************************************************)
DeclaredTyped(e, t) ==
    LET x == EvalTypedConst(e)
    IN  IF x.s # "value" THEN {}
        ELSE IF x.type # Free THEN IF x.type.kind = t.kind /\ x.type.bytes <= t.bytes THEN {x.value} ELSE {}
        ELSE IF InIntRange(x.value, t) THEN {x.value} ELSE {}

Declared(e, t) ==
    IF ContainsTypedOperand(e) THEN DeclaredTyped(e, t)
    ELSE IF EvalConstInt(e, TRUE) # {} THEN {v \in EvalConstInt(e, TRUE) : InIntRange(v, t)}
    ELSE LET r == FoldConstRational(e)
         IN  IF r.s = "value" /\ r.den = 1 /\ InIntRange(r.num, t) THEN {r.num} ELSE {}

(***************************************************************************)
(* checkExpr and the code it leads to: the operand an expression becomes   *)
(* where a value of one of the types of expected is wanted; a negative     *)
(* runtime value is a panic.  When known is FALSE, every conversion, bound *)
(* and constant stands for a variable of its type.                         *)
(***************************************************************************)
NumberOperand(v, expected) ==
    LET t == IF expected # {} THEN CHOOSE x \in expected : TRUE
             ELSE IF v < 0 THEN Int_(WordBytes) ELSE UInt(WordBytes)
    IN  IF InIntRange(v, t) THEN {Literal(t, v, TRUE, 0)} ELSE {}

Stand(x, known) == IF x.lit /\ ~known THEN Operand(x.type, Unsigned(x.value)) ELSE x
\* A number, or one with a sign.
Plain(e) == e.k = "number" \/ (e.k = "unary" /\ e.op = "-" /\ e.e.k = "number")
Panics(x) == ~x.lit /\ x.value < 0
NamedType(e) == IF e.k = "cast" THEN {e.t} ELSE {}

RECURSIVE CheckExpr(_, _, _)
BinaryOperand(e, expected, known) ==
    LET left == CheckExpr(e.l, expected, known)
        wanted(l) == IF e.op \in {"<<", ">>", "**"} THEN {}
                     ELSE IF Plain(e.r) \/ expected # {} THEN expected ELSE {l.type}
        of(l, r) == {IF Panics(r) THEN r ELSE IF Panics(l) THEN l ELSE Operand(b.type, b.word) :
                       b \in BuildBinary(e.op, IF Panics(l) THEN [l EXCEPT !.value = 0] ELSE l,
                                               IF Panics(r) THEN [r EXCEPT !.value = 0] ELSE r, FALSE)}
    IN  UNION {UNION {of(l, r) : r \in CheckExpr(e.r, wanted(l), known)} : l \in left}

CheckExpr(e, expected, known) ==
    LET folded == FoldConstRational(e)
    IN  IF e.k \in {"unary", "binary"} /\ folded.s # "none"
        THEN IF folded.s = "error" \/ folded.den # 1 THEN {} ELSE NumberOperand(folded.num, expected)
        ELSE CASE e.k = "number" -> NumberOperand(e.v, expected)
               [] e.k \in {"ref", "bound"} -> {Stand(Literal(e.t, e.v, TRUE, 0), known)}
               [] e.k = "cast" ->
                    UNION {IF Panics(x) THEN {x}
                           ELSE {Stand(c.operand, known) : c \in CheckCast(x, e.t, NamedType(e.e))} :
                             x \in CheckExpr(e.e, {}, known)}
               [] e.k = "unary" ->
                    UNION {IF Panics(x) THEN {x} ELSE CheckUnary(e.op, x, FALSE) :
                             x \in CheckExpr(e.e, expected, known)}
               [] e.k = "binary" ->
                    IF /\ e.op \in {"/", "%"}
                       /\ EvalConstInt(e.r, known) = {0} /\ EvalConstInt(e.l, known) # {}
                    THEN {} ELSE BinaryOperand(e, expected, known)

Computed(e, known) == CheckExpr(e, {}, known)
ValueOf(x) == IF x.lit THEN x.value ELSE Value(x.type, x.value)

-----------------------------------------------------------------------------
Init == expr \in Leaves /\ depth = 0

Grow(e) == depth < Depth /\ expr' = e /\ depth' = depth + 1
Wrap == \E op \in {"-", "~"} : Grow(UnaryE(op, expr))
Convert == \E t \in Fixed : Grow(CastE(t, expr))
AsLeft == \E op \in Operators, r \in Leaves : Grow(BinaryE(op, expr, r))
AsRight == \E op \in Operators, l \in Leaves : Grow(BinaryE(op, l, expr))

Next == Wrap \/ Convert \/ AsLeft \/ AsRight
Spec == Init /\ [][Next]_vars

-----------------------------------------------------------------------------
(***************************************************************************)
(* What folding promises.                                                  *)
(***************************************************************************)
\* Folding the same numbers over whole numbers or over fractions gives the
\* same answer, or the first one declines: the order in which the folders are
\* tried cannot be seen.
FoldersAgree ==
    ~ContainsTypedOperand(expr) =>
        LET r == FoldConstRational(expr)
        IN  \A v \in EvalConstInt(expr, TRUE) : r = Whole(v)

\* No number is rounded on the way to the result.
RECURSIVE WholeSteps(_)
WholeSteps(e) ==
    /\ FoldConstRational(e).den = 1
    /\ e.k \in {"cast", "unary"} => WholeSteps(e.e)
    /\ e.k = "binary" => WholeSteps(e.l) /\ WholeSteps(e.r)

\* A number is shifted or raised by numbers only: such a result has no type to
\* the folder, and the widest one in a body.
RECURSIVE TypedBases(_)
TypedBases(e) ==
    /\ e.k \in {"cast", "unary"} => TypedBases(e.e)
    /\ e.k = "binary" =>
          /\ TypedBases(e.l) /\ TypedBases(e.r)
          /\ e.op \in {"<<", ">>", "**"} /\ ContainsTypedOperand(e.r) => ContainsTypedOperand(e.l)

\* src/analyzer.ts:29779: a typed constant is what the emitted code would
\* compute from variables of the same types and values, and is refused where
\* that code would panic: a result of another value, or of a wrapped one, is
\* never baked in.
FoldIsTheCode ==
    \A x \in Computed(expr, FALSE) :
        LET c == EvalTypedConst(expr)
        IN  ContainsTypedOperand(expr) /\ WholeSteps(expr) /\ TypedBases(expr) =>
                  IF Panics(x) THEN c.s # "value"
                  ELSE c.s = "value" => c.value = ValueOf(x) /\ c.type \in {x.type, Free}

\* A constant has a value of its type, and one its initializer could be
\* assigned from: its type only ever widens on the way.
ConstantsFit ==
    \A t \in Fixed : \A v \in Declared(expr, t) :
        /\ InIntRange(v, t)
        /\ ContainsTypedOperand(expr) /\ EvalTypedConst(expr).type # Free =>
              IsImplicitWiden(EvalTypedConst(expr).type, t)

\* docs/guide/language/expressions.md:39: a constant expression is exact, as
\* (10 / 4) * 4 is 10, under a conversion as well.
FractionsAreExact ==
    \A x \in Computed(expr, FALSE) :
        /\ ContainsTypedOperand(expr) /\ TypedBases(expr)
        /\ EvalTypedConst(expr).s = "value" /\ ~Panics(x)
        => EvalTypedConst(expr).value = ValueOf(x)

\* src/analyzer.ts:29779: the typed folder refuses what is refused of variables
\* of the same types, a signed exponent (28823) for one.
FoldsOnlyPrograms ==
    ContainsTypedOperand(expr) /\ EvalTypedConst(expr).s = "value" => Computed(expr, FALSE) # {}

\* src/analyzer.ts:30130: in the body of a function a bound or a constant is
\* arithmetic of its type, which overflows when it runs.
BodiesKeepTypes ==
    \A x \in Computed(expr, FALSE), y \in Computed(expr, TRUE) :
        Panics(x) <=> Panics(y)
==============================================================================
