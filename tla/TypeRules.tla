------------------------------ MODULE TypeRules ------------------------------
(* Which types the operands of an operator are brought to, and which          *)
(* conversions a program may write: the rules the analyzer applies before     *)
(* code is emitted, and where a literal is treated apart from a value of its  *)
(* type.                                                                      *)
(*                                                                            *)
(* An operand is a value of a type.  It is a literal when the analyzer knows  *)
(* it (a number, a conversion of one, a constant), free when no conversion    *)
(* fixed its type, and hex is the width of a hexadecimal number's digits in   *)
(* bytes, 0 for any other.  A literal bytesN has the value of its register.   *)
(* A rule that reports an error yields no operand.                            *)
EXTENDS WordArithmetic

Operand(t, v) == [type |-> t, lit |-> FALSE, free |-> FALSE, hex |-> 0, value |-> v]
Literal(t, v, free, hex) == [type |-> t, lit |-> TRUE, free |-> free, hex |-> hex, value |-> v]

\* The range of an integer type, that of the underlying type for an enum.
InIntRange(v, t) == IF t.kind = "int" THEN -(Modulus(t) \div 2) <= v /\ v < Modulus(t) \div 2
                    ELSE 0 <= v /\ v < Modulus(t)

CommonNumericType(a, b) ==
    IF a.kind = b.kind /\ a.members = b.members /\ a.kind \in {"uint", "int", "bytesN"}
    THEN {IF a.bytes >= b.bytes THEN a ELSE b} ELSE {}

(***************************************************************************)
(* Conversions the program writes.                                         *)
(***************************************************************************)
IsCastAllowed(from, to) ==
    /\ IsEnum(from) => to.kind = "uint"
    /\ \/ from.kind = "address" /\ to \in {UInt(AddressBytes), BytesN(AddressBytes)}
       \/ to.kind = "address" /\ (from.kind = "address" \/ from \in {UInt(AddressBytes), BytesN(AddressBytes)})
       \/ IsInteger(from) /\ IsInteger(to) /\ (from.kind = to.kind \/ from.bytes = to.bytes)
       \/ from.kind = "bool" /\ to.kind = "bool"
       \/ from.kind = "bytesN" /\ to.kind = "bytesN"
       \/ {from.kind, to.kind} = {"uint", "bytesN"} /\ from.bytes = to.bytes

\* The type a literal takes from the operand it meets, or from a conversion.
RetypeLiteral(lit, t, explicit) ==
    LET as == [lit EXCEPT !.type = t]
    IN  CASE lit.type.kind = "address" ->
               IF explicit /\ t = UInt(AddressBytes) /\ InIntRange(lit.value, t) THEN {as} ELSE {}
          [] IsEnum(lit.type) /\ (~explicit \/ t.kind = "int") -> {}
          [] IsEnum(t) /\ ~IsEnum(lit.type) -> {}
          [] t.kind = "bytesN" ->
               IF lit.value = 0 \/ (lit.type.kind = "bytesN" /\ lit.type.bytes <= t.bytes) THEN {as}
               ELSE IF lit.hex = t.bytes THEN {Literal(t, lit.value * 2 ^ Gap(t), TRUE, 0)} ELSE {}
          [] IsInteger(t) /\ InIntRange(lit.value, t) -> {as}
          [] OTHER -> {}

\* A conversion to an enum is checked when it runs, or here when known.
CheckEnumCast(e, t) ==
    IF ~IsInteger(e.type) \/ IsEnum(e.type) THEN {}
    ELSE IF ~e.lit THEN {[operand |-> Operand(t, LowerCast(e.type, t, e.value))]}
    ELSE IF 0 <= e.value /\ e.value < t.members THEN {[operand |-> Literal(t, e.value, TRUE, 0)]} ELSE {}

\* t(e).  named is the type a conversion directly under this one was written
\* with, or {}: a literal has lost it.
CheckCast(e, t, named) ==
    IF IsEnum(t) THEN CheckEnumCast(e, t)
    ELSE IF e.lit /\ IsInteger(t)
    THEN IF \E n \in named : IsInteger(n) /\ n # t /\ ~IsCastAllowed(n, t) THEN {}
         ELSE {[operand |-> [x EXCEPT !.free = FALSE]] : x \in RetypeLiteral(e, t, TRUE)}
    ELSE IF e.lit /\ t.kind = "bytesN" /\ e.type.kind # "address"
    THEN IF \E n \in named : n.kind = "uint"
         THEN IF named = {UInt(t.bytes)} THEN {[operand |-> Literal(t, e.value * 2 ^ Gap(t), TRUE, 0)]} ELSE {}
         ELSE IF \E n \in named : n.kind = "bytesN"
         THEN {[operand |-> Literal(t, HighMask(t, e.value), TRUE, 0)]}
         ELSE IF e.value = 0 \/ e.hex = t.bytes
         THEN {[operand |-> Literal(t, e.value * 2 ^ Gap(t), TRUE, 0)]} ELSE {}
    ELSE IF e.type = t THEN {[operand |-> e]}
    ELSE IF IsCastAllowed(e.type, t)
    THEN {[operand |-> Operand(t, LowerCast(e.type, t, IF e.lit THEN e.value % M ELSE e.value))]} ELSE {}

\* An expression where a value of type t is expected.
Coerce(e, t) ==
    IF e.type = t THEN {e}
    ELSE IF e.lit /\ e.free /\ (e.type.kind # "address" \/ RetypeLiteral(e, t, FALSE) # {})
    THEN RetypeLiteral(e, t, FALSE)
    ELSE IF IsImplicitWiden(e.type, t) THEN {[e EXCEPT !.type = t]} ELSE {}

(***************************************************************************)
(* Operators.                                                              *)
(***************************************************************************)
\* The smallest type of the other operand's sign that holds the literal, when
\* that operand's own does not.
WiderFor(lit, other) ==
    {t \in [kind : {other.type.kind}, bytes : other.type.bytes .. WordBytes, members : {0}] :
        /\ lit.lit /\ ~other.lit
        /\ IsInteger(other.type) /\ ~IsEnum(other.type)
        /\ ~InIntRange(lit.value, other.type)
        /\ (other.type.kind = "uint") = (lit.value >= 0)
        /\ InIntRange(lit.value, t)
        /\ \A n \in other.type.bytes .. t.bytes - 1 : ~InIntRange(lit.value, [t EXCEPT !.bytes = n])}

UnifyOperands(l, r) ==
    LET pair(x, y) == [left |-> x, right |-> y]
        both(t) == pair([l EXCEPT !.type = t], [r EXCEPT !.type = t])
    IN  IF l.type = r.type THEN {pair(l, r)}
        ELSE IF WiderFor(r, l) # {} THEN {both(t) : t \in WiderFor(r, l)}
        ELSE IF WiderFor(l, r) # {} THEN {both(t) : t \in WiderFor(l, r)}
        ELSE IF r.lit /\ ~l.lit THEN {pair(l, x) : x \in RetypeLiteral(r, l.type, FALSE)}
        ELSE IF l.lit /\ ~r.lit THEN {pair(x, r) : x \in RetypeLiteral(l, r.type, FALSE)}
        ELSE {both(t) : t \in CommonNumericType(l.type, r.type)}

Bitwise_ == {"&", "|", "^"}
Ordered == {"<", ">", "<=", ">="}

\* The word an operand is lowered to.
WordOf(e) == IF e.lit THEN e.value % M ELSE e.value

\* The types an operator accepts, and its result: at most one.
BuildBinary(op, l, r, unchecked) ==
    LET result(t, x, y) == [type |-> t, left |-> x, right |-> y,
                            word |-> LowerBinary(op, x.type, WordOf(x), WordOf(y), unchecked)]
        independent == op \in {"<<", ">>", "**"}
    IN  IF op \in Comparisons
        THEN {result(Bool, u.left, u.right) :
                u \in {v \in UnifyOperands(l, r) : op \in Ordered => v.left.type.kind # "bool"}}
        ELSE IF IsEnum(l.type) \/ IsEnum(r.type) THEN {}
        ELSE IF independent
        THEN IF /\ r.type.kind = "uint"
                /\ IsInteger(l.type) \/ (op # "**" /\ l.type.kind = "bytesN")
             THEN {result(l.type, l, r)} ELSE {}
        ELSE {result(u.left.type, u.left, u.right) :
                u \in {v \in UnifyOperands(l, r) :
                         \/ IsInteger(v.left.type)
                         \/ op \in Bitwise_ /\ v.left.type.kind = "bytesN"}}

CheckUnary(op, e, unchecked) ==
    IF \/ op = "-" /\ e.type.kind = "int"
       \/ op = "!" /\ e.type.kind = "bool"
       \/ op = "~" /\ (IsInteger(e.type) \/ e.type.kind = "bytesN")
    THEN {Operand(e.type, LowerUnary(op, e.type, WordOf(e), unchecked))} ELSE {}
==============================================================================
