---------------------------- MODULE WordArithmetic ----------------------------
(* What the Yul the compiler emits computes on one register: the checked and  *)
(* the wrapping operators, conversions, and the packing of a value into a     *)
(* storage slot.                                                              *)
(*                                                                            *)
(* A word has WordBytes bytes of Byte bits.  A register holds a value in the  *)
(* form of its type: an unsigned value and a bool as they are, a signed one   *)
(* in two's complement of the whole word, a bytesN at the high end of the     *)
(* word.  An operation that panics yields the negated code of the panic.      *)
EXTENDS Integers, FiniteSetsExt

CONSTANTS Byte, WordBytes, AddressBytes, Types
ASSUME WidthAssumption ==
    /\ Byte \in Nat \ {0} /\ WordBytes \in Nat \ {0} /\ AddressBytes \in 1 .. WordBytes
    /\ Types \subseteq [kind : {"uint", "int", "bytesN", "bool", "address"},
                        bytes : 1 .. WordBytes, members : Nat]
    /\ \A t \in Types : /\ t.kind # "uint" => t.members = 0
                        /\ t.kind = "address" => t.bytes = AddressBytes
                        /\ t.kind = "bool" => t.bytes = 1

Bits == Byte * WordBytes
M == 2 ^ Bits
Half == M \div 2
Words == 0 .. M - 1
Modulus(t) == 2 ^ (Byte * t.bytes)
\* The distance of a bytesN from the low end of its word.
Gap(t) == Byte * (WordBytes - t.bytes)
Full(t) == t.bytes = WordBytes

UInt(n) == [kind |-> "uint", bytes |-> n, members |-> 0]
Int_(n) == [kind |-> "int", bytes |-> n, members |-> 0]
BytesN(n) == [kind |-> "bytesN", bytes |-> n, members |-> 0]
Bool == [kind |-> "bool", bytes |-> 1, members |-> 0]
IsEnum(t) == t.kind = "uint" /\ t.members > 0
IsInteger(t) == t.kind \in {"uint", "int"}

Overflow == -17       \* Panic(0x11)
ZeroDivision == -18   \* Panic(0x12)
BadEnum == -33        \* Panic(0x21)
Unsupported == -1     \* the emitter throws UnsupportedError

(***************************************************************************)
(* The machine's operations.                                               *)
(***************************************************************************)
Add(x, y) == IF x + y < M THEN x + y ELSE x + y - M
Sub(x, y) == IF y <= x THEN x - y ELSE x - y + M
Mul(x, y) == (x * y) % M
Signed(x) == IF x < Half THEN x ELSE x - M
Unsigned(v) == IF v < 0 THEN v + M ELSE v
Abs_(v) == IF v < 0 THEN -v ELSE v
\* Quotient and remainder rounded toward zero.
Quotient(a, b) == LET q == Abs_(a) \div Abs_(b) IN IF (a < 0) = (b < 0) THEN q ELSE -q
Remainder(a, b) == a - (b * Quotient(a, b))
Div(x, y) == IF y = 0 THEN 0 ELSE x \div y
Sdiv(x, y) == IF y = 0 THEN 0 ELSE Unsigned(Quotient(Signed(x), Signed(y)))
Smod(x, y) == IF y = 0 THEN 0 ELSE Unsigned(Remainder(Signed(x), Signed(y)))
Shl(n, x) == IF n >= Bits THEN 0 ELSE (x * 2 ^ n) % M
Shr(n, x) == IF n >= Bits THEN 0 ELSE x \div 2 ^ n
Sar(n, x) == Unsigned(IF n >= Bits THEN (IF x < Half THEN 0 ELSE -1) ELSE Signed(x) \div 2 ^ n)
Not(x) == M - 1 - x
Bit(x, i) == (x \div 2 ^ i) % 2
OfBits(P(_)) == MapThenSumSet(LAMBDA i : IF P(i) THEN 2 ^ i ELSE 0, 0 .. Bits - 1)
And(x, y) == OfBits(LAMBDA i : Bit(x, i) = 1 /\ Bit(y, i) = 1)
Or(x, y) == OfBits(LAMBDA i : Bit(x, i) = 1 \/ Bit(y, i) = 1)
Xor(x, y) == OfBits(LAMBDA i : Bit(x, i) # Bit(y, i))
Exp(x, n) == LET p[k \in 0 .. n] == IF k = 0 THEN 1 ELSE Mul(p[k - 1], x) IN p[n]

Mask(t, x) == x % Modulus(t)
SignExtend(t, x) == LET low == x % Modulus(t)
                    IN  IF 2 * low < Modulus(t) THEN low ELSE low - Modulus(t) + M
HighMask(t, x) == x - (x % 2 ^ Gap(t))

MaxWord(t) == IF t.kind = "uint" THEN Modulus(t) - 1 ELSE Modulus(t) \div 2 - 1
MinWord(t) == Unsigned(-(Modulus(t) \div 2))
\* A comparison as the emitted code makes it: signed for a signed type.
Less(t, x, y) == IF t.kind = "int" THEN Signed(x) < Signed(y) ELSE x < y

(***************************************************************************)
(* Checked operators.                                                      *)
(***************************************************************************)
WrapToType(t, x) == IF t.kind = "uint" THEN Mask(t, x)
                    ELSE IF t.kind = "int" THEN SignExtend(t, x) ELSE x

OutOfInt(t, r) == Signed(r) > Signed(MaxWord(t)) \/ Signed(r) < Signed(MinWord(t))

CheckedAddUint(t, a, b) ==
    LET r == Add(a, b)
    IN  IF (IF Full(t) THEN r < a ELSE r > MaxWord(t)) THEN Overflow ELSE r

CheckedSubUint(t, a, b) == IF b > a THEN Overflow ELSE Sub(a, b)

CheckedMulUint(t, a, b) ==
    LET r == Mul(a, b)
    IN  IF (a # 0 /\ Div(r, a) # b) \/ (~Full(t) /\ r > MaxWord(t)) THEN Overflow ELSE r

CheckedDivUint(t, a, b) == IF b = 0 THEN ZeroDivision ELSE Div(a, b)
CheckedModUint(t, a, b) == IF b = 0 THEN ZeroDivision ELSE a % b

CheckedAddInt(t, a, b) ==
    LET r == Add(a, b)
        wrapped == IF Signed(b) >= 0 THEN Signed(r) < Signed(a) ELSE Signed(r) > Signed(a)
    IN  IF (IF Full(t) THEN wrapped ELSE OutOfInt(t, r)) THEN Overflow ELSE r

CheckedSubInt(t, a, b) ==
    LET r == Sub(a, b)
        wrapped == IF Signed(b) >= 0 THEN Signed(r) > Signed(a) ELSE Signed(r) < Signed(a)
    IN  IF (IF Full(t) THEN wrapped ELSE OutOfInt(t, r)) THEN Overflow ELSE r

CheckedMulInt(t, a, b) ==
    LET r == Mul(a, b)
    IN  IF \/ a # 0 /\ Sdiv(r, a) # b
           \/ a = M - 1 /\ b = MinWord(t)
           \/ ~Full(t) /\ OutOfInt(t, r)
        THEN Overflow ELSE r

CheckedDivInt(t, a, b) ==
    IF b = 0 THEN ZeroDivision
    ELSE IF a = MinWord(t) /\ b = M - 1 THEN Overflow ELSE Sdiv(a, b)

CheckedModInt(t, a, b) == IF b = 0 THEN ZeroDivision ELSE Smod(a, b)
UncheckedDivInt(a, b) == IF b = 0 THEN ZeroDivision ELSE Sdiv(a, b)

CheckedArith(op, t, a, b) ==
    IF t.kind = "uint"
    THEN CASE op = "+" -> CheckedAddUint(t, a, b)  [] op = "-" -> CheckedSubUint(t, a, b)
           [] op = "*" -> CheckedMulUint(t, a, b)  [] op = "/" -> CheckedDivUint(t, a, b)
           [] op = "%" -> CheckedModUint(t, a, b)
    ELSE CASE op = "+" -> CheckedAddInt(t, a, b)  [] op = "-" -> CheckedSubInt(t, a, b)
           [] op = "*" -> CheckedMulInt(t, a, b)  [] op = "/" -> CheckedDivInt(t, a, b)
           [] op = "%" -> CheckedModInt(t, a, b)

(***************************************************************************)
(* checkedExp squares and multiplies over the whole word and compares the  *)
(* power with the range of its type once, at the end.                      *)
(***************************************************************************)
CheckedExp(t, base, exponent) ==
    LET wide == IF t.kind = "int" THEN Int_(WordBytes) ELSE UInt(WordBytes)
        MulWide(a, b) == IF a < 0 \/ b < 0 THEN Overflow ELSE CheckedArith("*", wide, a, b)
        loop[k \in 0 .. Bits] ==
            IF k = 0 THEN [power |-> 1, base |-> base, exponent |-> exponent]
            ELSE LET at == loop[k - 1]
                 IN  IF at.exponent <= 1 THEN at
                     ELSE [power |-> IF at.exponent % 2 = 1 THEN MulWide(at.power, at.base)
                                     ELSE at.power,
                           base |-> MulWide(at.base, at.base),
                           exponent |-> at.exponent \div 2]
        end == loop[Bits]
        power == IF exponent = 0 THEN 1 ELSE MulWide(end.power, end.base)
    IN  IF power < 0 THEN Overflow
        ELSE IF ~Full(t) /\ (IF t.kind = "uint" THEN power > MaxWord(t) ELSE OutOfInt(t, power))
        THEN Overflow ELSE power

(***************************************************************************)
(* Operators of the source language.  t is the type both operands were     *)
(* unified to; the right operand of a shift and of ** has its own.         *)
(***************************************************************************)
Flag(p) == IF p THEN 1 ELSE 0

Compare(op, t, l, r) ==
    Flag(CASE op = "<" -> Less(t, l, r)      [] op = ">" -> Less(t, r, l)
           [] op = "<=" -> ~Less(t, r, l)    [] op = ">=" -> ~Less(t, l, r)
           [] op = "==" -> l = r             [] op = "!=" -> l # r)

Comparisons == {"<", ">", "<=", ">=", "==", "!="}

LowerShift(op, t, l, r) ==
    CASE op = "<<" /\ t.kind # "bytesN" -> WrapToType(t, Shl(r, l))
      [] op = "<<" -> Shl(r, l)
      [] op = ">>" /\ t.kind = "int" -> Sar(r, l)
      [] op = ">>" /\ t.kind = "bytesN" -> HighMask(t, Shr(r, l))
      [] OTHER -> Shr(r, l)

LowerBinary(op, t, l, r, unchecked) ==
    CASE op \in Comparisons -> Compare(op, t, l, r)
      [] op \in {"<<", ">>"} -> LowerShift(op, t, l, r)
      [] op = "&" -> And(l, r)
      [] op = "|" -> Or(l, r)
      [] op = "^" -> Xor(l, r)
      [] op = "**" -> IF unchecked THEN WrapToType(t, Exp(l, r)) ELSE CheckedExp(t, l, r)
      [] unchecked /\ op = "+" -> WrapToType(t, Add(l, r))
      [] unchecked /\ op = "-" -> WrapToType(t, Sub(l, r))
      [] unchecked /\ op = "*" -> WrapToType(t, Mul(l, r))
      [] unchecked /\ op = "/" /\ t.kind = "int" ->
            LET q == UncheckedDivInt(l, r) IN IF q < 0 THEN q ELSE WrapToType(t, q)
      [] OTHER -> CheckedArith(op, t, l, r)

LowerUnary(op, t, x, unchecked) ==
    CASE op = "!" -> Flag(x = 0)
      [] op = "~" -> CASE t.kind = "uint" -> Mask(t, Not(x))
                       [] t.kind = "bytesN" -> HighMask(t, Not(x))
                       [] OTHER -> Not(x)
      [] op = "-" /\ unchecked -> WrapToType(t, Sub(0, x))
      [] OTHER -> CheckedSubInt(t, 0, x)

(***************************************************************************)
(* Conversions.                                                            *)
(***************************************************************************)
IsImplicitWiden(from, to) ==
    /\ from.kind = to.kind /\ from.kind \in {"uint", "int", "bytesN"}
    /\ from.members = to.members
    /\ from.bytes <= to.bytes

\* Mutant: a value narrowed to a signed type keeps its high bytes.
LowerNumericCastUnextended(from, to, v) ==
    CASE IsImplicitWiden(from, to) -> v
      [] IsInteger(from) /\ to.kind = "uint" -> Mask(to, v)
      [] IsInteger(from) /\ to.kind = "int" -> v
      [] from.kind = "bytesN" /\ to.kind = "bytesN" -> HighMask(to, v)
      [] from.kind = "uint" /\ to.kind = "bytesN" -> Shl(Gap(to), v)
      [] from.kind = "bytesN" /\ to.kind = "uint" -> Shr(Gap(from), v)
      [] OTHER -> Unsupported

LowerNumericCast(from, to, v) ==
    CASE IsImplicitWiden(from, to) -> v
      [] IsInteger(from) /\ to.kind = "uint" -> Mask(to, v)
      [] IsInteger(from) /\ to.kind = "int" -> SignExtend(to, v)
      [] from.kind = "bytesN" /\ to.kind = "bytesN" -> HighMask(to, v)
      [] from.kind = "uint" /\ to.kind = "bytesN" -> Shl(Gap(to), v)
      [] from.kind = "bytesN" /\ to.kind = "uint" -> Shr(Gap(from), v)
      [] OTHER -> Unsupported

LowerCast(from, to, v) ==
    LET address20 == UInt(AddressBytes)
    IN  CASE IsEnum(to) -> IF v < to.members THEN v ELSE BadEnum
          [] to.kind = "address" /\ (from.kind = "address" \/ from = address20) -> v
          [] to = address20 /\ from.kind = "address" -> v
          [] to = BytesN(AddressBytes) /\ from.kind = "address" -> Shl(Gap(to), v)
          [] to.kind = "address" /\ from = BytesN(AddressBytes) -> Shr(Gap(from), v)
          [] from.kind = "bool" /\ to.kind = "bool" -> v
          [] OTHER -> LowerNumericCast(from, to, v)

\* A decoded word of calldata is accepted when it has the form of its type.
ValidateInput(t, w) ==
    CASE IsEnum(t) -> w < t.members
      [] t.kind = "uint" -> w <= MaxWord(t)
      [] t.kind = "int" -> SignExtend(t, w) = w
      [] t.kind = "bool" -> w <= 1
      [] t.kind = "address" -> Shr(Byte * t.bytes, w) = 0
      [] t.kind = "bytesN" -> w % 2 ^ Gap(t) = 0

(***************************************************************************)
(* A value in a slot starts offset bytes from the low end and is kept      *)
(* right-aligned in its field.                                             *)
(***************************************************************************)
LoadState(t, slot, offset) ==
    LET raw == Shr(Byte * offset, slot)
    IN  IF Full(t) /\ offset = 0 THEN slot
        ELSE IF t.kind = "int" THEN SignExtend(t, raw)
        ELSE IF t.kind = "bytesN" THEN Shl(Gap(t), Mask(t, raw))
        ELSE Mask(t, raw)

\* Mutant: the high bytes of a negative value spill over the next field.
StoreStateUnmasked(t, slot, offset, v) ==
    IF Full(t) /\ offset = 0 THEN v
    ELSE LET data == IF t.kind = "bytesN" THEN Shr(Gap(t), v) ELSE v
             field == Shl(Byte * offset, Modulus(t) - 1)
         IN  Or(And(slot, Not(field)), Shl(Byte * offset, data))

StoreState(t, slot, offset, v) ==
    IF Full(t) /\ offset = 0 THEN v
    ELSE LET data == IF t.kind = "bytesN" THEN Shr(Gap(t), v) ELSE v
             field == Shl(Byte * offset, Modulus(t) - 1)
         IN  Or(And(slot, Not(field)), Shl(Byte * offset, Mask(t, data)))

-----------------------------------------------------------------------------
(***************************************************************************)
(* What a register means.                                                  *)
(***************************************************************************)
Value(t, w) == CASE t.kind = "int" -> Signed(w)
                 [] t.kind = "bytesN" -> w \div 2 ^ Gap(t)
                 [] OTHER -> w

MinValue(t) == IF t.kind = "int" THEN -(Modulus(t) \div 2) ELSE 0
MaxValue(t) == CASE IsEnum(t) -> t.members - 1
                 [] t.kind = "bool" -> 1
                 [] t.kind = "int" -> Modulus(t) \div 2 - 1
                 [] OTHER -> Modulus(t) - 1
InRange(v, t) == MinValue(t) <= v /\ v <= MaxValue(t)

\* The register that holds v.
Word(t, v) == IF t.kind = "bytesN" THEN v * 2 ^ Gap(t) ELSE Unsigned(v)
\* The value of t that agrees with v modulo the width of t.
Wrapped(t, v) == LET low == v % Modulus(t)
                 IN  IF t.kind = "int" /\ 2 * low >= Modulus(t) THEN low - Modulus(t) ELSE low

Canonical(t, w) == w \in Words /\ InRange(Value(t, w), t) /\ Word(t, Value(t, w)) = w
==============================================================================
