------------------------------ MODULE Expressions ------------------------------
(* A register through a chain of operations.                                  *)
(*                                                                            *)
(* A call decodes a parameter into a register.  The program applies an        *)
(* operator to it and another operand (a value computed elsewhere, a number,  *)
(* or a conversion of one), converts it, negates it, counts it up, or keeps   *)
(* it in a storage slot among other fields.  The analyzer decides which of    *)
(* these are programs; the emitted code does the rest, or panics.             *)
EXTENDS TypeRules, FiniteSets

CONSTANTS
    Numbers,    \* the numbers written in the program
    Slots       \* what the other fields of a slot may hold

InputsAssumption == Numbers \subseteq Int /\ Slots \subseteq Words

VARIABLES
    reg,    \* the type and the word of the register
    did     \* the operation just done: its name, operands and mode
vars == <<reg, did>>

Binary == {"+", "-", "*", "/", "%", "**", "<<", ">>", "&", "|", "^"} \cup Comparisons
Left == Operand(reg.type, reg.word)

Did(op, l, r, unchecked) == [op |-> op, left |-> l, right |-> r, unchecked |-> unchecked]
None == Did("none", Operand(Bool, 0), Operand(Bool, 0), FALSE)
Ready == did.op = "none"

\* A number takes the type expected of it, or the widest of its sign.
FreeLiterals == {Literal(IF v < 0 THEN Int_(WordBytes) ELSE UInt(WordBytes), v, TRUE, 0) : v \in Numbers}
\* t(v), known to the analyzer.
CastLiterals == {Literal(t, v, FALSE, 0) : t \in {u \in Types : IsInteger(u) /\ ~IsEnum(u)},
                                           v \in Numbers}
Literals == FreeLiterals \cup {e \in CastLiterals : InIntRange(e.value, e.type)}
RuntimeValues == UNION {{Operand(t, Word(t, v)) : v \in MinValue(t) .. MaxValue(t)} : t \in Types}

-----------------------------------------------------------------------------
Init == /\ reg \in {[type |-> t, word |-> w] : t \in Types, w \in Words}
        /\ ValidateInput(reg.type, reg.word)
        /\ did = None

\* Both operands hold what they held, or the operator was not accepted.
Apply(op, l, r, unchecked) ==
    \E b \in BuildBinary(op, l, r, unchecked) :
        /\ reg' = [type |-> b.type, word |-> b.word]
        /\ did' = Did(op, b.left, b.right, unchecked)

WithValue == Ready /\ \E op \in Binary, r \in RuntimeValues, unchecked \in BOOLEAN :
                          Apply(op, Left, r, unchecked)
LiteralRight == Ready /\ \E op \in Binary, r \in Literals, unchecked \in BOOLEAN :
                             Apply(op, Left, r, unchecked)
LiteralLeft == Ready /\ \E op \in Binary, l \in Literals, unchecked \in BOOLEAN :
                            Apply(op, l, Left, unchecked)

Unary == /\ Ready
         /\ \E op \in {"-", "!", "~"}, unchecked \in BOOLEAN : \E x \in CheckUnary(op, Left, unchecked) :
                /\ reg' = [type |-> x.type, word |-> x.value]
                /\ did' = Did(IF op = "-" THEN "negate" ELSE op, Left, Left, unchecked)

\* x++ and ++x in value position.
IncDec(op, prefix, unchecked) ==
    LET new == LowerBinary(op, reg.type, reg.word, 1, unchecked)
    IN  /\ Ready /\ IsInteger(reg.type)
        /\ reg' = [reg EXCEPT !.word = IF prefix \/ new < 0 THEN new ELSE @]
        /\ did' = Did(IF prefix THEN op ELSE "postfix", Left, Operand(reg.type, 1), unchecked)

Cast == /\ Ready
        /\ \E t \in Types : \E c \in CheckCast(Left, t, {}) :
              /\ reg' = [type |-> t, word |-> c.operand.value]
              /\ did' = Did("cast", Left, c.operand, FALSE)

\* A field is written among others and read back.  The operands recorded are
\* the slot before and after.
Keep == /\ Ready
        /\ \E slot \in Slots, offset \in 0 .. WordBytes - reg.type.bytes :
              LET kept == StoreState(reg.type, slot, offset, reg.word)
              IN  /\ reg' = [reg EXCEPT !.word = LoadState(reg.type, kept, offset)]
                  /\ did' = Did("keep", Operand(reg.type, slot), Operand(UInt(WordBytes), kept), offset = 0)

\* The result is an operand of the next operation, unless the call panicked.
Continue == /\ ~Ready /\ reg.word >= 0
            /\ did' = None
            /\ UNCHANGED reg

Next == \/ WithValue \/ LiteralRight \/ LiteralLeft \/ Unary \/ Cast \/ Keep \/ Continue
        \/ \E op \in {"+", "-"}, prefix, unchecked \in BOOLEAN : IncDec(op, prefix, unchecked)

Spec == Init /\ [][Next]_vars

-----------------------------------------------------------------------------
(***************************************************************************)
(* What the operators promise.                                             *)
(***************************************************************************)
Panicked == reg.word \in {Overflow, ZeroDivision, BadEnum}

\* Whatever the chain of operations, a register has the form of its type or
\* the call panicked: no operator leaves bits outside the width of a narrow
\* type, and no accepted conversion is one the emitter does not know.  An
\* enum is only asked to fit its byte.
TypeOK == /\ reg.type \in Types
          /\ Panicked \/ Canonical([reg.type EXCEPT !.members = 0], reg.word)

A == Value(did.left.type, WordOf(did.left))
B == Value(did.right.type, WordOf(did.right))
Power(n, k) == LET p[i \in 0 .. k] ==
                      IF i = 0 THEN 1
                      ELSE LET q == p[i - 1] * n IN IF Abs_(q) > M THEN M * n ELSE q
               IN  p[k]
PowerOfTwo == 2 ^ (IF B > Bits THEN Bits ELSE B)
Exact == CASE did.op = "+" -> A + B
           [] did.op = "-" -> A - B
           [] did.op = "*" -> A * B
           [] did.op = "/" -> Quotient(A, B)
           [] did.op = "%" -> Remainder(A, B)
           [] did.op = "**" -> Power(A, B)
           [] did.op = "negate" -> -A

Arithmetic == {"+", "-", "*", "/", "%", "**", "negate"}
DividesByZero == did.op \in {"/", "%"} /\ B = 0
Result == Value(reg.type, reg.word)

\* Checked arithmetic answers the exact result, panics with 0x12 on a zero
\* divisor, and panics with 0x11 exactly when the result is no value of the
\* type its operands were brought to.
CheckedIsExact ==
    did.op \in Arithmetic /\ ~did.unchecked =>
        IF DividesByZero THEN reg.word = ZeroDivision
        ELSE IF InIntRange(Exact, reg.type) THEN reg.word >= 0 /\ Result = Exact
        ELSE reg.word = Overflow

\* In an unchecked block the result agrees with the exact one modulo the width
\* of its type; only a zero divisor panics.
UncheckedWraps ==
    did.op \in Arithmetic \ {"**"} /\ did.unchecked =>
        IF DividesByZero THEN reg.word = ZeroDivision
        ELSE reg.word >= 0 /\ Result = Wrapped(reg.type, Exact)

\* A shift multiplies or divides by a power of two and rounds down, on the
\* bytes of a bytesN as on a number; it never panics.
ShiftsScale ==
    did.op \in {"<<", ">>"} =>
        Result = IF did.op = "<<" THEN Wrapped(reg.type, A * PowerOfTwo) ELSE A \div PowerOfTwo

\* A comparison decides the order of the values, not of the words.
ComparesValues ==
    did.op \in Comparisons =>
        reg.word = Flag(CASE did.op = "<" -> A < B  [] did.op = "<=" -> A <= B
                          [] did.op = ">" -> A > B  [] did.op = ">=" -> A >= B
                          [] did.op = "==" -> A = B [] did.op = "!=" -> A # B)

\* A conversion between integers keeps the value modulo the new width; bytesN
\* keeps its first bytes and is padded with zeros; an integer and the bytesN
\* or the address of the same size hold the same bytes; and an enum is made
\* of the number of one of its members only.
FirstBytes(t) == IF t.bytes < did.left.type.bytes
                 THEN A \div 2 ^ (Byte * (did.left.type.bytes - t.bytes))
                 ELSE A * 2 ^ (Byte * (t.bytes - did.left.type.bytes))
CastsKeepBytes ==
    did.op = "cast" =>
        IF IsEnum(reg.type) /\ ~IsEnum(did.left.type)
        THEN reg.word = IF A \in 0 .. reg.type.members - 1 THEN A ELSE BadEnum
        ELSE Result = IF reg.type.kind = "bytesN" /\ did.left.type.kind = "bytesN"
                      THEN FirstBytes(reg.type) ELSE Wrapped(reg.type, A)

\* A field written and read back holds what was written, and every byte of
\* the slot outside the field is as it was.
Bytes(w) == [i \in 0 .. WordBytes - 1 |-> (w \div 2 ^ (Byte * i)) % 2 ^ Byte]
KeepsNeighbours ==
    [][did'.op = "keep" =>
         /\ reg' = reg
         /\ Cardinality({i \in 0 .. WordBytes - 1 : Bytes(did'.left.value)[i] # Bytes(did'.right.value)[i]})
              <= reg.type.bytes]_vars

\* An increment steps the value by one in the type of its operand, and the
\* postfix form still answers the value before.
PostfixAnswersOld ==
    [][did'.op = "postfix" /\ did = None => reg'.word \in {reg.word, Overflow}]_vars

\* docs/distinctive-features.md:270: a switch over an enum that covers every
\* member is exhaustive, so a value of an enum is one of its members.
EnumsAreMembers == IsEnum(reg.type) /\ ~Panicked => reg.word < reg.type.members

\* src/analyzer.ts:28998: a conversion the analyzer has evaluated is a
\* concretely typed value and obeys the rules of a value computed at run time:
\* next to it, it is accepted and gives a result of the same type.
ConversionKeepsItsType ==
    Ready => \A op \in Arithmetic \ {"**", "negate"}, c \in Literals \ FreeLiterals :
                LET types(r) == {b.type : b \in BuildBinary(op, Left, r, FALSE)}
                IN  types(c) \subseteq types(Operand(c.type, c.value % M))
==============================================================================
