-------------------------------- MODULE MCValues --------------------------------
(* Words of three bytes of two bits.  A behaviour is a register through a chain *)
(* of operations, or a constant expression growing by one operator at a time.   *)
EXTENDS ConstantFolding

CONSTANTS Scenarios
VARIABLES scenario, reg, did

\* Every integer and bytesN type, an enum of three members, an address of two bytes.
MCTypes == {UInt(n) : n \in 1 .. 3} \cup {Int_(n) : n \in 1 .. 3} \cup {BytesN(n) : n \in 1 .. 3}
           \cup {Bool, [kind |-> "address", bytes |-> 2, members |-> 0],
                 [kind |-> "uint", bytes |-> 1, members |-> 3]}
MCFixed == {UInt(1), Int_(2)}
MCConstants == {[type |-> UInt(1), value |-> 2], [type |-> Int_(2), value |-> -1]}
MCNumbers == {0, 1, 2, 5}

Registers == INSTANCE Expressions WITH Numbers <- {-3, 0, 1, 2, 5, 40}, Slots <- {0, 27, 63}
ASSUME Registers!InputsAssumption

MCvars == <<scenario, vars, reg, did>>

MCInit == /\ scenario \in Scenarios
          /\ IF scenario = "registers"
             THEN Registers!Init /\ expr = Number(0) /\ depth = 0
             ELSE Init /\ reg = [type |-> Bool, word |-> 0] /\ did = Registers!None

MCNext == /\ UNCHANGED scenario
          /\ \/ scenario = "registers" /\ Registers!Next /\ UNCHANGED vars
             \/ scenario = "constants" /\ Next /\ UNCHANGED <<reg, did>>

MCSpec == MCInit /\ [][MCNext]_MCvars

\* Every operator answers what it promises, in the form of its type: the exact
\* result or a panic, the wrapped one in an unchecked block, a shift that scales,
\* a comparison of values, a conversion that keeps the bytes.
OperatorsAreExact ==
  scenario = "registers" =>
     /\ Registers!TypeOK
     /\ Registers!CheckedIsExact
     /\ Registers!UncheckedWraps
     /\ Registers!ShiftsScale
     /\ Registers!ComparesValues
     /\ Registers!CastsKeepBytes

\* A field written and read back leaves the rest of its slot alone, and x++
\* answers the old value.
FieldsAndCounters == Registers!KeepsNeighbours /\ Registers!PostfixAnswersOld

\* What the analyzer folds is what the emitted code would compute, whichever of
\* the folders is tried first, and a constant keeps a value of its type.
FoldIsExact ==
  scenario = "constants" => FoldersAgree /\ FoldIsTheCode /\ ConstantsFit
================================================================================
