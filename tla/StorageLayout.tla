---------------------------- MODULE StorageLayout ----------------------------
(* Where storage keeps a value of each type: the sequential, packing layout  *)
(* of the fields of a struct and of the variables of a contract, the slots   *)
(* of fixed arrays, and the walk that pairs the words of an unpacked memory  *)
(* image with the packed places of storage.                                  *)
(*                                                                           *)
(* A storage word is Lanes lanes wide (32 bytes in the code, four lanes in   *)
(* the runs); a value type takes some of them, from the low end.             *)
EXTENDS Integers, Sequences, SequencesExt

CONSTANT Lanes     \* lanes of a storage word

ASSUME LanesAssumption == Lanes \in Nat \ {0}

CeilDiv(a, b) == (a + b - 1) \div b

\* an unsigned integer of n lanes; an address, which packs beside other fields
\* but not beside other elements; a byte string; a mapping
Uint(n) == [kind |-> "uint", size |-> n]
Address(n) == [kind |-> "address", size |-> n]
Bytes == [kind |-> "bytes"]
Map(t) == [kind |-> "map", elem |-> t]
Dyn(t) == [kind |-> "dyn", elem |-> t]
Fixed(t, n) == [kind |-> "fixed", elem |-> t, len |-> n]

IsValue(t) == t.kind \in {"uint", "address"}

\* arrayElemPacks: how many elements of an array share a slot
PerSlot(t) == IF t.kind = "uint" /\ t.size < Lanes THEN Lanes \div t.size ELSE 1
Packs(t) == t.kind = "uint" /\ t.size < Lanes

\* storageSlotCount: a fixed array of values counts the slots its elements fill
RECURSIVE SlotCount(_)
SlotCount(t) ==
  CASE t.kind = "struct" -> IF t.fields = <<>> THEN 1
                            ELSE Last(t.places).slot + SlotCount(Last(t.fields))
    [] t.kind = "fixed" /\ IsValue(t.elem) -> CeilDiv(t.len, Lanes \div t.elem.size)
    [] t.kind = "fixed" /\ ~IsValue(t.elem) -> t.len * SlotCount(t.elem)
    [] OTHER -> 1

Size(t) == IF IsValue(t) THEN t.size ELSE Lanes

WholeSlot(t) == ~IsValue(t) \/ t.size = Lanes

-----------------------------------------------------------------------------
(* planLayout.                                                               *)

\* where the next variable opens: a fresh slot when it does not fit, or fills one
Open(at, t) ==
  IF (WholeSlot(t) /\ at.used > 0) \/ (~WholeSlot(t) /\ at.used + Size(t) > Lanes)
  THEN [slot |-> at.slot + 1, used |-> 0] ELSE at

Close(at, t) ==
  LET here == Open(at, t)
      used == here.used + Size(t)
  IN CASE WholeSlot(t) -> [slot |-> here.slot + SlotCount(t), used |-> 0]
       [] ~WholeSlot(t) /\ used = Lanes -> [slot |-> here.slot + 1, used |-> 0]
       [] OTHER -> [here EXCEPT !.used = used]

\* the slot and the lane of every variable of a sequence of types
Plan(types) ==
  LET at[i \in 0 .. Len(types)] ==
        IF i = 0 THEN [slot |-> 0, used |-> 0] ELSE Close(at[i - 1], types[i])
      open(i) == Open(at[i - 1], types[i])
  IN [i \in 1 .. Len(types) |-> [slot |-> open(i).slot, off |-> open(i).used]]

\* planLayout's slotCount: a slot begun counts
PlanSlots(types) ==
  LET end == FoldLeft(Close, [slot |-> 0, used |-> 0], types)
  IN IF end.used > 0 THEN end.slot + 1 ELSE end.slot

Struct(types) == [kind |-> "struct", fields |-> types, places |-> Plan(types)]

-----------------------------------------------------------------------------
(* Kinds of types.                                                           *)

\* isDynamicType: the value has parts behind a hash
RECURSIVE IsDynamic(_)
IsDynamic(t) ==
  CASE t.kind \in {"bytes", "dyn"} -> TRUE
    [] t.kind = "fixed" -> IsDynamic(t.elem)
    [] t.kind = "struct" -> \E i \in DOMAIN t.fields : IsDynamic(t.fields[i])
    [] OTHER -> FALSE

RECURSIVE IsStatic(_)
IsStatic(t) ==
  CASE IsValue(t) -> TRUE
    [] t.kind = "fixed" -> IsStatic(t.elem)
    [] t.kind = "struct" -> \A i \in DOMAIN t.fields : IsStatic(t.fields[i])
    [] OTHER -> FALSE

\* abiHeadWords: the words of an unpacked image
RECURSIVE HeadWords(_)
HeadWords(t) ==
  CASE t.kind = "struct" -> FoldLeft(LAMBDA n, f : n + HeadWords(f), 0, t.fields)
    [] t.kind = "fixed" -> t.len * HeadWords(t.elem)
    [] OTHER -> 1

\* Mutant: the packed elements of a fixed array are one slot apart.
RECURSIVE SpreadLeaves(_, _, _, _)
SpreadLeaves(t, word, slot, off) ==
  CASE t.kind = "struct" ->
         FlattenSeq([i \in 1 .. Len(t.fields) |->
           SpreadLeaves(t.fields[i],
                  word + FoldLeft(LAMBDA n, f : n + HeadWords(f), 0, SubSeq(t.fields, 1, i - 1)),
                  slot + t.places[i].slot, t.places[i].off)])
    [] t.kind = "fixed" ->
         FlattenSeq([i \in 1 .. t.len |->
           SpreadLeaves(t.elem, word + (i - 1) * HeadWords(t.elem),
                        slot + (i - 1) * SlotCount(t.elem), 0)])
    [] OTHER -> << [word |-> word, slot |-> slot, off |-> off, type |-> t] >>

\* structStorageLeaves: the values of a static type, each with its word in the
\* unpacked image and its place in storage
RECURSIVE LeavesFrom(_, _, _, _)
LeavesFrom(t, word, slot, off) ==
  CASE t.kind = "struct" ->
         FlattenSeq([i \in 1 .. Len(t.fields) |->
           LeavesFrom(t.fields[i],
                  word + FoldLeft(LAMBDA n, f : n + HeadWords(f), 0, SubSeq(t.fields, 1, i - 1)),
                  slot + t.places[i].slot, t.places[i].off)])
    [] t.kind = "fixed" /\ IsValue(t.elem) ->
         [i \in 1 .. t.len |->
           [word |-> word + i - 1, slot |-> slot + (i - 1) \div PerSlot(t.elem),
            off |-> IF Packs(t.elem) THEN ((i - 1) % PerSlot(t.elem)) * t.elem.size ELSE 0,
            type |-> t.elem]]
    [] t.kind = "fixed" /\ ~IsValue(t.elem) ->
         FlattenSeq([i \in 1 .. t.len |->
           LeavesFrom(t.elem, word + (i - 1) * HeadWords(t.elem),
                      slot + (i - 1) * SlotCount(t.elem), 0)])
    [] OTHER -> << [word |-> word, slot |-> slot, off |-> off, type |-> t] >>

Leaves(t) == LeavesFrom(t, 0, 0, 0)
=============================================================================
