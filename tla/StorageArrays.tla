---------------------------- MODULE StorageArrays ----------------------------
(* The generated code that keeps nested arrays and structs in storage.  The  *)
(* length of a dynamic array is in its slot and its elements from the hash   *)
(* of the slot on; every push, pop, copy and delete walks slots of the       *)
(* parts, clearing what a shorter value leaves behind.                       *)
(*                                                                           *)
(* A slot is a sequence of numbers: the slots from the hash of s on are      *)
(* Append(s, 0), Append(s, 1)...  Only words that are not zero are kept.  A  *)
(* word is a number of Lanes binary digits.                                  *)
EXTENDS NestedValues, FiniteSets, FiniteSetsExt, TLC

CONSTANTS Types,        \* the types the two variables may have
          MaxLen,       \* bound, by type: elements of a dynamic array
          MaxWords,     \* bound, by type: words of storage in use
          Effects,      \* what a call in a value's expression may do
          Dangling,     \* whether it may move a part already located
          InlineRows,   \* whether an array of fixed rows comes from memory
          Beside        \* the value of the packed variables on both sides

VARIABLES type,         \* the type of the two variables
          st            \* storage

vars == <<type, st>>

\* the variables: two of the type, between two small ones
Roots == [t \in Types |-> Struct(<<Uint(1), t, t, Uint(2)>>)]
Root(t) == Roots[t]
Base == <<0>>

Sload(s, slot) == IF slot \in DOMAIN s THEN s[slot] ELSE 0

\* sstore of several words
Store(s, words) ==
  LET new == words @@ s
  IN [k \in { k \in DOMAIN new : new[k] # 0 } |-> new[k]]

Sstore(s, slot, w) == Store(s, slot :> w)

Plus(slot, n) == [slot EXCEPT ![Len(slot)] = @ + n]
Data(slot) == Append(slot, 0)
OfKey(slot, key) == slot \o <<key, 0>>

From(a, b) == [i \in 1 .. b - a |-> a + i - 1]

\* slots from + a .. from + b - 1 are cleared
Clear(s, from, a, b) == Store(s, [k \in { Plus(from, i) : i \in a .. b - 1 } |-> 0])

\* n slots are copied as they are
CopySlots(s, src, dst, n) ==
  Store(s, [k \in { Plus(dst, i) : i \in 0 .. n - 1 } |->
              Sload(s, Plus(src, Last(k) - Last(dst)))])

-----------------------------------------------------------------------------
(* Values and byte strings.                                                  *)

\* Mutant: the other lanes of the word are not read back.
StateAlone(s, t, slot, off, x) == Sstore(s, slot, (x % 2^Size(t)) * 2^off)

\* storeState and packedStore: only the lanes of the value change
StoreState(s, t, slot, off, x) ==
  LET w == Sload(s, slot)
      old == (w \div 2^off) % 2^Size(t)
  IN IF Size(t) = Lanes /\ off = 0 THEN Sstore(s, slot, x)
     ELSE Sstore(s, slot, (w - old * 2^off) + (x % 2^Size(t)) * 2^off)

LoadState(s, t, slot, off) == (Sload(s, slot) \div 2^off) % 2^Size(t)

ElemSlot(t, data, i) == Plus(data, i \div PerSlot(t))
ElemOff(t, i) == IF Packs(t) THEN (i % PerSlot(t)) * t.size ELSE 0

ArrayElemStore(s, t, data, i, x) == StoreState(s, t, ElemSlot(t, data, i), ElemOff(t, i), x)

\* a byte string v has v - 1 data words when v >= 2, and is inline otherwise;
\* the low bit of its header says which
Header(v) == IF v >= 2 THEN 2 * v + 1 ELSE 2 * v
BytesIn(s, slot) == Sload(s, slot) \div 2

ClearStr(s, slot) ==
  LET w == Sload(s, slot)
      cleared == Sstore(s, slot, 0)
  IN IF w % 2 = 1 THEN Clear(cleared, Data(slot), 0, (w \div 2) - 1) ELSE cleared

StoreStr(s, slot, v) ==
  Store(ClearStr(s, slot),
        (slot :> Header(v)) @@ [k \in { Plus(Data(slot), i) : i \in 0 .. v - 2 } |-> v])

\* the slots the elements of an array of n static elements fill
SlotsFor(t, n) == IF Packs(t) THEN CeilDiv(n, PerSlot(t)) ELSE n * SlotCount(t)

-----------------------------------------------------------------------------
(* delete.                                                                   *)

RECURSIVE DeleteAgg(_, _, _)

DeleteStruct(s, t, slot) ==
  FoldLeft(LAMBDA u, i :
             LET f == t.fields[i]
                 at == Plus(slot, t.places[i].slot)
             IN CASE f.kind = "map" -> u
                  [] IsValue(f) -> StoreState(u, f, at, t.places[i].off, 0)
                  [] OTHER -> DeleteAgg(u, f, at),
           s, From(1, Len(t.fields) + 1))

DeleteFixed(s, t, slot) ==
  IF IsStatic(t.elem) /\ t.elem.kind # "struct"
  THEN Clear(s, slot, 0, IF Packs(t.elem) THEN CeilDiv(t.len, PerSlot(t.elem))
                         ELSE t.len * SlotCount(t.elem))
  ELSE FoldLeft(LAMBDA u, i : DeleteAgg(u, t.elem, Plus(slot, i * SlotCount(t.elem))),
                s, From(0, t.len))

DeleteDyn(s, elem, slot) ==
  LET n == Sload(s, slot)
      cleared == IF IsStatic(elem) /\ elem.kind # "struct"
                 THEN Clear(s, Data(slot), 0, SlotsFor(elem, n))
                 ELSE FoldLeft(LAMBDA u, i :
                                 DeleteAgg(u, elem, Plus(Data(slot), i * SlotCount(elem))),
                               s, From(0, n))
  IN Sstore(cleared, slot, 0)

DeleteAgg(s, t, slot) ==
  CASE t.kind = "bytes" -> ClearStr(s, slot)
    [] t.kind = "map" -> s
    [] t.kind = "dyn" -> DeleteDyn(s, t.elem, slot)
    [] t.kind = "fixed" -> DeleteFixed(s, t, slot)
    [] t.kind = "struct" -> DeleteStruct(s, t, slot)
    [] OTHER -> Sstore(s, slot, 0)

-----------------------------------------------------------------------------
(* Copies within storage.                                                    *)

RECURSIVE Copy(_, _, _, _)

\* Mutant: the elements a shorter array drops keep their slots.
CopyNoTail(s, elem, src, dst) ==
  LET n == Sload(s, src)
      sc == SlotCount(elem)
  IN IF IsStatic(elem)
     THEN Sstore(CopySlots(s, Data(src), Data(dst), SlotsFor(elem, n)), dst, n)
     ELSE FoldLeft(LAMBDA u, i : Copy(u, elem, Plus(Data(src), i * sc), Plus(Data(dst), i * sc)),
                   Sstore(s, dst, n), From(0, n))

CopyArray(s, elem, src, dst) ==
  LET n == Sload(s, src)
      old == Sload(s, dst)
      sc == SlotCount(elem)
      dropped == FoldLeft(LAMBDA u, i : DeleteAgg(u, elem, Plus(Data(dst), i * sc)),
                          s, From(n, IF old > n THEN old ELSE n))
  IN IF IsStatic(elem)
     THEN Sstore(Clear(CopySlots(s, Data(src), Data(dst), SlotsFor(elem, n)),
                       Data(dst), SlotsFor(elem, n), SlotsFor(elem, old)), dst, n)
     ELSE FoldLeft(LAMBDA u, i : Copy(u, elem, Plus(Data(src), i * sc), Plus(Data(dst), i * sc)),
                   Sstore(dropped, dst, n), From(0, n))

CopyFixed(s, t, src, dst) ==
  IF IsStatic(t.elem) THEN CopySlots(s, src, dst, SlotCount(t))
  ELSE FoldLeft(LAMBDA u, i : Copy(u, t.elem, Plus(src, i * SlotCount(t.elem)),
                                   Plus(dst, i * SlotCount(t.elem))),
                s, From(0, t.len))

CopyStruct(s, t, src, dst) ==
  FoldLeft(LAMBDA u, i :
             LET f == t.fields[i]
                 n == t.places[i].slot
             IN IF f.kind = "struct" \/ IsDynamic(f) THEN Copy(u, f, Plus(src, n), Plus(dst, n))
                ELSE CopySlots(u, Plus(src, n), Plus(dst, n), SlotCount(f)),
           s, From(1, Len(t.fields) + 1))

Copy(s, t, src, dst) ==
  CASE t.kind = "bytes" -> StoreStr(s, dst, BytesIn(s, src))
    [] t.kind = "dyn" -> CopyArray(s, t.elem, src, dst)
    [] t.kind = "fixed" -> CopyFixed(s, t, src, dst)
    [] t.kind = "struct" -> CopyStruct(s, t, src, dst)

-----------------------------------------------------------------------------
(* Stores of a value held in memory.                                         *)

RECURSIVE StoreMem(_, _, _, _)

\* copyMemArrayIntoStorage, and a calldata array: the elements are values
CopyMemArray(s, elem, v, slot) ==
  LET cleared == Clear(s, Data(slot), 0, SlotsFor(elem, Sload(s, slot)))
  IN FoldLeft(LAMBDA u, i : ArrayElemStore(u, elem, Data(slot), i, v[i + 1]),
              Sstore(cleared, slot, Len(v)), From(0, Len(v)))

\* copyMemAggArrayIntoStorage: each word of the image points at an element, a
\* fixed row as if it were an array with a length
CopyMemAgg(s, elem, v, slot) ==
  LET old == Sload(s, slot)
      at(i) == Plus(Data(slot), i * SlotCount(elem))
      dropped == FoldLeft(LAMBDA u, i : DeleteAgg(u, elem, at(i)), s,
                          From(Len(v), IF old > Len(v) THEN old ELSE Len(v)))
  IN FoldLeft(LAMBDA u, i : IF elem.kind = "fixed" THEN CopyMemArray(u, elem.elem, v[i + 1], at(i))
                            ELSE StoreMem(u, elem, v[i + 1], at(i)),
              Sstore(dropped, slot, Len(v)), From(0, Len(v)))

\* the words of a static value, one per leaf
RECURSIVE Words(_, _)
Words(t, v) == CASE t.kind = "struct" -> FlattenSeq([i \in DOMAIN v |-> Words(t.fields[i], v[i])])
                 [] t.kind = "fixed" -> FlattenSeq([i \in DOMAIN v |-> Words(t.elem, v[i])])
                 [] OTHER -> <<v>>

StoreStaticAgg(s, t, v, slot) ==
  LET words == Words(t, v)
  IN FoldLeft(LAMBDA u, l : StoreState(u, l.type, Plus(slot, l.slot), l.off, words[l.word + 1]),
              s, Leaves(t))

\* storeDynLeafFixedArrayFromMem
StoreDynFixed(s, t, v, slot) ==
  FoldLeft(LAMBDA u, i : StoreMem(u, t.elem, v[i + 1], Plus(slot, i * SlotCount(t.elem))),
           s, From(0, t.len))

\* writeDynStructFromMem, and emitPreparedCtorStore of a constructed struct
StoreFields(s, t, v, slot) ==
  FoldLeft(LAMBDA u, i :
             LET f == t.fields[i]
                 at == Plus(slot, t.places[i].slot)
             IN IF IsValue(f) THEN StoreState(u, f, at, t.places[i].off, v[i])
                ELSE StoreMem(u, f, v[i], at),
           s, From(1, Len(t.fields) + 1))

StoreMem(s, t, v, slot) ==
  CASE t.kind = "bytes" -> StoreStr(s, slot, v)
    [] t.kind = "dyn" /\ IsValue(t.elem) -> CopyMemArray(s, t.elem, v, slot)
    [] t.kind = "dyn" /\ ~IsValue(t.elem) -> CopyMemAgg(s, t.elem, v, slot)
    [] t.kind = "fixed" /\ IsDynamic(t) -> StoreDynFixed(s, t, v, slot)
    [] t.kind = "struct" /\ IsDynamic(t) -> StoreFields(s, t, v, slot)
    [] OTHER -> StoreStaticAgg(s, t, v, slot)

\* the whole values the analyzer lets come from memory
RECURSIVE FromMemory(_)
FromMemory(t) ==
  CASE IsValue(t) \/ t.kind = "bytes" -> TRUE
    [] t.kind = "dyn" -> \/ t.elem.kind # "struct" /\ t.elem.kind # "fixed" /\ FromMemory(t.elem)
                         \/ InlineRows /\ t.elem.kind = "fixed" /\ IsValue(t.elem.elem)
    [] t.kind = "fixed" -> t.elem.kind # "struct" /\ FromMemory(t.elem)
    [] t.kind = "struct" -> \A i \in DOMAIN t.fields :
                              /\ FromMemory(t.fields[i])
                              /\ t.fields[i].kind = "dyn" => t.fields[i].elem.kind # "fixed"
    [] t.kind = "map" -> FALSE

\* The image of an array of fixed rows holds the rows themselves; a word of a
\* row taken for a pointer leads into memory that was never an array.
Seen(t, v, stray) ==
  IF t.kind = "dyn" /\ t.elem.kind = "fixed" THEN [i \in DOMAIN v |-> stray] ELSE v

-----------------------------------------------------------------------------
(* Statements.                                                               *)

\* lowerPlace, structArrayElemSlot, strArrayElemSlot: one step of a path
Step(s, p, i) ==
  CASE p.t.kind = "struct" -> [p EXCEPT !.t = p.t.fields[i], !.off = p.t.places[i].off,
                                        !.slot = Plus(@, p.t.places[i].slot)]
    [] p.t.kind = "map" -> [p EXCEPT !.t = p.t.elem, !.slot = OfKey(@, i), !.off = 0]
    [] OTHER ->
         LET data == IF p.t.kind = "dyn" THEN Data(p.slot) ELSE p.slot
             n == IF p.t.kind = "dyn" THEN Sload(s, p.slot) ELSE p.t.len
             e == p.t.elem
         IN [t |-> e, ok |-> p.ok /\ i < n,
             slot |-> IF IsValue(e) THEN ElemSlot(e, data, i) ELSE Plus(data, i * SlotCount(e)),
             off |-> ElemOff(e, i)]

Place(s, root, path) ==
  FoldLeft(LAMBDA p, i : Step(s, p, i), [t |-> root, slot |-> Base, off |-> 0, ok |-> TRUE], path)

\* a value from memory, built in place, or from another place of storage
StoreGiven(s, p, r, src) ==
  LET value == Sample(p.t, r.n, r.k)
  IN CASE IsValue(p.t) -> StoreState(s, p.t, p.slot, p.off, value)
       [] r.how = "storage" -> Copy(s, p.t, src.slot, p.slot)
       [] r.how = "built" -> StoreFields(s, p.t, value, p.slot)
       [] OTHER -> StoreMem(s, p.t, Seen(p.t, value, r.stray), p.slot)

\* lowerPush and its kin: the length grows, then the new element is written;
\* without an argument only a struct's slots are
PushAt(s, p, r, src) ==
  LET n == Sload(s, p.slot)
      e == p.t.elem
      grown == Sstore(s, p.slot, n + 1)
      new == Step(grown, [p EXCEPT !.ok = TRUE], n)
  IN CASE r.how = "none" /\ IsValue(e) -> ArrayElemStore(grown, e, Data(p.slot), n, 0)
       [] r.how = "none" /\ e.kind = "struct" -> Clear(grown, new.slot, 0, SlotCount(e))
       [] r.how = "none" /\ ~IsValue(e) /\ e.kind # "struct" -> grown
       [] OTHER -> StoreGiven(grown, new, r, src)

\* lowerPop, lowerStructPop, lowerStrPop
PopAt(s, p) ==
  LET n == Sload(s, p.slot) - 1
      e == p.t.elem
      less == Sstore(s, p.slot, n)
      at == Plus(Data(p.slot), n * SlotCount(e))
  IN CASE IsValue(e) -> ArrayElemStore(less, e, Data(p.slot), n, 0)
       [] ~IsValue(e) /\ IsDynamic(e) -> DeleteAgg(less, e, at)
       [] OTHER -> Clear(less, at, 0, SlotCount(e))

\* the call in the expression of a value
Variable(s, t, r) == Place(s, Root(t), <<r.at[1]>>)

CallReverts(s, t, r) == r.during = "shrink" /\ Sload(s, Variable(s, t, r).slot) = 0

AfterCall(s, t, r) ==
  CASE r.during = "grow" -> PushAt(s, Variable(s, t, r), [how |-> "none"], {})
    [] r.during = "shrink" -> PopAt(s, Variable(s, t, r))
    [] OTHER -> s

\* whether the location is found before the value is evaluated: the array of a
\* push, and a dynamic array that is assigned whole
LocatedFirst(t, r) == r.op = "push" \/ TypeAt(Root(t), r.at).kind = "dyn"

EmptyPop(s, r, p) == r.op = "pop" /\ Sload(s, p.slot) = 0

\* push, pop, assign and delete: at p, with a value from src
ExecuteAt(s, r, p, src) ==
  CASE r.op = "push" -> PushAt(s, p, r, src)
    [] r.op = "pop" -> PopAt(s, p)
    [] r.op = "assign" -> StoreGiven(s, p, r, src)
    [] r.op = "delete" -> DeleteAgg(s, p.t, p.slot)

\* the location is found before or after the value
ExecuteWith(s, called, t, r) ==
  LET p == Place(IF LocatedFirst(t, r) THEN s ELSE called, Root(t), r.at)
      src == IF r.how = "storage" THEN Place(called, Root(t), r.from) ELSE p
  IN IF CallReverts(s, t, r) \/ ~p.ok \/ ~src.ok \/ EmptyPop(s, r, p) THEN s
     ELSE ExecuteAt(called, r, p, src)

Execute(s, t, r) == ExecuteWith(s, AfterCall(s, t, r), t, r)

-----------------------------------------------------------------------------
(* The statements of a contract: what is written where.                      *)

RECURSIVE PathsIn(_, _)
PathsIn(t, longest) ==
  {<<>>} \cup UNION
    { { <<i>> \o p : p \in PathsIn(Part(t, i), longest) } :
        i \in CASE t.kind = "struct" -> DOMAIN t.fields
                [] t.kind = "dyn" -> 0 .. longest
                [] t.kind = "fixed" -> 0 .. t.len
                [] t.kind = "map" -> 1 .. Keys
                [] OTHER -> {} }

\* parts of the two variables of the type
PathTable == [t \in Types |-> { <<i>> \o p : i \in {2, 3}, p \in PathsIn(t, MaxLen[t]) }]
Paths(t) == PathTable[t]

\* the parts a statement is about: all of the first variable, the second whole
Targets(t) == { p \in Paths(t) : p[1] = 2 \/ Len(p) = 1 }

RECURSIVE HasMap(_)
HasMap(t) == CASE t.kind = "map" -> TRUE
               [] t.kind \in {"dyn", "fixed"} -> HasMap(t.elem)
               [] t.kind = "struct" -> \E i \in DOMAIN t.fields : HasMap(t.fields[i])
               [] OTHER -> FALSE

Request(op, at, how, n, k, from, during, stray) ==
  [op |-> op, at |-> at, how |-> how, n |-> n, k |-> k, from |-> from,
   during |-> during, stray |-> stray]

\* what a call may do before the value is there: nothing that moves the part
\* already located, unless Dangling
EffectsFor(t, op, at) ==
  IF TypeAt(Root(t), <<at[1]>>).kind # "dyn" THEN {"none"}
  ELSE LET first == op = "push" \/ TypeAt(Root(t), at).kind = "dyn"
       IN { e \in Effects : e = "none" \/ Dangling \/ ~first \/ Len(at) = 1
                            \/ (op = "push" /\ e = "grow") }

\* the ways a value of type t gets to a part
WaysOf(t, op, at, u) ==
  UNION {
    { Request(op, at, how, n, k, <<>>, e, x) :
        how \in IF u.kind = "struct" THEN {"memory", "built"} ELSE {"memory"},
        n \in IF FromMemory(u) THEN 0 .. MaxLen[t] ELSE {}, k \in {1, 2},
        e \in EffectsFor(t, op, at),
        x \in IF InlineRows THEN {<<>>, <<1>>} ELSE {<<>>} },
    { Request(op, at, "storage", 0, 0, q, "none", <<>>) :
        q \in { q \in Paths(t) : ~IsValue(u) /\ ~HasMap(u) /\ TypeAt(Root(t), q) = u } } }

Pushes(t) ==
  UNION { LET e == TypeAt(Root(t), p).elem
          IN WaysOf(t, "push", p, e) \cup { Request("push", p, "none", 0, 0, <<>>, "none", <<>>) }
          : p \in { p \in Targets(t) : TypeAt(Root(t), p).kind = "dyn" } }

Pops(t) == { Request("pop", p, "none", 0, 0, <<>>, "none", <<>>) :
             p \in { p \in Targets(t) : TypeAt(Root(t), p).kind = "dyn" } }

Assigns(t) == UNION { WaysOf(t, "assign", p, TypeAt(Root(t), p)) : p \in Targets(t) }

Deletes(t) ==
  { Request("delete", p, "none", 0, 0, <<>>, "none", <<>>) :
    p \in { p \in Targets(t) : TypeAt(Root(t), p).kind # "map" /\ ~IsValue(TypeAt(Root(t), p)) } }

PushTable == [t \in Types |-> Pushes(t)]
PopTable == [t \in Types |-> Pops(t)]
AssignTable == [t \in Types |-> Assigns(t)]
DeleteTable == [t \in Types |-> Deletes(t)]

-----------------------------------------------------------------------------
(* The value kept in storage.                                                *)

RECURSIVE Decode(_, _, _, _)
Decode(s, t, slot, off) ==
  CASE IsValue(t) -> LoadState(s, t, slot, off)
    [] t.kind = "bytes" -> BytesIn(s, slot)
    [] t.kind = "struct" -> [i \in DOMAIN t.fields |->
                               Decode(s, t.fields[i], Plus(slot, t.places[i].slot), t.places[i].off)]
    [] t.kind = "map" -> [k \in 1 .. Keys |-> Decode(s, t.elem, OfKey(slot, k), 0)]
    [] OTHER -> [i \in 1 .. (IF t.kind = "dyn" THEN Sload(s, slot) ELSE t.len) |->
                   LET p == Step(s, [t |-> t, slot |-> slot, off |-> 0, ok |-> TRUE], i - 1)
                   IN Decode(s, t.elem, p.slot, p.off)]

Values(s) == Decode(s, Root(type), Base, 0)

RECURSIVE LongIn(_, _)
LongIn(t, v) ==
  CASE t.kind \in {"dyn", "fixed"} -> \/ Len(v) > MaxLen[type] /\ t.kind = "dyn"
                                      \/ \E i \in DOMAIN v : LongIn(t.elem, v[i])
    [] t.kind = "struct" -> \E i \in DOMAIN v : LongIn(t.fields[i], v[i])
    [] OTHER -> FALSE

\* bound: no array grows past MaxLen elements, storage past MaxWords words
Bounded(s) == Cardinality(DOMAIN s) <= MaxWords[type] /\ ~LongIn(Root(type), Values(s))

Run(r) == /\ st' = Execute(st, type, r)
          /\ Bounded(st')
          /\ UNCHANGED type

Push == \E r \in PushTable[type] : Run(r)
Pop == \E r \in PopTable[type] : Run(r)
Assign == \E r \in AssignTable[type] : Run(r)
Delete == \E r \in DeleteTable[type] : Run(r)

\* the packed variables on both sides hold a value of their own
Init == /\ type \in Types
        /\ st = StoreState(StoreState(<<>>, Uint(1), Base, 0, Beside), Uint(2),
                           Plus(Base, Root(type).places[4].slot), 0, Beside)

Next == Push \/ Pop \/ Assign \/ Delete

Spec == Init /\ [][Next]_vars

-----------------------------------------------------------------------------
TypeOK == /\ type \in Types
          /\ \A k \in DOMAIN st : k \in Seq(Nat) /\ st[k] \in 1 .. 2^Lanes - 1

\* the words that a value of type t at a place is made of
RECURSIVE Amounts(_, _, _, _)
Amounts(t, v, slot, off) ==
  CASE IsValue(t) -> << <<slot, v * 2^off>> >>
    [] t.kind = "bytes" -> << <<slot, Header(v)>> >>
                           \o [i \in 1 .. (IF v > 1 THEN v - 1 ELSE 0) |->
                                 <<Plus(Data(slot), i - 1), v>>]
    [] t.kind = "struct" -> FlattenSeq([i \in DOMAIN v |->
                              Amounts(t.fields[i], v[i], Plus(slot, t.places[i].slot), t.places[i].off)])
    [] t.kind = "map" -> FlattenSeq([k \in DOMAIN v |-> Amounts(t.elem, v[k], OfKey(slot, k), 0)])
    [] OTHER ->
         LET data == IF t.kind = "dyn" THEN Data(slot) ELSE slot
             of(i) == IF IsValue(t.elem)
                      THEN Amounts(t.elem, v[i], ElemSlot(t.elem, data, i - 1), ElemOff(t.elem, i - 1))
                      ELSE Amounts(t.elem, v[i], Plus(data, (i - 1) * SlotCount(t.elem)), 0)
         IN FlattenSeq([i \in DOMAIN v |-> of(i)])
            \o (IF t.kind = "dyn" THEN << <<slot, Len(v)>> >> ELSE <<>>)

Laid(t, v) ==
  LET parts == Amounts(t, v, Base, 0)
      word(k) == FoldLeft(LAMBDA n, p : IF p[1] = k THEN n + p[2] ELSE n, 0, parts)
      slots == { p[1] : p \in { p \in ToSet(parts) : p[2] # 0 } }
  IN [k \in slots |-> word(k)]

\* Storage holds the variables' values and not one word more, whatever longer
\* or deeper values were there before (pop, delete and the copies clear what
\* is left behind, yul.ts lowerPop, deleteAgg, copyArray).
NothingLeftBehind == TypeOK /\ st = Laid(Root(type), Values(st))

Requests == PushTable[type] \cup PopTable[type] \cup AssignTable[type] \cup DeleteTable[type]

\* Every statement changes the part it names as its type's values change, and
\* neither another part, nor the other variable, nor the packed neighbours;
\* one that panics changes nothing.
StatementsKeepValues ==
  LET v == Values(st)
  IN \A r \in Requests : Values(Execute(st, type, r)) = After(Root(type), v, r)

\* An assignment evaluates its value before it finds the location, so a call
\* that moves the location is seen (yul.ts "solc evaluates the RHS before the
\* LHS location (incl its index)").
ValueBeforeLocation ==
  LET v == Values(st)
  IN \A r \in AssignTable[type] :
       r.during # "none" => Values(Execute(st, type, r)) = After(Root(type), v, r)

\* An array of fixed rows assigned from memory is the array kept, whatever the
\* memory a row's first word would point to holds (yul.ts copyArrayValueInto-
\* Storage, "Deep-copy it recursively into storage").
RowsFromMemory ==
  LET v == Values(st)
  IN \A r \in AssignTable[type] :
       r.how = "memory" => Values(Execute(st, type, r)) = After(Root(type), v, r)
=============================================================================
