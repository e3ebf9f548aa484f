-------------------------- MODULE DiamondPackedProofs --------------------------
(***************************************************************************)
(* Proofs about the two diamonds that pack their selectors, DiamondPacked  *)
(* and DiamondSolidstate, for every set of selectors and addresses, every  *)
(* number of selectors to a slot and every depth of nested calls.  One     *)
(* invariant holds for the steps of both; what only one of them keeps is   *)
(* an invariant beside it.                                                 *)
(***************************************************************************)
EXTENDS DiamondSolidstate, SequenceTheorems, WellFoundedInduction, TLAPS

--------------------------------------------------------------------------------
(* Places in the slots. *)

\* A number is found again from its slot and its place there.
LEMMA Division ==
  ASSUME NEW i \in Nat
  PROVE  /\ SlotOf(i) \in Nat
         /\ PlaceOf(i) \in 0..(SelectorsPerSlot - 1)
         /\ i = SelectorsPerSlot * SlotOf(i) + PlaceOf(i)
  BY PackedAssumption DEF SlotOf, PlaceOf

\* It is the only such number.
LEMMA DivisionUnique ==
  ASSUME NEW q \in Nat, NEW r \in 0..(SelectorsPerSlot - 1),
         NEW k \in Nat, NEW p \in 0..(SelectorsPerSlot - 1),
         SelectorsPerSlot * q + r = SelectorsPerSlot * k + p
  PROVE  q = k /\ r = p
  BY PackedAssumption

\* Slots of different numbers lie a whole slot apart.
LEMMA SlotsApart ==
  ASSUME NEW q \in Nat, NEW k \in Nat, q < k
  PROVE  SelectorsPerSlot * q + SelectorsPerSlot <= SelectorsPerSlot * k
<1>1. SelectorsPerSlot \in Nat
  BY PackedAssumption
<1>2. k = q + 1 + (k - q - 1) /\ k - q - 1 \in Nat
  OBVIOUS
<1>3. \A m \in Nat : SelectorsPerSlot * (q + 1 + m) = SelectorsPerSlot * q + SelectorsPerSlot + SelectorsPerSlot * m
  BY <1>1
<1>4. SelectorsPerSlot * (k - q - 1) \in Nat
  BY <1>1, <1>2
<1>5. SelectorsPerSlot * k = SelectorsPerSlot * q + SelectorsPerSlot + SelectorsPerSlot * (k - q - 1)
  BY <1>2, <1>3
<1>6. SelectorsPerSlot * q \in Nat
  BY <1>1
<1> QED
  BY <1>1, <1>4, <1>5, <1>6

LEMMA SlotsAreOrdered ==
  ASSUME NEW i \in Nat, NEW j \in Nat, i <= j
  PROVE  SlotOf(i) <= SlotOf(j)
<1> DEFINE q == SlotOf(i)
           k == SlotOf(j)
<1>1. /\ q \in Nat /\ PlaceOf(i) \in 0..(SelectorsPerSlot - 1)
      /\ i = SelectorsPerSlot * q + PlaceOf(i)
      /\ k \in Nat /\ PlaceOf(j) \in 0..(SelectorsPerSlot - 1)
      /\ j = SelectorsPerSlot * k + PlaceOf(j)
  BY Division
<1> HIDE DEF q, k
<1>2. k < q => SelectorsPerSlot * k + SelectorsPerSlot <= SelectorsPerSlot * q
  BY <1>1, SlotsApart
<1>3. SelectorsPerSlot * k \in Nat /\ SelectorsPerSlot * q \in Nat /\ SelectorsPerSlot \in Nat
  BY <1>1, PackedAssumption
<1>4. ~(k < q)
  BY <1>1, <1>2, <1>3
<1> QED
  BY <1>1, <1>4 DEF q, k

\* The slots of the store are enough for every number up to the bound.
LEMMA SlotExists ==
  ASSUME NEW i \in 0..MaxSelectors
  PROVE  SlotOf(i) \in SlotIndex
<1>1. i \in Nat /\ MaxSelectors \in Nat /\ i <= MaxSelectors
  BY PackedAssumption
<1>2. SlotOf(i) \in Nat /\ SlotOf(MaxSelectors) \in Nat /\ SlotOf(i) <= SlotOf(MaxSelectors)
  BY <1>1, Division, SlotsAreOrdered
<1> QED
  BY <1>2 DEF SlotIndex, SlotOf

\* Two numbers with the same slot and the same place are one.
LEMMA PlacesDiffer ==
  ASSUME NEW i \in Nat, NEW j \in Nat, SlotOf(i) = SlotOf(j), PlaceOf(i) = PlaceOf(j)
  PROVE  i = j
<1>1. /\ i = SelectorsPerSlot * SlotOf(i) + PlaceOf(i)
      /\ j = SelectorsPerSlot * SlotOf(j) + PlaceOf(j)
  BY Division
<1> QED
  BY <1>1

\* The next number stands beside this one, or first in the next slot.
LEMMA NextPlace ==
  ASSUME NEW n \in Nat
  PROVE  IF PlaceOf(n) = SelectorsPerSlot - 1
         THEN PlaceOf(n + 1) = 0 /\ SlotOf(n + 1) = SlotOf(n) + 1
         ELSE PlaceOf(n + 1) = PlaceOf(n) + 1 /\ SlotOf(n + 1) = SlotOf(n)
<1> DEFINE q == SlotOf(n)
           r == PlaceOf(n)
           k == SlotOf(n + 1)
           p == PlaceOf(n + 1)
<1>1. /\ q \in Nat /\ r \in 0..(SelectorsPerSlot - 1) /\ n = SelectorsPerSlot * q + r
      /\ k \in Nat /\ p \in 0..(SelectorsPerSlot - 1) /\ n + 1 = SelectorsPerSlot * k + p
  BY Division
<1>2. SelectorsPerSlot \in Nat \ {0}
  BY PackedAssumption
<1> HIDE DEF q, r, k, p
<1>3. SelectorsPerSlot * q \in Nat /\ SelectorsPerSlot * (q + 1) = SelectorsPerSlot * q + SelectorsPerSlot
  BY <1>1, <1>2
<1>4. CASE r = SelectorsPerSlot - 1
  <2>1. SelectorsPerSlot * (q + 1) + 0 = SelectorsPerSlot * k + p
    BY <1>1, <1>2, <1>3, <1>4
  <2>2. q + 1 \in Nat /\ 0 \in 0..(SelectorsPerSlot - 1)
    BY <1>1, <1>2
  <2>3. q + 1 = k /\ 0 = p
    BY <1>1, <2>1, <2>2, DivisionUnique
  <2> QED
    BY <1>4, <2>3 DEF q, r, k, p
<1>5. CASE r # SelectorsPerSlot - 1
  <2>1. SelectorsPerSlot * q + (r + 1) = SelectorsPerSlot * k + p
    BY <1>1, <1>2, <1>3
  <2>2. r + 1 \in 0..(SelectorsPerSlot - 1)
    BY <1>1, <1>2, <1>5
  <2>3. q = k /\ r + 1 = p
    BY <1>1, <2>1, <2>2, DivisionUnique
  <2> QED
    BY <1>5, <2>3 DEF q, r, k, p
<1> QED
  BY <1>4, <1>5

\* A number that stands first in its slot has no smaller one beside it.
LEMMA FirstInSlot ==
  ASSUME NEW n \in Nat, PlaceOf(n) = 0
  PROVE  /\ SelectorsPerSlot * SlotOf(n) = n
         /\ \A i \in Nat : i < n => SlotOf(i) # SlotOf(n)
<1> DEFINE m == SelectorsPerSlot * SlotOf(n)
<1>1. SlotOf(n) \in Nat /\ n = m + PlaceOf(n)
  BY Division
<1>2. m \in Nat
  BY <1>1, PackedAssumption
<1> HIDE DEF m
<1>3. m = n
  BY <1>1, <1>2
<1>4. ASSUME NEW i \in Nat, SlotOf(i) = SlotOf(n)
      PROVE  ~(i < n)
  <2>1. i = SelectorsPerSlot * SlotOf(i) + PlaceOf(i) /\ PlaceOf(i) \in 0..(SelectorsPerSlot - 1)
    BY Division
  <2>2. i = m + PlaceOf(i)
    BY <1>4, <2>1 DEF m
  <2> QED
    BY <1>2, <1>3, <2>1, <2>2, PackedAssumption
<1> QED
  BY <1>3, <1>4 DEF m

--------------------------------------------------------------------------------
(* The table that records and slots make together.  The operators take the *)
(* storage, the count and the slots apart: inside diamondCut the count and *)
(* one of the slots are locals.                                            *)

PackedStorage ==
  [owner : RoleHolder, frozen : BOOLEAN, facet : [Selector -> Facet], pos : [Selector -> Nat],
   slots : [SlotIndex -> Slot], count : 0..MaxSelectors]
SolidstateStorage ==
  [owner : RoleHolder, frozen : BOOLEAN, facet : [Selector -> Facet], pos : [Selector -> Nat],
   slots : [SlotIndex -> Slot], count : 0..MaxSelectors,
   nominee : RoleHolder, fallback : RoleHolder]
Storage == PackedStorage \union SolidstateStorage

At(slots, i) == slots[SlotOf(i)][PlaceOf(i)]

Table(d, n, slots) ==
  /\ Indexed(d, n, slots)
  /\ \A s \in Selector : d.facet[s] = Zero => d.pos[s] = 0
  /\ \A s \in Selector : d.facet[s] \in HasCode \union {Zero}

\* The same, entry by entry: what stands at a place has that place on record, and
\* what is on record stands at its place.
Entries(d, n, slots) ==
  /\ \A i \in 0..(n - 1) : /\ At(slots, i) \in Selector
                           /\ d.facet[At(slots, i)] # Zero
                           /\ d.pos[At(slots, i)] = i
  /\ \A s \in Selector : d.facet[s] # Zero =>
       /\ d.pos[s] \in 0..(n - 1) /\ At(slots, d.pos[s]) = s
  /\ \A s \in Selector : d.facet[s] = Zero => d.pos[s] = 0
  /\ \A s \in Selector : d.facet[s] \in HasCode \union {Zero}

LEMMA FieldsTyped ==
  ASSUME NEW d \in Storage
  PROVE  /\ d.owner \in RoleHolder /\ d.frozen \in BOOLEAN
         /\ d.facet \in [Selector -> Facet] /\ d.pos \in [Selector -> Nat]
         /\ d.slots \in [SlotIndex -> Slot] /\ d.count \in 0..MaxSelectors
  BY DEF Storage, PackedStorage, SolidstateStorage

LEMMA TableEntries ==
  ASSUME NEW d \in Storage, NEW n \in 0..MaxSelectors, NEW slots \in [SlotIndex -> Slot]
  PROVE  Table(d, n, slots) <=> Entries(d, n, slots)
<1>1. n \in Nat /\ n <= MaxSelectors /\ MaxSelectors \in Nat
  BY PackedAssumption
<1>2. \A i \in 0..(n - 1) : At(slots, i) \in Selector
  <2> SUFFICES ASSUME NEW i \in 0..(n - 1) PROVE At(slots, i) \in Selector
    OBVIOUS
  <2>1. i \in 0..MaxSelectors /\ i \in Nat
    BY <1>1
  <2>2. SlotOf(i) \in SlotIndex /\ PlaceOf(i) \in 0..(SelectorsPerSlot - 1)
    BY <2>1, SlotExists, Division
  <2> QED
    BY <2>2 DEF At, Slot
<1>3. \A s \in Selector : d.pos[s] \in Nat
  BY FieldsTyped
<1>4. \A s \in Selector : d.pos[s] < n <=> d.pos[s] \in 0..(n - 1)
  BY <1>1, <1>3
<1> QED
  BY <1>2, <1>4 DEF Table, Indexed, At, Entries

\* What the table says depends on the records and on the places below the count.
LEMMA TableSame ==
  ASSUME NEW d \in Storage, NEW e \in Storage, NEW n \in 0..MaxSelectors,
         NEW slots \in [SlotIndex -> Slot], NEW slots2 \in [SlotIndex -> Slot],
         e.facet = d.facet, e.pos = d.pos,
         \A i \in 0..(n - 1) : At(slots2, i) = At(slots, i),
         Table(d, n, slots)
  PROVE  Table(e, n, slots2)
<1>1. Table(e, n, slots)
  BY DEF Table, Indexed
<1> QED
  BY <1>1, TableEntries DEF Entries

\* What the three edits write, in the records and in the slots.
RecordAdded(d, e, n, s, f) ==
  e.facet = [d.facet EXCEPT ![s] = f] /\ e.pos = [d.pos EXCEPT ![s] = n]
RecordMoved(d, e, s, f) ==
  e.facet = [d.facet EXCEPT ![s] = f] /\ e.pos = d.pos
RecordRemoved(d, e, s, last) ==
  /\ e.facet = [d.facet EXCEPT ![s] = Zero]
  /\ e.pos = [d.pos EXCEPT ![last] = d.pos[s], ![s] = 0]
PlaceAdded(slots, slots2, n, s) ==
  \A i \in 0..n : At(slots2, i) = IF i = n THEN s ELSE At(slots, i)
PlaceRemoved(slots, slots2, n, gap, last) ==
  \A i \in 0..(n - 1) : At(slots2, i) = IF i = gap THEN last ELSE At(slots, i)

\* Add: the new selector gets the next number.
LEMMA TableAdd ==
  ASSUME NEW d \in Storage, NEW e \in Storage, NEW n \in 0..(MaxSelectors - 1),
         NEW slots \in [SlotIndex -> Slot], NEW slots2 \in [SlotIndex -> Slot],
         Table(d, n, slots),
         NEW s \in Selector, d.facet[s] = Zero, NEW f \in HasCode,
         RecordAdded(d, e, n, s, f), PlaceAdded(slots, slots2, n, s)
  PROVE  Table(e, n + 1, slots2)
<1> USE DEF RecordAdded, PlaceAdded
<1>1. n \in Nat /\ n + 1 \in 0..MaxSelectors /\ n \in 0..MaxSelectors /\ n + 1 - 1 = n
  BY PackedAssumption
<1>2. /\ \A i \in 0..(n - 1) : /\ At(slots, i) \in Selector
                               /\ d.facet[At(slots, i)] # Zero
                               /\ d.pos[At(slots, i)] = i
      /\ \A t \in Selector : d.facet[t] # Zero =>
           /\ d.pos[t] \in 0..(n - 1) /\ At(slots, d.pos[t]) = t
      /\ \A t \in Selector : d.facet[t] = Zero => d.pos[t] = 0
      /\ \A t \in Selector : d.facet[t] \in HasCode \union {Zero}
  BY <1>1, TableEntries DEF Entries
<1>3. /\ e.facet[s] = f /\ e.pos[s] = n /\ f # Zero
      /\ \A t \in Selector : t # s => e.facet[t] = d.facet[t] /\ e.pos[t] = d.pos[t]
  BY PackedAssumption, FieldsTyped
<1>4. ASSUME NEW i \in 0..n
      PROVE  At(slots2, i) \in Selector /\ e.facet[At(slots2, i)] # Zero /\ e.pos[At(slots2, i)] = i
  <2>1. CASE i = n
    BY <1>3, <2>1
  <2>2. CASE i # n
    <3>1. i \in 0..(n - 1)
      BY <1>1, <2>2
    <3>2. At(slots2, i) = At(slots, i) /\ At(slots, i) # s
      BY <1>2, <2>2, <3>1
    <3> QED
      BY <1>2, <1>3, <3>1, <3>2
  <2> QED
    BY <2>1, <2>2
<1>5. ASSUME NEW t \in Selector, e.facet[t] # Zero
      PROVE  e.pos[t] \in 0..n /\ At(slots2, e.pos[t]) = t
  <2>1. CASE t = s
    BY <1>1, <1>3, <2>1
  <2>2. CASE t # s
    <3>1. e.pos[t] = d.pos[t] /\ d.pos[t] \in 0..(n - 1) /\ At(slots, d.pos[t]) = t
      BY <1>2, <1>3, <1>5, <2>2
    <3>2. d.pos[t] \in 0..n /\ d.pos[t] # n
      BY <1>1, <3>1
    <3> QED
      BY <3>1, <3>2
  <2> QED
    BY <2>1, <2>2
<1>6. \A t \in Selector : /\ e.facet[t] = Zero => e.pos[t] = 0
                          /\ e.facet[t] \in HasCode \union {Zero}
  BY <1>2, <1>3
<1>7. Entries(e, n + 1, slots2)
  BY <1>1, <1>4, <1>5, <1>6 DEF Entries
<1> QED
  BY <1>1, <1>7, TableEntries

\* Replace: the facet changes, the place does not.
LEMMA TableReplace ==
  ASSUME NEW d \in Storage, NEW e \in Storage, NEW n \in 0..MaxSelectors,
         NEW slots \in [SlotIndex -> Slot], Table(d, n, slots),
         NEW s \in Selector, d.facet[s] # Zero, NEW f \in HasCode,
         RecordMoved(d, e, s, f)
  PROVE  Table(e, n, slots)
<1> USE DEF RecordMoved
<1>1. f # Zero /\ e.facet[s] = f /\ \A t \in Selector : t # s => e.facet[t] = d.facet[t]
  BY PackedAssumption, FieldsTyped
<1>2. \A t \in Selector : e.facet[t] = Zero <=> d.facet[t] = Zero
  BY <1>1
<1>3. Entries(d, n, slots)
  BY TableEntries
<1>4. Entries(e, n, slots)
  BY <1>1, <1>2, <1>3 DEF Entries
<1> QED
  BY <1>4, TableEntries

\* Remove: the last selector takes the place of the one that goes.
LEMMA TableRemove ==
  ASSUME NEW d \in Storage, NEW e \in Storage, NEW n \in 0..(MaxSelectors - 1),
         NEW slots \in [SlotIndex -> Slot], NEW slots2 \in [SlotIndex -> Slot],
         Table(d, n + 1, slots),
         NEW s \in Selector, d.facet[s] # Zero, NEW last, last = At(slots, n),
         RecordRemoved(d, e, s, last), PlaceRemoved(slots, slots2, n, d.pos[s], last)
  PROVE  Table(e, n, slots2)
<1> USE DEF RecordRemoved, PlaceRemoved
<1>1. n \in Nat /\ n + 1 \in 0..MaxSelectors /\ n \in 0..MaxSelectors /\ n + 1 - 1 = n
  BY PackedAssumption
<1>2. /\ \A i \in 0..n : /\ At(slots, i) \in Selector
                         /\ d.facet[At(slots, i)] # Zero
                         /\ d.pos[At(slots, i)] = i
      /\ \A t \in Selector : d.facet[t] # Zero =>
           /\ d.pos[t] \in 0..n /\ At(slots, d.pos[t]) = t
      /\ \A t \in Selector : d.facet[t] = Zero => d.pos[t] = 0
      /\ \A t \in Selector : d.facet[t] \in HasCode \union {Zero}
  BY <1>1, TableEntries DEF Entries
<1> DEFINE gap == d.pos[s]
<1>3. last \in Selector /\ d.facet[last] # Zero /\ d.pos[last] = n /\ gap \in 0..n
  BY <1>1, <1>2
<1>4. /\ e.facet[s] = Zero /\ e.pos[s] = 0 /\ (last # s => e.pos[last] = gap)
      /\ \A t \in Selector : t # s => e.facet[t] = d.facet[t]
      /\ \A t \in Selector : t # s /\ t # last => e.pos[t] = d.pos[t]
  BY <1>3, FieldsTyped
<1>5. gap = n <=> last = s
  BY <1>2, <1>3
<1>6. ASSUME NEW i \in 0..(n - 1)
      PROVE  At(slots2, i) \in Selector /\ e.facet[At(slots2, i)] # Zero /\ e.pos[At(slots2, i)] = i
  <2>1. i \in 0..n /\ i # n
    BY <1>1
  <2>2. CASE i = gap
    <3>1. last # s /\ At(slots2, i) = last
      BY <1>5, <2>1, <2>2
    <3> QED
      BY <1>3, <1>4, <2>2, <3>1
  <2>3. CASE i # gap
    <3>1. At(slots2, i) = At(slots, i) /\ At(slots, i) # s /\ At(slots, i) # last
      BY <1>2, <1>3, <2>1, <2>3
    <3> QED
      BY <1>2, <1>4, <2>1, <3>1
  <2> QED
    BY <2>2, <2>3
<1>7. ASSUME NEW t \in Selector, e.facet[t] # Zero
      PROVE  e.pos[t] \in 0..(n - 1) /\ At(slots2, e.pos[t]) = t
  <2>1. t # s /\ d.facet[t] # Zero
    BY <1>4, <1>7
  <2>2. CASE t = last
    <3>1. e.pos[t] = gap /\ gap # n
      BY <1>4, <1>5, <2>1, <2>2
    <3>2. gap \in 0..(n - 1)
      BY <1>1, <1>3, <3>1
    <3> QED
      BY <2>2, <3>1, <3>2
  <2>3. CASE t # last
    <3>1. e.pos[t] = d.pos[t] /\ d.pos[t] \in 0..n /\ At(slots, d.pos[t]) = t
      BY <1>2, <1>4, <2>1, <2>3
    <3>2. d.pos[t] # n /\ d.pos[t] # gap
      BY <1>2, <2>1, <2>3, <3>1
    <3>3. d.pos[t] \in 0..(n - 1)
      BY <1>1, <3>1, <3>2
    <3> QED
      BY <3>1, <3>2, <3>3
  <2> QED
    BY <2>2, <2>3
<1>8. \A t \in Selector : /\ e.facet[t] = Zero => e.pos[t] = 0
                          /\ e.facet[t] \in HasCode \union {Zero}
  BY <1>2, <1>4, <1>3
<1>9. Entries(e, n, slots2)
  BY <1>6, <1>7, <1>8 DEF Entries
<1> QED
  BY <1>1, <1>9, TableEntries

--------------------------------------------------------------------------------
(* The slots while diamondCut holds one of them in a local. *)

View(slots, n, slot) == [slots EXCEPT ![SlotOf(n)] = slot]

LEMMA EmptyIsSlot == EmptySlot \in Slot
  BY PackedAssumption DEF EmptySlot, Slot

LEMMA InsertIsSlot ==
  ASSUME NEW slot \in Slot, NEW i \in Nat, NEW s \in Selector
  PROVE  /\ Insert(slot, i, s) \in Slot
         /\ \A p \in 0..(SelectorsPerSlot - 1) :
              Insert(slot, i, s)[p] = IF p = PlaceOf(i) THEN s ELSE slot[p]
  BY DEF Insert, Slot

LEMMA ViewIsSlots ==
  ASSUME NEW n \in 0..MaxSelectors, NEW slots \in [SlotIndex -> Slot], NEW slot \in Slot
  PROVE  View(slots, n, slot) \in [SlotIndex -> Slot]
  BY DEF View

LEMMA ViewAt ==
  ASSUME NEW n \in 0..MaxSelectors, NEW slots \in [SlotIndex -> Slot], NEW slot \in Slot,
         NEW i \in 0..MaxSelectors
  PROVE  At(View(slots, n, slot), i)
           = IF SlotOf(i) = SlotOf(n) THEN slot[PlaceOf(i)] ELSE At(slots, i)
<1>1. SlotOf(n) \in SlotIndex /\ SlotOf(i) \in SlotIndex
  BY SlotExists
<1> QED
  BY <1>1 DEF View, At

\* diamondCut starts with the places below the count as they are stored.
LEMMA ViewOfStored ==
  ASSUME NEW n \in 0..MaxSelectors, NEW slots \in [SlotIndex -> Slot],
         NEW slot, slot = IF PlaceOf(n) > 0 THEN slots[SlotOf(n)] ELSE EmptySlot
  PROVE  slot \in Slot /\ \A i \in 0..(n - 1) : At(View(slots, n, slot), i) = At(slots, i)
<1>1. SlotOf(n) \in SlotIndex /\ n \in Nat
  BY SlotExists, PackedAssumption
<1>2. slot \in Slot /\ PlaceOf(n) \in Nat
  BY <1>1, EmptyIsSlot, Division, PackedAssumption
<1>3. ASSUME NEW i \in 0..(n - 1)
      PROVE  At(View(slots, n, slot), i) = At(slots, i)
  <2>1. i \in 0..MaxSelectors /\ i \in Nat /\ i < n
    BY <1>1, PackedAssumption
  <2>2. At(View(slots, n, slot), i)
          = IF SlotOf(i) = SlotOf(n) THEN slot[PlaceOf(i)] ELSE At(slots, i)
    BY <1>2, <2>1, ViewAt
  <2>3. SlotOf(i) = SlotOf(n) => PlaceOf(n) > 0
    BY <1>1, <1>2, <2>1, FirstInSlot
  <2> QED
    BY <2>2, <2>3 DEF At
<1> QED
  BY <1>2, <1>3

FlushedSlots(slots, n, slot) ==
  IF PlaceOf(n) > 0 THEN [slots EXCEPT ![SlotOf(n)] = slot] ELSE slots

\* Storing the local slot, if anything is in it, makes the places below the count what
\* they looked like.
LEMMA FlushedView ==
  ASSUME NEW n \in 0..MaxSelectors, NEW slots \in [SlotIndex -> Slot], NEW slot \in Slot,
         NEW flushed, flushed = FlushedSlots(slots, n, slot)
  PROVE  /\ flushed \in [SlotIndex -> Slot]
         /\ \A i \in 0..(n - 1) : At(flushed, i) = At(View(slots, n, slot), i)
<1>1. SlotOf(n) \in SlotIndex /\ n \in Nat
  BY SlotExists, PackedAssumption
<1>2. PlaceOf(n) \in Nat
  BY <1>1, Division, PackedAssumption
<1>3. ASSUME NEW i \in 0..(n - 1)
      PROVE  At(flushed, i) = At(View(slots, n, slot), i)
  <2>1. CASE PlaceOf(n) > 0
    BY <2>1 DEF FlushedSlots, View
  <2>2. CASE ~(PlaceOf(n) > 0)
    <3>1. i \in 0..MaxSelectors /\ i \in Nat /\ i < n
      BY <1>1, PackedAssumption
    <3>2. SlotOf(i) # SlotOf(n)
      BY <1>1, <1>2, <2>2, <3>1, FirstInSlot
    <3> QED
      BY <2>2, <3>1, <3>2, ViewAt DEF FlushedSlots
  <2> QED
    BY <2>1, <2>2
<1> QED
  BY <1>1, <1>3 DEF FlushedSlots

\* What Add leaves stored, and in the local, when the local slot has become `filled`.
AddedSlots(slots, n, filled) ==
  IF PlaceOf(n) = SelectorsPerSlot - 1 THEN [slots EXCEPT ![SlotOf(n)] = filled] ELSE slots
AddedLocal(n, filled) == IF PlaceOf(n) = SelectorsPerSlot - 1 THEN EmptySlot ELSE filled

\* Add: the slots look as before with s at the end, whatever is left in a local slot
\* that was stored because it is full.
LEMMA AppendView ==
  ASSUME NEW n \in 0..(MaxSelectors - 1), NEW slots \in [SlotIndex -> Slot], NEW slot \in Slot,
         NEW s \in Selector, NEW filled, filled = Insert(slot, n, s),
         NEW slots2, slots2 = AddedSlots(slots, n, filled),
         NEW slot2, slot2 \in {filled, AddedLocal(n, filled)}
  PROVE  /\ slots2 \in [SlotIndex -> Slot] /\ slot2 \in Slot
         /\ PlaceAdded(View(slots, n, slot), View(slots2, n + 1, slot2), n, s)
<1> DEFINE full == PlaceOf(n) = SelectorsPerSlot - 1
<1>1. /\ n \in Nat /\ n + 1 \in Nat /\ n \in 0..MaxSelectors /\ n + 1 \in 0..MaxSelectors
      /\ \A i \in 0..n : i \in 0..MaxSelectors /\ i \in Nat /\ i <= n
  BY PackedAssumption
<1>2. SlotOf(n) \in SlotIndex /\ SlotOf(n) \in Nat /\ SlotOf(n + 1) \in Nat
  BY <1>1, SlotExists, Division
<1>3. /\ filled \in Slot
      /\ \A p \in 0..(SelectorsPerSlot - 1) : filled[p] = IF p = PlaceOf(n) THEN s ELSE slot[p]
  BY <1>1, InsertIsSlot
<1>4. slots2 \in [SlotIndex -> Slot] /\ slot2 \in Slot
  BY <1>2, <1>3, EmptyIsSlot DEF AddedSlots, AddedLocal
<1>5. /\ full => SlotOf(n + 1) = SlotOf(n) + 1
      /\ ~full => SlotOf(n + 1) = SlotOf(n) /\ PlaceOf(n + 1) = PlaceOf(n) + 1
  BY <1>1, NextPlace
<1>6. ASSUME NEW i \in 0..n
      PROVE  At(View(slots2, n + 1, slot2), i) = IF i = n THEN s ELSE At(View(slots, n, slot), i)
  <2>1. /\ i \in 0..MaxSelectors /\ i \in Nat
        /\ PlaceOf(i) \in 0..(SelectorsPerSlot - 1) /\ SlotOf(i) \in SlotIndex /\ SlotOf(i) \in Nat
        /\ SlotOf(i) <= SlotOf(n)
    BY <1>1, Division, SlotExists, SlotsAreOrdered
  <2>2. /\ At(View(slots2, n + 1, slot2), i)
             = IF SlotOf(i) = SlotOf(n + 1) THEN slot2[PlaceOf(i)] ELSE At(slots2, i)
        /\ At(View(slots, n, slot), i)
             = IF SlotOf(i) = SlotOf(n) THEN slot[PlaceOf(i)] ELSE At(slots, i)
    <3>1. At(View(slots2, n + 1, slot2), i)
            = IF SlotOf(i) = SlotOf(n + 1) THEN slot2[PlaceOf(i)] ELSE At(slots2, i)
      BY <1>1, <1>4, <2>1, ViewAt
    <3>2. At(View(slots, n, slot), i)
            = IF SlotOf(i) = SlotOf(n) THEN slot[PlaceOf(i)] ELSE At(slots, i)
      BY <1>1, <2>1, ViewAt
    <3> QED
      BY <3>1, <3>2
  <2>3. SlotOf(i) = SlotOf(n) => (PlaceOf(i) = PlaceOf(n) <=> i = n)
    BY <1>1, <2>1, PlacesDiffer
  <2>4. CASE full
    <3>1. SlotOf(i) # SlotOf(n + 1)
      BY <1>2, <1>5, <2>1, <2>4
    <3>2. At(slots2, i) = IF SlotOf(i) = SlotOf(n) THEN filled[PlaceOf(i)] ELSE At(slots, i)
      BY <1>2, <2>1, <2>4 DEF At, AddedSlots
    <3> QED
      BY <1>3, <2>1, <2>2, <2>3, <3>1, <3>2
  <2>5. CASE ~full
    <3>1. At(slots2, i) = At(slots, i) /\ slot2 = filled /\ SlotOf(n + 1) = SlotOf(n)
      BY <1>5, <2>5 DEF AddedSlots, AddedLocal
    <3> QED
      BY <1>3, <2>1, <2>2, <2>3, <3>1
  <2> QED
    BY <2>4, <2>5
<1> QED
  BY <1>4, <1>6 DEF PlaceAdded

\* What Remove finds in the slot of number n, its new last selector left out, and what it
\* leaves stored and in the local when `last` fills the gap.
HeldSlot(slots, n, slot) == IF PlaceOf(n) = SelectorsPerSlot - 1 THEN slots[SlotOf(n)] ELSE slot
FilledSlots(slots, n, gap, last) ==
  IF SlotOf(gap) = SlotOf(n) THEN slots ELSE [slots EXCEPT ![SlotOf(gap)] = Insert(@, gap, last)]
FilledLocal(held, n, gap, last) ==
  IF SlotOf(gap) = SlotOf(n) THEN Insert(held, gap, last) ELSE held
DroppedSlots(slots, n) == IF PlaceOf(n) = 0 THEN [slots EXCEPT ![SlotOf(n)] = EmptySlot] ELSE slots
DroppedLocal(slot, n) == IF PlaceOf(n) = 0 THEN EmptySlot ELSE slot

\* Remove: the slots look as before without their last selector, which fills the gap,
\* whether a slot that empties is zeroed or not.
\* The local slot then is the one that has number n, whether it was loaded or not.
LEMMA DropView ==
  ASSUME NEW n \in 0..(MaxSelectors - 1), NEW slots \in [SlotIndex -> Slot], NEW slot \in Slot,
         NEW gap \in 0..n,
         NEW held, held = HeldSlot(slots, n, slot), NEW last, last = held[PlaceOf(n)],
         NEW stored, stored = FilledSlots(slots, n, gap, last),
         NEW local, local = FilledLocal(held, n, gap, last)
  PROVE  /\ last = At(View(slots, n + 1, slot), n)
         /\ \A slots2 \in {stored, DroppedSlots(stored, n)}, slot2 \in {local, DroppedLocal(local, n)} :
              /\ slots2 \in [SlotIndex -> Slot] /\ slot2 \in Slot
              /\ PlaceRemoved(View(slots, n + 1, slot), View(slots2, n, slot2), n, gap, last)
<1>1. /\ n \in Nat /\ n + 1 \in Nat /\ n \in 0..MaxSelectors /\ n + 1 \in 0..MaxSelectors
      /\ \A i \in 0..n : i \in 0..MaxSelectors /\ i \in Nat /\ i <= n
      /\ \A i \in 0..(n - 1) : i \in 0..n /\ i < n
  BY PackedAssumption
<1>2. \A i \in 0..n : /\ SlotOf(i) \in SlotIndex /\ SlotOf(i) \in Nat /\ SlotOf(i) <= SlotOf(n)
                      /\ PlaceOf(i) \in 0..(SelectorsPerSlot - 1)
  BY <1>1, SlotExists, Division, SlotsAreOrdered
<1>3. SlotOf(n) \in SlotIndex /\ SlotOf(n) \in Nat /\ SlotOf(n + 1) \in Nat
      /\ PlaceOf(n) \in 0..(SelectorsPerSlot - 1)
  BY <1>1, SlotExists, Division
<1>4. held \in Slot
  BY <1>3 DEF HeldSlot
<1>5. last \in Selector
  BY <1>3, <1>4 DEF Slot
<1>6. /\ PlaceOf(n) = SelectorsPerSlot - 1 => SlotOf(n + 1) = SlotOf(n) + 1
      /\ PlaceOf(n) # SelectorsPerSlot - 1 => SlotOf(n + 1) = SlotOf(n)
  BY <1>1, NextPlace
\* Seen from outside, slot number SlotOf(n) is the one held, the others are stored.
<1>7. \A i \in 0..n : At(View(slots, n + 1, slot), i)
                        = IF SlotOf(i) = SlotOf(n) THEN held[PlaceOf(i)] ELSE At(slots, i)
  <2> SUFFICES ASSUME NEW i \in 0..n
               PROVE  At(View(slots, n + 1, slot), i)
                        = IF SlotOf(i) = SlotOf(n) THEN held[PlaceOf(i)] ELSE At(slots, i)
    OBVIOUS
  <2>1. n + 1 \in 0..MaxSelectors /\ i \in 0..MaxSelectors
    BY <1>1
  <2>2. At(View(slots, n + 1, slot), i)
          = IF SlotOf(i) = SlotOf(n + 1) THEN slot[PlaceOf(i)] ELSE At(slots, i)
    BY <2>1, ViewAt
  <2>3. CASE PlaceOf(n) = SelectorsPerSlot - 1
    <3>1. SlotOf(i) # SlotOf(n + 1)
      BY <1>2, <1>3, <1>6, <2>3
    <3> QED
      BY <2>2, <2>3, <3>1 DEF At, HeldSlot
  <2>4. CASE PlaceOf(n) # SelectorsPerSlot - 1
    BY <1>6, <2>2, <2>4 DEF HeldSlot
  <2> QED
    BY <2>3, <2>4
<1>8. last = At(View(slots, n + 1, slot), n)
  BY <1>1, <1>7
<1>9. gap \in Nat /\ SlotOf(gap) \in SlotIndex
      /\ SlotOf(gap) \in Nat /\ SlotOf(gap) <= SlotOf(n)
  BY <1>1, <1>2
<1>10. /\ \A sl \in Slot : Insert(sl, gap, last) \in Slot
       /\ \A sl \in Slot : \A p \in 0..(SelectorsPerSlot - 1) :
            Insert(sl, gap, last)[p] = IF p = PlaceOf(gap) THEN last ELSE sl[p]
  BY <1>5, <1>9, InsertIsSlot
<1>11. stored \in [SlotIndex -> Slot] /\ local \in Slot
  BY <1>4, <1>9, <1>10 DEF FilledSlots, FilledLocal
<1> SUFFICES ASSUME NEW slots2 \in {stored, DroppedSlots(stored, n)},
                    NEW slot2 \in {local, DroppedLocal(local, n)}
             PROVE  /\ slots2 \in [SlotIndex -> Slot] /\ slot2 \in Slot
                    /\ PlaceRemoved(View(slots, n + 1, slot), View(slots2, n, slot2), n, gap, last)
  BY <1>8
<1>12. slots2 \in [SlotIndex -> Slot] /\ slot2 \in Slot
  BY <1>3, <1>11, EmptyIsSlot DEF DroppedSlots, DroppedLocal
<1>13. ASSUME NEW i \in 0..(n - 1)
       PROVE  At(View(slots2, n, slot2), i)
                = IF i = gap THEN last ELSE At(View(slots, n + 1, slot), i)
  <2>1. /\ i \in 0..n /\ i < n /\ i \in Nat /\ i \in 0..MaxSelectors
        /\ SlotOf(i) \in SlotIndex /\ PlaceOf(i) \in 0..(SelectorsPerSlot - 1)
    BY <1>1, <1>2
  <2>2. At(View(slots2, n, slot2), i)
          = IF SlotOf(i) = SlotOf(n) THEN slot2[PlaceOf(i)] ELSE At(slots2, i)
    BY <1>1, <1>12, <2>1, ViewAt
  <2>3. SlotOf(i) = SlotOf(n) => PlaceOf(n) # 0
    BY <1>1, <2>1, FirstInSlot
  <2>4. SlotOf(i) = SlotOf(gap) => (PlaceOf(i) = PlaceOf(gap) <=> i = gap)
    BY <1>9, <2>1, PlacesDiffer
  <2>5. CASE SlotOf(i) = SlotOf(n)
    <3>1. slot2 = local
      BY <2>3, <2>5 DEF DroppedLocal
    <3>2. local[PlaceOf(i)] = IF i = gap THEN last ELSE held[PlaceOf(i)]
      <4>1. CASE SlotOf(gap) = SlotOf(n)
        BY <1>4, <1>10, <2>1, <2>4, <2>5, <4>1 DEF FilledLocal
      <4>2. CASE SlotOf(gap) # SlotOf(n)
        BY <2>4, <2>5, <4>2 DEF FilledLocal
      <4> QED
        BY <4>1, <4>2
    <3> QED
      BY <1>7, <2>1, <2>2, <2>5, <3>1, <3>2
  <2>6. CASE SlotOf(i) # SlotOf(n)
    <3>1. At(slots2, i) = At(stored, i)
      BY <1>11, <2>1, <2>6 DEF At, DroppedSlots
    <3>2. At(stored, i) = IF i = gap THEN last ELSE At(slots, i)
      <4>1. CASE SlotOf(gap) = SlotOf(n)
        BY <2>4, <2>6, <4>1 DEF FilledSlots
      <4>2. CASE SlotOf(gap) # SlotOf(n)
        <5>1. stored = [slots EXCEPT ![SlotOf(gap)] = Insert(slots[SlotOf(gap)], gap, last)]
          BY <4>2 DEF FilledSlots
        <5>2. slots[SlotOf(gap)] \in Slot
          BY <1>9
        <5>3. CASE SlotOf(i) = SlotOf(gap)
          BY <1>10, <2>1, <2>4, <5>1, <5>2, <5>3 DEF At
        <5>4. CASE SlotOf(i) # SlotOf(gap)
          BY <2>1, <5>1, <5>4 DEF At
        <5> QED
          BY <5>3, <5>4
      <4> QED
        BY <4>1, <4>2
    <3> QED
      BY <1>7, <2>1, <2>2, <2>6, <3>1, <3>2
  <2> QED
    BY <2>5, <2>6
<1> QED
  BY <1>12, <1>13 DEF PlaceRemoved

--------------------------------------------------------------------------------
(* The inductive invariant. *)

Frame ==
  [snap : Storage, phase : {"cut", "ext"}, act : {"none", "add", "replace", "remove", "skip"},
   to : Facet, seen : BOOLEAN, count : 0..MaxSelectors, slot : Slot]

\* What an image of the storage satisfies when no diamondCut is in its loops.
Good(d) ==
  /\ d \in Storage
  /\ Table(d, d.count, d.slots)

\* What diamondCut knows in its loops, where its locals stand for the count and a slot.
LocalsFit(fr, d) ==
  fr.phase = "cut" =>
    /\ ~d.frozen
    /\ Table(d, fr.count, View(d.slots, fr.count, fr.slot))
    /\ fr.act \in {"add", "replace"} => fr.to \in HasCode

Inv ==
  /\ store \in Storage
  /\ frames \in Seq(Frame)
  /\ \A i \in DOMAIN frames : Good(frames[i].snap)
  /\ \A i \in DOMAIN frames : i # Len(frames) => frames[i].phase = "ext"
  /\ frames = <<>> \/ Top.phase = "ext" => Good(store)
  /\ frames # <<>> => LocalsFit(Top, store)

\* Pop drops the last element of a sequence and keeps the others.
LEMMA PopFacts ==
  ASSUME NEW T, NEW seq \in Seq(T), seq # <<>>
  PROVE  /\ Pop(seq) \in Seq(T)
         /\ Len(seq) \in Nat \ {0}
         /\ Len(Pop(seq)) = Len(seq) - 1
         /\ \A i \in 1..(Len(seq) - 1) : Pop(seq)[i] = seq[i]
<1>1. Len(seq) \in Nat \ {0}
  BY EmptySeq
<1> DEFINE n == Len(seq) - 1
<1>2. n \in Int /\ \A i \in 1..n : seq[i] \in T
  BY <1>1, ElementOfSeq
<1> HIDE DEF n
<1>3. /\ SubSeq(seq, 1, n) \in Seq(T)
      /\ Len(SubSeq(seq, 1, n)) = IF 1 <= n THEN n - 1 + 1 ELSE 0
      /\ \A i \in 1..(n - 1 + 1) : SubSeq(seq, 1, n)[i] = seq[1 + i - 1]
  BY <1>2, SubSeqProperties
<1> DEFINE popped == SubSeq(seq, 1, n)
<1>4. Pop(seq) = popped
  BY DEF Pop, n
<1> HIDE DEF popped
<1>5. Len(popped) = n /\ \A i \in 1..n : popped[i] = seq[i]
  <2>1. n \in Nat
    BY <1>1 DEF n
  <2> QED
    BY <2>1, <1>3 DEF popped
<1> QED
  BY <1>1, <1>3, <1>4, <1>5 DEF popped, n

LEMMA TopFacts ==
  ASSUME Inv, frames # <<>>
  PROVE  Top \in Frame /\ Good(Top.snap) /\ LocalsFit(Top, store)
<1>1. frames \in Seq(Frame) /\ Len(frames) \in 1..Len(frames)
  BY EmptySeq, LenProperties DEF Inv
<1> QED
  BY <1>1, LenProperties, ElementOfSeq DEF Inv, Top

\* A call that starts while none is in its loops.
LEMMA PushKeepsInv ==
  ASSUME Inv, Good(store), NEW fr \in Frame, fr.snap = store,
         frames # <<>> => Top.phase = "ext",
         frames' = Append(frames, fr), store' = store, LocalsFit(fr, store)
  PROVE  Inv'
<1> DEFINE n == Len(frames)
<1>1. frames \in Seq(Frame) /\ n \in Nat /\ DOMAIN frames = 1..n
  BY LenProperties DEF Inv
<1>2. /\ frames' \in Seq(Frame) /\ Len(frames') = n + 1 /\ frames' # <<>>
      /\ \A i \in 1..n : frames'[i] = frames[i]
      /\ frames'[n + 1] = fr
  BY <1>1, AppendProperties, EmptySeq
<1>3. DOMAIN frames' = 1..(n + 1) /\ Top' = fr
  BY <1>2, LenProperties DEF Top
<1>4. \A i \in 1..(n + 1) : i \in 1..n \/ i = n + 1
  BY <1>1
<1> HIDE DEF n
<1>5. \A i \in DOMAIN frames' : Good(frames'[i].snap)
  BY <1>1, <1>2, <1>3, <1>4 DEF Inv
<1>6. \A i \in DOMAIN frames' : i # Len(frames') => frames'[i].phase = "ext"
  <2> SUFFICES ASSUME NEW i \in 1..n
               PROVE  frames[i].phase = "ext"
    BY <1>2, <1>3, <1>4
  <2>1. frames # <<>>
    BY <1>1, EmptySeq DEF n
  <2> QED
    BY <1>1, <2>1 DEF Inv, Top, n
<1>7. Good(store') /\ LocalsFit(Top', store') /\ store' \in Storage
  BY <1>3 DEF Good
<1> QED
  BY <1>2, <1>5, <1>6, <1>7 DEF Inv

\* A step inside the innermost call.
LEMMA SetTopKeepsInv ==
  ASSUME Inv, frames # <<>>, NEW fr \in Frame, fr.snap = Top.snap, SetTop(fr),
         store' \in Storage, LocalsFit(fr, store'), fr.phase = "ext" => Good(store')
  PROVE  Inv'
<1> DEFINE n == Len(frames)
<1>1. frames \in Seq(Frame) /\ n \in Nat /\ DOMAIN frames = 1..n /\ n \in 1..n
  BY LenProperties, EmptySeq DEF Inv
<1>2. /\ frames' \in Seq(Frame) /\ Len(frames') = n
      /\ \A i \in 1..n : frames'[i] = IF i = n THEN fr ELSE frames[i]
  BY <1>1, ExceptSeq DEF SetTop
<1>3. DOMAIN frames' = 1..n /\ Top' = fr /\ frames' # <<>>
  BY <1>1, <1>2, LenProperties, EmptySeq DEF Top
<1> HIDE DEF n
<1>4. \A i \in DOMAIN frames' : Good(frames'[i].snap)
  BY <1>1, <1>2, <1>3 DEF Inv, Top, n
<1>5. \A i \in DOMAIN frames' : i # Len(frames') => frames'[i].phase = "ext"
  BY <1>1, <1>2, <1>3 DEF Inv, n
<1> QED
  BY <1>2, <1>3, <1>4, <1>5 DEF Inv

\* The innermost call ends, for good or undone.
LEMMA PopKeepsInv ==
  ASSUME Inv, frames # <<>>, frames' = Pop(frames), Good(store')
  PROVE  Inv'
<1> DEFINE n == Len(frames)
<1>1. frames \in Seq(Frame) /\ n \in Nat \ {0} /\ DOMAIN frames = 1..n
  BY LenProperties, EmptySeq DEF Inv
<1>2. /\ frames' \in Seq(Frame) /\ Len(frames') = n - 1
      /\ \A i \in 1..(n - 1) : frames'[i] = frames[i]
  BY <1>1, PopFacts
<1>3. DOMAIN frames' = 1..(n - 1)
  BY <1>2, LenProperties
<1> HIDE DEF n
<1>4. \A i \in 1..(n - 1) : i \in 1..n /\ i # n
  <2>1. n \in Nat
    BY <1>1
  <2> QED
    BY <2>1
<1>5. \A i \in DOMAIN frames' : Good(frames'[i].snap) /\ frames'[i].phase = "ext"
  BY <1>1, <1>2, <1>3, <1>4 DEF Inv, n
<1>6. ASSUME frames' # <<>>
      PROVE  Top'.phase = "ext"
  <2>1. n - 1 \in 1..(n - 1)
    BY <1>1, <1>2, <1>6, EmptySeq
  <2> QED
    BY <1>2, <1>3, <1>5, <2>1 DEF Top
<1>7. frames' # <<>> => LocalsFit(Top', store')
  BY <1>6 DEF LocalsFit
<1> QED
  BY <1>2, <1>5, <1>7 DEF Inv, Good

--------------------------------------------------------------------------------
(* What the actions write into the storage of either diamond. *)

\* The rewrites of the table leave the owner, the flag and the roles as they are.
OthersKept(d, e) ==
  /\ d \in PackedStorage => e \in PackedStorage
  /\ d \in SolidstateStorage => e \in SolidstateStorage
  /\ e.owner = d.owner /\ e.frozen = d.frozen

WithAdded(d, s, f, n, slots) == [d EXCEPT !.facet[s] = f, !.pos[s] = n, !.slots = slots]
WithReplaced(d, s, f) == [d EXCEPT !.facet[s] = f]
WithRemoved(d, s, pos, slots) ==
  [[d EXCEPT !.pos = pos, !.facet[s] = Zero] EXCEPT !.slots = slots]
WithFlushed(d, n, slots) == [d EXCEPT !.count = n, !.slots = slots]

LEMMA AddWrites ==
  ASSUME NEW d, d \in Storage, NEW s \in Selector, NEW f \in Facet, NEW n \in Nat,
         NEW slots \in [SlotIndex -> Slot],
         NEW e, e = WithAdded(d, s, f, n, slots)
  PROVE  /\ e \in Storage /\ OthersKept(d, e)
         /\ e.facet = [d.facet EXCEPT ![s] = f] /\ e.pos = [d.pos EXCEPT ![s] = n]
         /\ e.slots = slots /\ e.count = d.count
<1>1. CASE d \in PackedStorage
  BY <1>1 DEF PackedStorage, SolidstateStorage, OthersKept, Storage, WithAdded
<1>2. CASE d \in SolidstateStorage
  BY <1>2 DEF PackedStorage, SolidstateStorage, OthersKept, Storage, WithAdded
<1> QED
  BY <1>1, <1>2 DEF Storage

LEMMA ReplaceWrites ==
  ASSUME NEW d, d \in Storage, NEW s \in Selector, NEW f \in Facet,
         NEW e, e = WithReplaced(d, s, f)
  PROVE  /\ e \in Storage /\ OthersKept(d, e)
         /\ e.facet = [d.facet EXCEPT ![s] = f] /\ e.pos = d.pos
         /\ e.slots = d.slots /\ e.count = d.count
<1>1. CASE d \in PackedStorage
  BY <1>1 DEF PackedStorage, SolidstateStorage, OthersKept, Storage, WithReplaced
<1>2. CASE d \in SolidstateStorage
  BY <1>2 DEF PackedStorage, SolidstateStorage, OthersKept, Storage, WithReplaced
<1> QED
  BY <1>1, <1>2 DEF Storage

LEMMA RemoveWrites ==
  ASSUME NEW d, d \in Storage, NEW s \in Selector,
         NEW pos \in [Selector -> Nat], NEW slots \in [SlotIndex -> Slot],
         NEW e, e = WithRemoved(d, s, pos, slots)
  PROVE  /\ e \in Storage /\ OthersKept(d, e)
         /\ e.facet = [d.facet EXCEPT ![s] = Zero] /\ e.pos = pos
         /\ e.slots = slots /\ e.count = d.count
<1>1. CASE d \in PackedStorage
  BY <1>1 DEF PackedStorage, SolidstateStorage, OthersKept, Storage, WithRemoved, Facet
<1>2. CASE d \in SolidstateStorage
  BY <1>2 DEF PackedStorage, SolidstateStorage, OthersKept, Storage, WithRemoved, Facet
<1> QED
  BY <1>1, <1>2 DEF Storage

LEMMA FlushWrites ==
  ASSUME NEW d, d \in Storage, NEW n \in 0..MaxSelectors, NEW slots \in [SlotIndex -> Slot],
         NEW e, e = WithFlushed(d, n, slots)
  PROVE  /\ e \in Storage /\ OthersKept(d, e)
         /\ e.facet = d.facet /\ e.pos = d.pos /\ e.slots = slots /\ e.count = n
<1>1. CASE d \in PackedStorage
  BY <1>1 DEF PackedStorage, SolidstateStorage, OthersKept, Storage, WithFlushed
<1>2. CASE d \in SolidstateStorage
  BY <1>2 DEF PackedStorage, SolidstateStorage, OthersKept, Storage, WithFlushed
<1> QED
  BY <1>1, <1>2 DEF Storage

\* The calls that hand over a role, set the fallback or freeze leave the table alone.
RolesWritten(d, e) ==
  /\ d \in PackedStorage => e \in PackedStorage
  /\ d \in SolidstateStorage => e \in SolidstateStorage
  /\ e.facet = d.facet /\ e.pos = d.pos /\ e.slots = d.slots /\ e.count = d.count
  /\ e.frozen \in {d.frozen, TRUE}

LEMMA RoleWrites ==
  ASSUME NEW d, d \in Storage, NEW r \in RoleHolder, NEW q \in RoleHolder, NEW e,
         \/ e = [d EXCEPT !.owner = r]
         \/ e = [d EXCEPT !.frozen = TRUE]
         \/ e = [d EXCEPT !.nominee = r]
         \/ e = [d EXCEPT !.owner = r, !.nominee = q]
         \/ e = [d EXCEPT !.fallback = r]
  PROVE  e \in Storage /\ RolesWritten(d, e)
<1>1. CASE d \in PackedStorage
  BY <1>1 DEF PackedStorage, SolidstateStorage, RolesWritten, Storage
<1>2. CASE d \in SolidstateStorage
  BY <1>2 DEF PackedStorage, SolidstateStorage, RolesWritten, Storage
<1> QED
  BY <1>1, <1>2 DEF Storage

--------------------------------------------------------------------------------
(* Every action keeps the invariant. *)

\* The calls that leave the table alone, those that run other code, and what happens in
\* the loops, of either diamond.
RoleCall(sender) ==
  \/ \E r \in RoleHolder : \/ TransferOwnership(sender, r)
                           \/ SolidstateTransferOwnership(sender, r)
                           \/ SetFallbackAddress(sender, r)
  \/ AcceptOwnership(sender)
  \/ FreezeDiamond(sender)
RoutedCall(sender) == \E s \in Selector : Route(sender, s) \/ SolidstateRoute(sender, s)
Turn ==
  \/ \E f \in Address : StartAdd(f) \/ SolidstateStartAdd(f) \/ StartReplace(f)
  \/ StartRemove \/ SkipFacetCut \/ EndFacetCut
Adds(s) == AddSelector(s) \/ SolidstateAddSelector(s)
Removes(s) == RemoveSelector(s) \/ SolidstateRemoveSelector(s)
Edits(s) == Adds(s) \/ ReplaceSelector(s) \/ Removes(s)

Step == Next \/ SolidstateNext

LEMMA StepCases ==
  Step => \/ \E sender \in Account : RoleCall(sender) \/ RoutedCall(sender) \/ DiamondCut(sender)
          \/ Turn
          \/ \E s \in Selector : Edits(s)
          \/ \E init \in Address : DelegateInit(init)
          \/ FinishCut \/ ExtReturns \/ CallReverts
  BY DEF Step, Next, SolidstateNext, CutSteps, RoleCall, RoutedCall, Turn, Adds, Removes, Edits

\* The initial storage is empty.
LEMMA InitInv == Init \/ SolidstateInit => Inv
<1> SUFFICES ASSUME Init \/ SolidstateInit PROVE Inv
  OBVIOUS
<1>0. frames = <<>>
  BY DEF Init, SolidstateInit
<1>1. frames = <<>> /\ frames \in Seq(Frame) /\ DOMAIN frames = {}
  BY <1>0, EmptySeq
<1>2. 0 \in 0..MaxSelectors /\ 0..(0 - 1) = {} /\ SelectorsPerSlot \in Nat /\ MaxSelectors \in Nat
  BY PackedAssumption
<1>3. /\ store \in Storage
      /\ \A s \in Selector : store.facet[s] = Zero /\ store.pos[s] = 0
      /\ store.count = 0
  <2>1. CASE Init
    <3>1. PICK owner \in RoleHolder : store = NoSelectors(owner)
      BY <2>1 DEF Init
    <3>2. store \in PackedStorage
      BY <1>2, <3>1, EmptyIsSlot DEF NoSelectors, PackedStorage, Facet
    <3> QED
      BY <3>1, <3>2 DEF NoSelectors, Storage
  <2>2. CASE SolidstateInit
    <3>1. PICK owner \in RoleHolder :
            store = [x \in SolidstateField |->
                       IF x \in DOMAIN NoSelectors(owner) THEN NoSelectors(owner)[x] ELSE Zero]
      BY <2>2 DEF SolidstateInit
    <3>2. store = [owner |-> owner, frozen |-> FALSE,
                   facet |-> [s \in Selector |-> Zero], pos |-> [s \in Selector |-> 0],
                   slots |-> [j \in SlotIndex |-> EmptySlot], count |-> 0,
                   nominee |-> Zero, fallback |-> Zero]
      BY <3>1 DEF NoSelectors, SolidstateField
    <3>3. store \in SolidstateStorage
      BY <1>2, <3>2, EmptyIsSlot DEF SolidstateStorage, Facet, RoleHolder
    <3> QED
      BY <3>2, <3>3 DEF Storage
  <2> QED
    BY <2>1, <2>2
<1>4. Good(store)
  BY <1>2, <1>3 DEF Good, Table, Indexed
<1> QED
  BY <1>1, <1>3, <1>4 DEF Inv

\* A step between the loops that leaves the frames alone.
LEMMA SameFramesKeepsInv ==
  ASSUME Inv, frames # <<>> => Top.phase = "ext", frames' = frames, Good(store')
  PROVE  Inv'
<1>1. Top' = Top
  BY DEF Top
<1>2. frames # <<>> => LocalsFit(Top, store')
  BY DEF LocalsFit
<1>3. store' \in Storage
  BY DEF Good
<1> QED
  BY <1>1, <1>2, <1>3 DEF Inv

\* Calls are taken when the storage is an image of its own.
LEMMA CallFacts ==
  ASSUME Inv, NEW sender \in Account, CanCall(sender)
  PROVE  Good(store) /\ store \in Storage /\ (frames # <<>> => Top.phase = "ext")
BY DEF Inv, CanCall

\* What the calls that leave the table alone have in common.
LEMMA RoleCallFacts ==
  ASSUME Inv, NEW sender \in Account, RoleCall(sender)
  PROVE  CanCall(sender) /\ frames' = frames /\ store' \in Storage /\ RolesWritten(store, store')
<1>1. store \in Storage /\ sender \in RoleHolder /\ Zero \in RoleHolder
  BY DEF Inv, RoleHolder
<1>2. CanCall(sender) /\ frames' = frames
  BY DEF RoleCall, TransferOwnership, SolidstateTransferOwnership, SetFallbackAddress,
         AcceptOwnership, FreezeDiamond, OwnerCalls
<1>3. PICK r \in RoleHolder, q \in RoleHolder :
        \/ store' = [store EXCEPT !.owner = r]
        \/ store' = [store EXCEPT !.frozen = TRUE]
        \/ store' = [store EXCEPT !.nominee = r]
        \/ store' = [store EXCEPT !.owner = r, !.nominee = q]
        \/ store' = [store EXCEPT !.fallback = r]
  BY <1>1 DEF RoleCall, TransferOwnership, SolidstateTransferOwnership, SetFallbackAddress,
              AcceptOwnership, FreezeDiamond
<1>4. PICK e : e = store'
  OBVIOUS
<1>5. e \in Storage /\ RolesWritten(store, e)
  BY <1>1, <1>3, <1>4, RoleWrites
<1> QED
  BY <1>2, <1>4, <1>5

\* A call that starts leaves the storage alone and fits it.
LEMMA EnterFacts ==
  ASSUME Inv, NEW sender \in Account, RoutedCall(sender) \/ DiamondCut(sender)
  PROVE  /\ Good(store) /\ (frames # <<>> => Top.phase = "ext") /\ store' = store
         /\ \E fr \in Frame :
              /\ fr.snap = store /\ frames' = Append(frames, fr) /\ LocalsFit(fr, store)
              /\ fr.phase = "cut" => fr.count = store.count
<1>1. Good(store) /\ store \in Storage /\ (frames # <<>> => Top.phase = "ext")
  BY CallFacts DEF OwnerCalls, RoutedCall, Route, SolidstateRoute, DiamondCut
<1>2. ASSUME NEW phase \in {"cut", "ext"}, NEW n \in 0..MaxSelectors, NEW slot \in Slot,
             Enter(phase, n, slot),
             phase = "cut" => /\ ~store.frozen /\ n = store.count
                              /\ Table(store, n, View(store.slots, n, slot))
      PROVE  /\ store' = store
             /\ \E fr \in Frame :
                  /\ fr.snap = store /\ frames' = Append(frames, fr) /\ LocalsFit(fr, store)
                  /\ fr.phase = "cut" => fr.count = store.count
  <2> DEFINE fr == [snap |-> store, phase |-> phase, act |-> "none", to |-> Zero,
                    seen |-> FALSE, count |-> n, slot |-> slot]
  <2>1. /\ fr \in Frame /\ fr.snap = store /\ fr.act = "none" /\ fr.phase = phase
        /\ fr.count = n /\ fr.slot = slot
    BY <1>1, <1>2 DEF Frame, Facet
  <2>2. frames' = Append(frames, fr) /\ store' = store
    BY <1>2 DEF Enter
  <2> HIDE DEF fr
  <2>3. LocalsFit(fr, store) /\ (fr.phase = "cut" => fr.count = store.count)
    BY <1>1, <1>2, <2>1 DEF LocalsFit, Good
  <2> QED
    BY <2>1, <2>2, <2>3
<1>3. CASE RoutedCall(sender)
  BY <1>1, <1>2, <1>3, EmptyIsSlot, PackedAssumption DEF RoutedCall, Route, SolidstateRoute
<1>4. CASE DiamondCut(sender)
  <2> DEFINE n == store.count
             slot == IF PlaceOf(n) > 0 THEN store.slots[SlotOf(n)] ELSE EmptySlot
             view == View(store.slots, n, slot)
  <2>1. n \in 0..MaxSelectors /\ store.slots \in [SlotIndex -> Slot]
    BY <1>1, FieldsTyped
  <2>2. Enter("cut", n, slot) /\ ~store.frozen
    BY <1>4 DEF DiamondCut
  <2>3. slot \in Slot /\ \A i \in 0..(n - 1) : At(view, i) = At(store.slots, i)
    BY <2>1, ViewOfStored
  <2>4. view \in [SlotIndex -> Slot]
    BY <2>1, <2>3, ViewIsSlots
  <2> HIDE DEF slot, view
  <2>5. Table(store, n, view)
    BY <1>1, <2>1, <2>3, <2>4, TableSame DEF Good
  <2> QED
    BY <1>1, <1>2, <2>1, <2>2, <2>3, <2>5 DEF view
<1> QED
  BY <1>1, <1>3, <1>4

LEMMA CallsKeepInv ==
  ASSUME Inv, NEW sender \in Account,
         RoleCall(sender) \/ RoutedCall(sender) \/ DiamondCut(sender)
  PROVE  Inv'
<1>1. CASE RoleCall(sender)
  <2>1. /\ CanCall(sender) /\ frames' = frames /\ store' \in Storage
        /\ store'.facet = store.facet /\ store'.pos = store.pos
        /\ store'.slots = store.slots /\ store'.count = store.count
    BY <1>1, RoleCallFacts DEF RolesWritten
  <2>2. Good(store) /\ (frames # <<>> => Top.phase = "ext")
    BY <2>1, CallFacts
  <2>3. Good(store')
    BY <2>1, <2>2 DEF Good, Table, Indexed
  <2> QED
    BY <2>1, <2>2, <2>3, SameFramesKeepsInv
<1>2. CASE RoutedCall(sender) \/ DiamondCut(sender)
  BY <1>2, EnterFacts, PushKeepsInv
<1> QED
  BY <1>1, <1>2

\* What diamondCut has at hand inside its loops.
LEMMA CutFacts ==
  ASSUME Inv, Cutting
  PROVE  /\ frames # <<>> /\ Top \in Frame /\ Top.phase = "cut"
         /\ Top.count \in 0..MaxSelectors /\ Top.slot \in Slot
         /\ store \in Storage /\ store.slots \in [SlotIndex -> Slot]
         /\ store.facet \in [Selector -> Facet] /\ store.pos \in [Selector -> Nat]
         /\ ~store.frozen
         /\ Table(store, Top.count, View(store.slots, Top.count, Top.slot))
         /\ Top.act \in {"add", "replace"} => Top.to \in HasCode
<1>1. frames # <<>> /\ Top \in Frame /\ Top.phase = "cut" /\ LocalsFit(Top, store) /\ store \in Storage
  BY TopFacts DEF Inv, Cutting
<1> QED
  BY <1>1, FieldsTyped DEF LocalsFit, Frame

\* A step of the loops that leaves the table and the locals alone.
LEMMA SameLocalsKeepInv ==
  ASSUME Inv, Cutting, store' = store,
         NEW fr \in Frame, fr.snap = Top.snap, fr.phase = "cut", SetTop(fr),
         fr.count = Top.count, fr.slot = Top.slot,
         fr.act \in {"add", "replace"} => fr.to \in HasCode
  PROVE  Inv'
<1>1. LocalsFit(fr, store')
  BY CutFacts DEF LocalsFit
<1> QED
  BY <1>1, CutFacts, SetTopKeepsInv

\* A FacetCut starts, is skipped or ends.
LEMMA TurnKeepsInv ==
  ASSUME Inv, Turn
  PROVE  /\ Inv' /\ store' = store /\ Cutting
         /\ \E fr \in Frame : SetTop(fr) /\ fr.phase = "cut" /\ fr.count = Top.count
<1> DEFINE same == \E fr \in Frame : SetTop(fr) /\ fr.phase = "cut" /\ fr.count = Top.count
<1>1. Cutting /\ store' = store
  BY DEF Turn, StartAdd, SolidstateStartAdd, StartReplace, StartRemove, StartFacetCut,
         SkipFacetCut, EndFacetCut, Applying
<1>2. Top \in Frame /\ Top.phase = "cut"
  BY <1>1, CutFacts
<1>3. ASSUME NEW act \in {"none", "add", "replace", "remove"}, NEW f \in Facet,
             act \in {"add", "replace"} => f \in HasCode,
             SetTop([Top EXCEPT !.act = act, !.to = f, !.seen = FALSE])
      PROVE  Inv' /\ same
  <2> DEFINE fr == [Top EXCEPT !.act = act, !.to = f, !.seen = FALSE]
  <2>1. /\ fr \in Frame /\ fr.snap = Top.snap /\ fr.phase = "cut"
        /\ fr.count = Top.count /\ fr.slot = Top.slot /\ fr.act = act /\ fr.to = f
    BY <1>2 DEF Frame
  <2>2. SetTop(fr)
    BY <1>3
  <2> HIDE DEF fr
  <2> QED
    BY <1>1, <1>3, <2>1, <2>2, SameLocalsKeepInv
<1>4. CASE \E f \in Address : StartAdd(f) \/ SolidstateStartAdd(f) \/ StartReplace(f)
  BY <1>1, <1>3, <1>4 DEF StartAdd, SolidstateStartAdd, StartReplace, StartFacetCut, Facet
<1>5. CASE StartRemove \/ EndFacetCut
  BY <1>1, <1>3, <1>5 DEF StartRemove, StartFacetCut, EndFacetCut, Facet
<1>6. CASE SkipFacetCut
  <2> DEFINE fr == [Top EXCEPT !.act = "skip", !.seen = TRUE]
  <2>1. /\ fr \in Frame /\ fr.snap = Top.snap /\ fr.phase = "cut"
        /\ fr.count = Top.count /\ fr.slot = Top.slot /\ fr.act = "skip"
    BY <1>2 DEF Frame
  <2>2. SetTop(fr)
    BY <1>6 DEF SkipFacetCut
  <2> HIDE DEF fr
  <2> QED
    BY <1>1, <2>1, <2>2, SameLocalsKeepInv
<1> QED
  BY <1>1, <1>4, <1>5, <1>6 DEF Turn

\* The loops have rewritten the table: what remains to be seen is that it is one.
LEMMA TableStepKeepsInv ==
  ASSUME Inv, Cutting, store' \in Storage, ~store'.frozen,
         NEW n \in 0..MaxSelectors, NEW slot \in Slot,
         SetTop([Top EXCEPT !.count = n, !.slot = slot, !.seen = TRUE]),
         Table(store', n, View(store'.slots, n, slot))
  PROVE  Inv'
<1> DEFINE fr == [Top EXCEPT !.count = n, !.slot = slot, !.seen = TRUE]
<1>1. /\ frames # <<>> /\ Top \in Frame /\ Top.phase = "cut"
      /\ Top.act \in {"add", "replace"} => Top.to \in HasCode
  BY CutFacts
<1>2. /\ fr \in Frame /\ fr.snap = Top.snap /\ fr.phase = "cut" /\ fr.act = Top.act
      /\ fr.to = Top.to /\ fr.count = n /\ fr.slot = slot
  BY <1>1 DEF Frame
<1>3. SetTop(fr)
  OBVIOUS
<1> HIDE DEF fr
<1>4. LocalsFit(fr, store')
  BY <1>1, <1>2 DEF LocalsFit
<1> QED
  BY <1>1, <1>2, <1>3, <1>4, SetTopKeepsInv

\* What the three edits of the table do besides.
Edited(s, f) ==
  /\ Inv' /\ OthersKept(store, store')
  /\ store'.facet = [store.facet EXCEPT ![s] = f]

LEMMA AddKeepsInv ==
  ASSUME Inv, NEW s \in Selector, Adds(s)
  PROVE  Edited(s, Top.to)
<1> DEFINE n == Top.count
           filled == Insert(Top.slot, n, s)
           slots2 == AddedSlots(store.slots, n, filled)
           view == View(store.slots, n, Top.slot)
<1>1. /\ Cutting /\ Top.act = "add" /\ store.facet[s] = Zero /\ n < MaxSelectors
      /\ store' = [store EXCEPT !.facet[s] = Top.to, !.pos[s] = n, !.slots = slots2]
  BY DEF Adds, AddSelector, SolidstateAddSelector, Applying, AddedSlots
<1>2. PICK slot2 \in {filled, AddedLocal(n, filled)} :
        SetTop([Top EXCEPT !.count = n + 1, !.slot = slot2, !.seen = TRUE])
  BY DEF Adds, AddSelector, SolidstateAddSelector, AddedLocal
<1> DEFINE view2 == View(slots2, n + 1, slot2)
<1>3. /\ n \in 0..MaxSelectors /\ Top.slot \in Slot /\ store \in Storage /\ ~store.frozen
      /\ store.slots \in [SlotIndex -> Slot]
      /\ Table(store, n, view) /\ Top.to \in HasCode
  BY <1>1, CutFacts
<1>4. n \in 0..(MaxSelectors - 1) /\ n + 1 \in 0..MaxSelectors /\ n \in Nat /\ Top.to \in Facet
  BY <1>1, <1>3, PackedAssumption DEF Facet
<1>5. slots2 \in [SlotIndex -> Slot] /\ slot2 \in Slot /\ PlaceAdded(view, view2, n, s)
  <2> HIDE DEF n
  <2> QED
    BY <1>2, <1>3, <1>4, AppendView
<1>6. view \in [SlotIndex -> Slot] /\ view2 \in [SlotIndex -> Slot]
  BY <1>3, <1>4, <1>5, ViewIsSlots
<1> HIDE DEF n, slots2, view, view2, filled
<1>7. PICK e : e = store' /\ e = WithAdded(store, s, Top.to, n, slots2)
  BY <1>1 DEF WithAdded
<1>8. /\ e \in Storage /\ OthersKept(store, e)
      /\ e.facet = [store.facet EXCEPT ![s] = Top.to] /\ e.pos = [store.pos EXCEPT ![s] = n]
      /\ e.slots = slots2
  BY <1>3, <1>4, <1>5, <1>7, AddWrites
<1>9. Table(e, n + 1, view2)
  BY <1>1, <1>3, <1>4, <1>5, <1>6, <1>8, TableAdd DEF RecordAdded
<1>10. View(e.slots, n + 1, slot2) = view2 /\ ~e.frozen
  BY <1>3, <1>8 DEF view2, OthersKept
<1>11. Inv'
  BY <1>1, <1>2, <1>4, <1>5, <1>7, <1>8, <1>9, <1>10, TableStepKeepsInv
<1> QED
  BY <1>7, <1>8, <1>11 DEF Edited

LEMMA ReplaceKeepsInv ==
  ASSUME Inv, NEW s \in Selector, ReplaceSelector(s)
  PROVE  Edited(s, Top.to)
<1> DEFINE n == Top.count
           view == View(store.slots, n, Top.slot)
<1>1. /\ Cutting /\ Top.act = "replace" /\ store.facet[s] \notin {Zero, Self, Top.to}
      /\ store' = [store EXCEPT !.facet[s] = Top.to]
      /\ SetTop([Top EXCEPT !.seen = TRUE])
  BY DEF ReplaceSelector, Applying
<1>2. /\ n \in 0..MaxSelectors /\ Top.slot \in Slot /\ store \in Storage /\ ~store.frozen
      /\ store.slots \in [SlotIndex -> Slot] /\ Top \in Frame
      /\ Table(store, n, view) /\ Top.to \in HasCode
  BY <1>1, CutFacts
<1>3. view \in [SlotIndex -> Slot] /\ Top.to \in Facet
  BY <1>2, ViewIsSlots, PackedAssumption DEF Facet
<1>4. [Top EXCEPT !.seen = TRUE] = [Top EXCEPT !.count = n, !.slot = Top.slot, !.seen = TRUE]
  BY <1>2 DEF Frame
<1> HIDE DEF n, view
<1>5. PICK e : e = store' /\ e = WithReplaced(store, s, Top.to)
  BY <1>1 DEF WithReplaced
<1>6. /\ e \in Storage /\ OthersKept(store, e)
      /\ e.facet = [store.facet EXCEPT ![s] = Top.to] /\ e.pos = store.pos
      /\ e.slots = store.slots
  BY <1>2, <1>3, <1>5, ReplaceWrites
<1>7. Table(e, n, view)
  BY <1>1, <1>2, <1>3, <1>6, TableReplace DEF RecordMoved
<1>8. View(e.slots, n, Top.slot) = view /\ ~e.frozen
  BY <1>2, <1>6 DEF view, OthersKept
<1>9. SetTop([Top EXCEPT !.count = n, !.slot = Top.slot, !.seen = TRUE])
  BY <1>1, <1>4
<1>10. Inv'
  BY <1>1, <1>2, <1>5, <1>6, <1>7, <1>8, <1>9, TableStepKeepsInv
<1> QED
  BY <1>5, <1>6, <1>10 DEF Edited

LEMMA RemoveKeepsInv ==
  ASSUME Inv, NEW s \in Selector, Removes(s)
  PROVE  Edited(s, Zero)
<1> DEFINE n == Top.count - 1
           gap == store.pos[s]
           held == HeldSlot(store.slots, n, Top.slot)
           last == held[PlaceOf(n)]
           stored == FilledSlots(store.slots, n, gap, last)
           local == FilledLocal(held, n, gap, last)
           pos2 == [store.pos EXCEPT ![last] = gap, ![s] = 0]
           view == View(store.slots, n + 1, Top.slot)
<1>1. /\ SlotOfLast(n) = held
      /\ FillStored(s, n, last) = stored
      /\ FillLocal(s, n, last) = local
      /\ Moved(s, last) = [store EXCEPT !.pos = pos2, !.facet[s] = Zero]
  BY DEF SlotOfLast, HeldSlot, FillStored, FilledSlots, FillLocal, FilledLocal, GapIsLocal, Moved
<1>2. Cutting /\ Top.act = "remove" /\ Top.count > 0 /\ store.facet[s] \notin {Zero, Self}
  BY DEF Removes, RemoveSelector, SolidstateRemoveSelector, Applying
<1>3. PICK slots2 \in {stored, DroppedSlots(stored, n)}, slot2 \in {local, DroppedLocal(local, n)} :
        /\ store' = [Moved(s, last) EXCEPT !.slots = slots2]
        /\ \/ SetTop([Top EXCEPT !.count = n, !.seen = TRUE, !.slot = slot2])
           \/ SetTop([Top EXCEPT !.count = n, !.slot = slot2, !.seen = TRUE])
  BY <1>1 DEF Removes, RemoveSelector, SolidstateRemoveSelector, DroppedSlots, DroppedLocal
<1> DEFINE view2 == View(slots2, n, slot2)
<1>4. /\ Top.count \in 0..MaxSelectors /\ Top.slot \in Slot /\ store \in Storage /\ ~store.frozen
      /\ store.slots \in [SlotIndex -> Slot] /\ Top \in Frame
      /\ Table(store, Top.count, View(store.slots, Top.count, Top.slot))
  BY <1>2, CutFacts
<1>5. n \in 0..(MaxSelectors - 1) /\ n \in 0..MaxSelectors /\ n + 1 = Top.count
  BY <1>2, <1>4, PackedAssumption
<1>6. Table(store, n + 1, view) /\ view \in [SlotIndex -> Slot]
  BY <1>4, <1>5, ViewIsSlots
<1>7. gap \in 0..n
  <2>1. Entries(store, n + 1, view)
    BY <1>4, <1>5, <1>6, TableEntries
  <2>2. store.facet[s] # Zero
    BY <1>2
  <2> HIDE DEF n, view
  <2>3. store.pos[s] \in 0..(n + 1 - 1)
    BY <1>5, <2>1, <2>2 DEF Entries
  <2>4. n + 1 - 1 = n
    BY <1>5
  <2> QED
    BY <2>3, <2>4
<1>0. /\ held = HeldSlot(store.slots, n, Top.slot) /\ last = held[PlaceOf(n)]
      /\ stored = FilledSlots(store.slots, n, gap, last)
      /\ local = FilledLocal(held, n, gap, last)
  OBVIOUS
<1> HIDE DEF n, gap, held, last, stored, local
<1>8. /\ slots2 \in [SlotIndex -> Slot] /\ slot2 \in Slot
      /\ last = At(view, n)
      /\ PlaceRemoved(view, view2, n, gap, last)
  <2>1. slots2 \in {stored, DroppedSlots(stored, n)} /\ slot2 \in {local, DroppedLocal(local, n)}
    BY <1>3
  <2>2. /\ last = At(View(store.slots, n + 1, Top.slot), n)
        /\ \A sl \in {stored, DroppedSlots(stored, n)}, lo \in {local, DroppedLocal(local, n)} :
             /\ sl \in [SlotIndex -> Slot] /\ lo \in Slot
             /\ PlaceRemoved(View(store.slots, n + 1, Top.slot), View(sl, n, lo), n, gap, last)
    BY <1>0, <1>4, <1>5, <1>7, DropView
  <2> QED
    BY <2>1, <2>2
<1>9. view2 \in [SlotIndex -> Slot]
  BY <1>5, <1>8, ViewIsSlots
<1>10. last \in Selector
  <2>1. Entries(store, n + 1, view)
    BY <1>4, <1>5, <1>6, TableEntries
  <2>2. n \in 0..(n + 1 - 1)
    BY <1>5
  <2> QED
    BY <1>8, <2>1, <2>2 DEF Entries
<1> HIDE DEF view, view2
<1>11. pos2 \in [Selector -> Nat]
  BY <1>4, <1>7, <1>10, FieldsTyped
<1> HIDE DEF pos2
<1>12. WithRemoved(store, s, pos2, slots2) = [Moved(s, last) EXCEPT !.slots = slots2]
  BY <1>1 DEF WithRemoved
<1>13. PICK e : e = store' /\ e = WithRemoved(store, s, pos2, slots2)
  BY <1>3, <1>12
<1>14. /\ e \in Storage /\ OthersKept(store, e)
       /\ e.facet = [store.facet EXCEPT ![s] = Zero] /\ e.pos = pos2 /\ e.slots = slots2
  BY <1>4, <1>8, <1>11, <1>13, RemoveWrites
<1>15. Table(e, n, view2)
  <2>1. RecordRemoved(store, e, s, last) /\ PlaceRemoved(view, view2, n, store.pos[s], last)
    BY <1>8, <1>14 DEF gap, pos2, RecordRemoved
  <2> QED
    BY <1>2, <1>4, <1>5, <1>6, <1>8, <1>9, <1>14, <2>1, TableRemove
<1>16. Inv'
  <2>1. View(e.slots, n, slot2) = view2 /\ ~e.frozen
    BY <1>4, <1>14 DEF view2, OthersKept
  <2>2. SetTop([Top EXCEPT !.count = n, !.slot = slot2, !.seen = TRUE])
    <3>1. [Top EXCEPT !.count = n, !.seen = TRUE, !.slot = slot2]
            = [Top EXCEPT !.count = n, !.slot = slot2, !.seen = TRUE]
      BY <1>4 DEF Frame
    <3> QED
      BY <1>3, <3>1
  <2> QED
    BY <1>2, <1>5, <1>8, <1>13, <1>14, <1>15, <2>1, <2>2, TableStepKeepsInv
<1> QED
  BY <1>13, <1>14, <1>16 DEF Edited

\* What diamondCut stores at its end.
LEMMA FlushedGood ==
  ASSUME Inv, Cutting
  PROVE  Good(Flushed) /\ Flushed.facet = store.facet /\ OthersKept(store, Flushed)
<1> DEFINE n == Top.count
           flushed == FlushedSlots(store.slots, n, Top.slot)
           view == View(store.slots, n, Top.slot)
<1>1. /\ n \in 0..MaxSelectors /\ Top.slot \in Slot /\ store \in Storage
      /\ store.slots \in [SlotIndex -> Slot]
      /\ Table(store, n, view)
  BY CutFacts
<1>2. /\ flushed \in [SlotIndex -> Slot] /\ view \in [SlotIndex -> Slot]
      /\ \A i \in 0..(n - 1) : At(flushed, i) = At(view, i)
  <2> HIDE DEF n
  <2> QED
    BY <1>1, FlushedView, ViewIsSlots
<1>3. PICK e : e = Flushed
  OBVIOUS
<1>4. e = WithFlushed(store, n, flushed)
  BY <1>3 DEF Flushed, FlushedSlots, WithFlushed
<1> HIDE DEF n, flushed, view
<1>5. /\ e \in Storage /\ OthersKept(store, e)
      /\ e.facet = store.facet /\ e.pos = store.pos /\ e.slots = flushed /\ e.count = n
  BY <1>1, <1>2, <1>4, FlushWrites
<1>6. Table(e, n, flushed)
  BY <1>1, <1>2, <1>5, TableSame
<1> QED
  BY <1>3, <1>5, <1>6 DEF Good

LEMMA EndsKeepInv ==
  ASSUME Inv, \/ FinishCut \/ ExtReturns \/ CallReverts
              \/ \E init \in Address : DelegateInit(init)
  PROVE  Inv'
<1>1. CASE FinishCut
  <2>1. Cutting /\ frames # <<>> /\ store' = Flushed /\ frames' = Pop(frames)
    BY <1>1 DEF FinishCut, Applying, Cutting
  <2> QED
    BY <2>1, FlushedGood, PopKeepsInv
<1>2. CASE ExtReturns
  <2>1. frames # <<>> /\ frames' = Pop(frames) /\ store' = store /\ Good(store)
    BY <1>2 DEF ExtReturns, Inv
  <2> QED
    BY <2>1, PopKeepsInv
<1>3. CASE CallReverts
  <2>1. frames # <<>> /\ store' = Top.snap /\ frames' = Pop(frames)
    BY <1>3 DEF CallReverts
  <2> QED
    BY <2>1, TopFacts, PopKeepsInv
<1>4. CASE \E init \in Address : DelegateInit(init)
  <2> DEFINE fr == [Top EXCEPT !.phase = "ext", !.count = 0, !.slot = EmptySlot]
  <2>1. Cutting /\ store' = Flushed /\ SetTop(fr)
    BY <1>4 DEF DelegateInit, Applying
  <2>2. frames # <<>> /\ Top \in Frame /\ Good(Flushed)
    BY <2>1, CutFacts, FlushedGood
  <2>3. fr \in Frame /\ fr.snap = Top.snap /\ fr.phase = "ext"
    <3>1. 0 \in 0..MaxSelectors
      BY PackedAssumption
    <3> QED
      BY <2>2, <3>1, EmptyIsSlot DEF Frame
  <2> HIDE DEF fr
  <2>4. LocalsFit(fr, store') /\ store' \in Storage /\ Good(store')
    BY <2>1, <2>2, <2>3 DEF LocalsFit, Good
  <2> QED
    BY <2>1, <2>2, <2>3, <2>4, SetTopKeepsInv
<1> QED
  BY <1>1, <1>2, <1>3, <1>4

\* The invariant is inductive, for the steps of either diamond.
THEOREM StepInv == Inv /\ [Step]_vars => Inv'
<1> SUFFICES ASSUME Inv, [Step]_vars PROVE Inv'
  OBVIOUS
<1>1. CASE UNCHANGED vars
  BY <1>1 DEF vars, Inv, Top
<1>2. CASE \E sender \in Account : RoleCall(sender) \/ RoutedCall(sender) \/ DiamondCut(sender)
  BY <1>2, CallsKeepInv
<1>3. CASE Turn
  BY <1>3, TurnKeepsInv
<1>4. CASE \E s \in Selector : Edits(s)
  BY <1>4, AddKeepsInv, ReplaceKeepsInv, RemoveKeepsInv DEF Edits, Edited
<1>5. CASE FinishCut \/ ExtReturns \/ CallReverts \/ \E init \in Address : DelegateInit(init)
  BY <1>5, EndsKeepInv
<1> QED
  BY <1>1, <1>2, <1>3, <1>4, <1>5, StepCases

THEOREM SpecInv == Spec => []Inv
<1>1. [Next]_vars => [Step]_vars
  BY DEF Step
<1> QED
  BY <1>1, InitInv, StepInv, PTL DEF Spec

THEOREM SolidstateSpecInv == SolidstateSpec => []Inv
<1>1. [SolidstateNext]_vars => [Step]_vars
  BY DEF Step
<1> QED
  BY <1>1, InitInv, StepInv, PTL DEF SolidstateSpec

--------------------------------------------------------------------------------
(* What a step does to the stack of calls. *)

\* The steps of the loops change the frame they are in.
LoopStep ==
  \/ Turn
  \/ \E s \in Selector : Edits(s)
  \/ \E init \in Address : DelegateInit(init)

LEMMA LoopStepKeepsImage ==
  ASSUME Inv, LoopStep
  PROVE  Cutting /\ \E fr : SetTop(fr) /\ fr.snap = Top.snap
<1>1. Cutting
  BY DEF LoopStep, Turn, Edits, Adds, Removes, StartAdd, SolidstateStartAdd, StartReplace, StartRemove,
         StartFacetCut, SkipFacetCut, AddSelector, SolidstateAddSelector, ReplaceSelector,
         RemoveSelector, SolidstateRemoveSelector, EndFacetCut, DelegateInit, Applying
<1>2. Top \in Frame
  BY <1>1, CutFacts
<1>3. CASE Turn
  <2>1. PICK act, f : \/ SetTop([Top EXCEPT !.act = act, !.to = f, !.seen = FALSE])
                     \/ SetTop([Top EXCEPT !.act = "skip", !.seen = TRUE])
    BY <1>3 DEF Turn, StartAdd, SolidstateStartAdd, StartReplace, StartRemove, StartFacetCut,
                SkipFacetCut, EndFacetCut
  <2>2. /\ [Top EXCEPT !.act = act, !.to = f, !.seen = FALSE].snap = Top.snap
        /\ [Top EXCEPT !.act = "skip", !.seen = TRUE].snap = Top.snap
    BY <1>2 DEF Frame
  <2> QED
    BY <1>1, <2>1, <2>2
<1>4. CASE \E s \in Selector : Adds(s)
  <2>1. PICK n, slot : SetTop([Top EXCEPT !.count = n, !.slot = slot, !.seen = TRUE])
    BY <1>4 DEF Adds, AddSelector, SolidstateAddSelector
  <2>2. [Top EXCEPT !.count = n, !.slot = slot, !.seen = TRUE].snap = Top.snap
    BY <1>2 DEF Frame
  <2> QED
    BY <1>1, <2>1, <2>2
<1>5. CASE \E s \in Selector : ReplaceSelector(s)
  <2>1. SetTop([Top EXCEPT !.seen = TRUE])
    BY <1>5 DEF ReplaceSelector
  <2>2. [Top EXCEPT !.seen = TRUE].snap = Top.snap
    BY <1>2 DEF Frame
  <2> QED
    BY <1>1, <2>1, <2>2
<1>6. CASE \E s \in Selector : Removes(s)
  <2>1. PICK n, slot : \/ SetTop([Top EXCEPT !.count = n, !.seen = TRUE, !.slot = slot])
                      \/ SetTop([Top EXCEPT !.count = n, !.slot = slot, !.seen = TRUE])
    BY <1>6 DEF Removes, RemoveSelector, SolidstateRemoveSelector
  <2>2. /\ [Top EXCEPT !.count = n, !.seen = TRUE, !.slot = slot].snap = Top.snap
        /\ [Top EXCEPT !.count = n, !.slot = slot, !.seen = TRUE].snap = Top.snap
    BY <1>2 DEF Frame
  <2> QED
    BY <1>1, <2>1, <2>2
<1>7. CASE \E init \in Address : DelegateInit(init)
  <2>1. SetTop([Top EXCEPT !.phase = "ext", !.count = 0, !.slot = EmptySlot])
    BY <1>7 DEF DelegateInit
  <2>2. [Top EXCEPT !.phase = "ext", !.count = 0, !.slot = EmptySlot].snap = Top.snap
    BY <1>2 DEF Frame
  <2> QED
    BY <1>1, <2>1, <2>2
<1> QED
  BY <1>3, <1>4, <1>5, <1>6, <1>7 DEF LoopStep, Edits

StackKept ==
  Len(frames') = Len(frames) /\ \A i \in 1..Len(frames) : frames'[i].snap = frames[i].snap

StackPushed ==
  /\ Len(frames') = Len(frames) + 1
  /\ \A i \in 1..Len(frames) : frames'[i].snap = frames[i].snap
  /\ frames'[Len(frames')].snap = store
  /\ store' = store
  /\ Good(store) /\ ~Cutting

StackPopped ==
  /\ frames # <<>> /\ Len(frames') = Len(frames) - 1
  /\ \A i \in 1..Len(frames') : frames'[i].snap = frames[i].snap

\* Steps inside the innermost call leave its image alone.
LEMMA SetTopKeepsStack ==
  ASSUME Inv, [Step]_vars, frames # <<>>, NEW fr, fr.snap = Top.snap, SetTop(fr)
  PROVE  StackKept
<1> DEFINE m == Len(frames')
           n == Len(frames)
<1>1. frames \in Seq(Frame) /\ n \in Nat /\ DOMAIN frames = 1..n /\ n \in 1..n
  BY LenProperties, EmptySeq DEF Inv
<1>2. frames' \in Seq(Frame) /\ m \in Nat /\ DOMAIN frames' = 1..m
  BY StepInv, LenProperties DEF Inv
<1>3. DOMAIN frames' = DOMAIN frames /\ \A i \in DOMAIN frames : frames'[i].snap = frames[i].snap
  BY <1>1 DEF SetTop, Top
<1>4. m = n
  <2> HIDE DEF m, n
  <2> QED
    BY <1>1, <1>2, <1>3
<1> QED
  BY <1>1, <1>3, <1>4 DEF StackKept

LEMMA StepStack ==
  ASSUME Inv, [Step]_vars
  PROVE  StackKept \/ StackPushed \/ StackPopped
<1>1. frames \in Seq(Frame)
  BY DEF Inv
<1>2. CASE frames' = frames
  BY <1>2 DEF StackKept
<1>3. CASE FinishCut \/ ExtReturns \/ CallReverts
  <2>1. frames # <<>> /\ frames' = Pop(frames)
    BY <1>3 DEF FinishCut, ExtReturns, CallReverts, Applying, Cutting
  <2> QED
    BY <1>1, <2>1, PopFacts DEF StackPopped
<1>4. CASE LoopStep
  <2>1. frames # <<>> /\ \E fr : SetTop(fr) /\ fr.snap = Top.snap
    BY <1>4, LoopStepKeepsImage DEF Cutting
  <2> QED
    BY <2>1, SetTopKeepsStack
<1>5. CASE \E sender \in Account : RoutedCall(sender) \/ DiamondCut(sender)
  <2>1. PICK fr \in Frame : fr.snap = store /\ frames' = Append(frames, fr) /\ store' = store
    BY <1>5, EnterFacts
  <2>2. Good(store) /\ ~Cutting
    BY <1>5, EnterFacts DEF Cutting
  <2> QED
    BY <1>1, <2>1, <2>2, AppendProperties, LenProperties DEF StackPushed
<1>6. CASE \E sender \in Account : RoleCall(sender)
  BY <1>2, <1>6, RoleCallFacts
<1>7. CASE UNCHANGED vars
  BY <1>2, <1>7 DEF vars
<1> QED
  BY <1>3, <1>4, <1>5, <1>6, <1>7, StepCases DEF LoopStep

\* What holds of the storage when a call starts, and of every image, holds of every image.
LEMMA SnapsStay ==
  ASSUME Inv, [Step]_vars, NEW S, \A i \in DOMAIN frames : frames[i].snap \in S,
         StackPushed => store \in S
  PROVE  \A i \in DOMAIN frames' : frames'[i].snap \in S
<1> SUFFICES ASSUME NEW n, n = Len(frames), NEW m, m = Len(frames')
             PROVE  \A i \in DOMAIN frames' : frames'[i].snap \in S
  OBVIOUS
<1>1. n \in Nat /\ DOMAIN frames = 1..n /\ m \in Nat /\ DOMAIN frames' = 1..m
  BY LenProperties, StepInv DEF Inv
<1>2. \/ m = n /\ \A i \in 1..m : frames'[i].snap = frames[i].snap
      \/ /\ m = n + 1 /\ (\A i \in 1..n : frames'[i].snap = frames[i].snap)
         /\ frames'[m].snap = store /\ store \in S
      \/ m = n - 1 /\ \A i \in 1..m : frames'[i].snap = frames[i].snap
  BY <1>1, StepStack DEF StackKept, StackPushed, StackPopped
<1> QED
  BY <1>1, <1>2

\* What holds of the storage and of every image, and is kept by what a step writes.
ImagesIn(S) == store \in S /\ \A i \in DOMAIN frames : frames[i].snap \in S

LEMMA ImagesStay ==
  ASSUME Inv, [Step]_vars, NEW S, ImagesIn(S), CallReverts \/ store' \in S
  PROVE  store' \in S /\ \A i \in DOMAIN frames' : frames'[i].snap \in S
<1>1. ASSUME CallReverts
      PROVE  store' \in S
  <2>1. frames # <<>> /\ store' = frames[Len(frames)].snap
    BY <1>1 DEF CallReverts, Top
  <2>2. Len(frames) \in DOMAIN frames
    BY <2>1, LenProperties, EmptySeq DEF Inv
  <2> QED
    BY <2>1, <2>2 DEF ImagesIn
<1> QED
  BY <1>1, SnapsStay DEF ImagesIn

\* Every step but a revert writes a storage of the same kind.
LEMMA StepWrites ==
  ASSUME Inv, [Step]_vars
  PROVE  \/ CallReverts
         \/ store' = store \/ OthersKept(store, store')
         \/ \E sender \in Account : RoleCall(sender) /\ RolesWritten(store, store')
<1>1. CASE \E s \in Selector : Edits(s)
  BY <1>1, AddKeepsInv, ReplaceKeepsInv, RemoveKeepsInv DEF Edits, Edited
<1>2. CASE FinishCut \/ \E init \in Address : DelegateInit(init)
  BY <1>2, FlushedGood DEF FinishCut, DelegateInit, Applying
<1>3. CASE \E sender \in Account : RoleCall(sender)
  BY <1>3, RoleCallFacts
<1>4. CASE \E sender \in Account : RoutedCall(sender) \/ DiamondCut(sender)
  BY <1>4, EnterFacts
<1>5. CASE Turn
  BY <1>5, TurnKeepsInv
<1> QED
  BY <1>1, <1>2, <1>3, <1>4, <1>5, StepCases DEF vars, ExtReturns

--------------------------------------------------------------------------------
(* What follows for the records and the slots. *)

\* No loop runs: the storage is an image of its own.
LEMMA RestingGood ==
  ASSUME Inv, ~Cutting
  PROVE  Good(store)
<1>1. frames # <<>> => Top \in Frame /\ Top.phase # "cut"
  BY TopFacts DEF Cutting
<1>2. frames # <<>> => Top.phase = "ext"
  BY <1>1 DEF Frame
<1> QED
  BY <1>2 DEF Inv

\* Inside the loops and outside, the count and the slots make a table.
LEMMA CountAndSlots ==
  ASSUME Inv
  PROVE  Table(store, Count, Slots)
<1>1. CASE Cutting
  <2>1. Count = Top.count /\ Slots = View(store.slots, Top.count, Top.slot)
    BY <1>1 DEF Count, Slots, View
  <2> QED
    BY <1>1, <2>1, CutFacts
<1>2. CASE ~Cutting
  <2>1. Count = store.count /\ Slots = store.slots
    BY <1>2 DEF Count, Slots
  <2> QED
    BY <1>2, <2>1, RestingGood DEF Good
<1> QED
  BY <1>1, <1>2

LEMMA InvIsIndexed == Inv => SelectorsIndexed /\ NoResidue /\ RoutedFacetsHaveCode
<1>1. Inv => SelectorsIndexed
  BY CountAndSlots DEF Inv, Good, Table, SelectorsIndexed
<1>2. Inv => NoResidue /\ RoutedFacetsHaveCode
  BY CountAndSlots DEF Table, NoResidue, RoutedFacetsHaveCode
<1> QED
  BY <1>1, <1>2

\* In every reachable state of a packed diamond the slots, with the one diamondCut holds
\* in a local, list every routed selector once, at the place its record says, and list
\* nothing else.
THEOREM SpecSelectorsIndexed == Spec => []SelectorsIndexed
  BY InvIsIndexed, SpecInv, PTL

\* The same for a Solidstate diamond, whose slots keep what was removed from them.
THEOREM SolidstateSpecSelectorsIndexed == SolidstateSpec => []SelectorsIndexed
  BY InvIsIndexed, SolidstateSpecInv, PTL

\* A removed selector leaves no position behind.
THEOREM SpecNoResidue == Spec => []NoResidue
  BY InvIsIndexed, SpecInv, PTL

\* A Solidstate diamond can add a selector again once it has removed it: nothing of the
\* record is left that its Add would stop at.
THEOREM SolidstateSpecNoResidue == SolidstateSpec => []NoResidue
  BY InvIsIndexed, SolidstateSpecInv, PTL

\* No selector is ever routed to an address without code.
THEOREM SpecRoutedFacetsHaveCode == Spec => []RoutedFacetsHaveCode
  BY InvIsIndexed, SpecInv, PTL

\* The same for a Solidstate diamond.
THEOREM SolidstateSpecRoutedFacetsHaveCode == SolidstateSpec => []RoutedFacetsHaveCode
  BY InvIsIndexed, SolidstateSpecInv, PTL

--------------------------------------------------------------------------------
(* The loupe. *)

\* A set of natural numbers that is not empty has a least element.
LEMMA LeastNumber ==
  ASSUME NEW S, S \subseteq Nat, S # {}
  PROVE  \E i \in S : \A j \in S : i <= j
<1>1. PICK i \in S : \A j \in S : ~(<<j, i>> \in OpToRel(<, Nat))
  BY NatLessThanWellFounded, WFMin
<1>2. ASSUME NEW j \in S
      PROVE  i <= j
  <2>1. i \in Nat /\ j \in Nat
    BY <1>1
  <2>2. ~(j < i)
    BY <1>1, <2>1 DEF OpToRel
  <2> QED
    BY <2>1, <2>2
<1> QED
  BY <1>1, <1>2

\* The entries of facets() that show selector s.
EntriesOf(s) ==
  {e \in (DOMAIN facets) \X Places :
     /\ e[2] \in DOMAIN facets[e[1]].functionSelectors
     /\ facets[e[1]].functionSelectors[e[2]] = s}

\* An entry for s pairs a first place of its facet with the place on record for s.
LEMMA EntryShows ==
  ASSUME NEW s, NEW i, NEW j
  PROVE  <<i, j>> \in EntriesOf(s)
           <=> i \in FirstPlaces /\ j \in Places /\ ScanAt(j) = s /\ FacetAt(i) = FacetAt(j)
<1>1. DOMAIN facets = FirstPlaces
  BY DEF facets
<1>2. ASSUME i \in FirstPlaces
      PROVE  /\ facets[i].facetAddress = FacetAt(i)
             /\ facets[i].functionSelectors = facetFunctionSelectors(FacetAt(i))
  BY <1>2 DEF facets, facetAddresses
<1>3. ASSUME j \in Places
      PROVE  /\ j \in DOMAIN facetFunctionSelectors(FacetAt(i)) <=> FacetAt(j) = FacetAt(i)
             /\ FacetAt(j) = FacetAt(i) => facetFunctionSelectors(FacetAt(i))[j] = ScanAt(j)
  BY <1>3 DEF facetFunctionSelectors
<1> HIDE DEF Places, FirstPlaces
<1> QED
  BY <1>1, <1>2, <1>3 DEF EntriesOf

\* A facet that the scan meets has one first place.
LEMMA FirstPlaceOf ==
  ASSUME Inv, ~Cutting, NEW p \in Places
  PROVE  \E i \in FirstPlaces :
           /\ FacetAt(i) = FacetAt(p)
           /\ \A k \in FirstPlaces : FacetAt(k) = FacetAt(p) => k = i
<1> DEFINE S == {i \in Places : FacetAt(i) = FacetAt(p)}
<1>1. store.count \in Nat
  BY PackedAssumption, FieldsTyped DEF Inv
<1>2. Places \subseteq Nat /\ \A i \in Places : \A j \in 0..(i - 1) : j \in Places /\ j < i
  BY <1>1 DEF Places
<1> HIDE DEF Places
<1>3. S \subseteq Nat /\ p \in S
  BY <1>2
<1>4. PICK i \in S : \A j \in S : i <= j
  <2> HIDE DEF S
  <2> QED
    BY <1>3, LeastNumber
<1>5. i \in FirstPlaces
  <2>1. ASSUME NEW j \in 0..(i - 1)
        PROVE  FacetAt(j) # FacetAt(i)
    <3>1. i \in Nat /\ j \in Nat /\ j < i /\ j \in Places
      BY <1>2, <1>4
    <3>2. j \notin S
      <4> HIDE DEF S
      <4> QED
        BY <1>4, <3>1
    <3> QED
      BY <1>4, <3>1, <3>2
  <2> QED
    BY <1>4, <2>1 DEF FirstPlaces
<1>6. ASSUME NEW k \in FirstPlaces, FacetAt(k) = FacetAt(p)
      PROVE  k = i
  <2>1. k \in Places /\ k \in S /\ k \in Nat /\ i \in Nat /\ i <= k
    BY <1>2, <1>3, <1>4, <1>6 DEF FirstPlaces
  <2>2. i \notin 0..(k - 1)
    BY <1>4, <1>6 DEF FirstPlaces
  <2> QED
    BY <2>1, <2>2
<1> QED
  BY <1>4, <1>5, <1>6

LEMMA InvMatchesRouter == Inv => LoupeMatchesRouter
<1>1. ASSUME Inv, ~Cutting, NEW s \in Selector
      PROVE  IF store.facet[s] = Zero THEN EntriesOf(s) = {}
             ELSE \E e \in EntriesOf(s) :
                    EntriesOf(s) = {e} /\ facets[e[1]].facetAddress = store.facet[s]
  <2>1. /\ store \in Storage /\ store.count \in 0..MaxSelectors /\ store.slots \in [SlotIndex -> Slot]
        /\ Table(store, store.count, store.slots)
    BY <1>1, RestingGood, FieldsTyped DEF Good
  <2>2. Entries(store, store.count, store.slots)
    BY <2>1, TableEntries
  <2>3. /\ \A i \in Places : /\ store.facet[ScanAt(i)] # Zero
                             /\ store.pos[ScanAt(i)] = i
        /\ store.facet[s] # Zero => store.pos[s] \in Places /\ ScanAt(store.pos[s]) = s
    BY <2>2 DEF Entries, Places, At, ScanAt
  <2>4. \A e \in EntriesOf(s) : e = <<e[1], e[2]>>
    BY DEF EntriesOf
  <2>5. CASE store.facet[s] = Zero
    <3>1. ASSUME NEW e \in EntriesOf(s)
          PROVE  FALSE
      <4>1. e[2] \in Places /\ ScanAt(e[2]) = s
        BY <2>4, EntryShows
      <4> QED
        BY <2>3, <2>5, <4>1
    <3> QED
      BY <2>5, <3>1
  <2>6. CASE store.facet[s] # Zero
    <3> DEFINE p == store.pos[s]
    <3>1. p \in Places /\ ScanAt(p) = s /\ FacetAt(p) = store.facet[s]
      BY <2>3, <2>6 DEF FacetAt
    <3> HIDE DEF p
    <3>2. PICK i \in FirstPlaces :
            /\ FacetAt(i) = FacetAt(p)
            /\ \A k \in FirstPlaces : FacetAt(k) = FacetAt(p) => k = i
      BY <1>1, <3>1, FirstPlaceOf
    <3>3. <<i, p>> \in EntriesOf(s)
      BY <3>1, <3>2, EntryShows
    <3>4. ASSUME NEW e \in EntriesOf(s)
          PROVE  e = <<i, p>>
      <4>1. /\ e = <<e[1], e[2]>> /\ e[1] \in FirstPlaces /\ e[2] \in Places
            /\ ScanAt(e[2]) = s /\ FacetAt(e[1]) = FacetAt(e[2])
        BY <2>4, EntryShows
      <4>2. e[2] = p
        BY <2>3, <4>1 DEF p
      <4> QED
        BY <3>2, <4>1, <4>2
    <3>5. facets[i].facetAddress = store.facet[s]
      BY <3>1, <3>2 DEF facets, facetAddresses
    <3>6. EntriesOf(s) = {<<i, p>>}
      BY <3>3, <3>4
    <3> QED
      BY <2>6, <3>3, <3>5, <3>6
  <2> QED
    BY <2>5, <2>6
<1> QED
  BY <1>1 DEF LoupeMatchesRouter, EntriesOf

\* Whenever another contract can ask a packed diamond, facets() shows each routed selector
\* exactly once, under the facet that the router would delegatecall, and no other selector.
THEOREM SpecLoupeMatchesRouter == Spec => []LoupeMatchesRouter
  BY InvMatchesRouter, SpecInv, PTL

\* A Solidstate diamond's loupe shows its routes as well, the fallback left out.
THEOREM SolidstateSpecLoupeMatchesRouter == SolidstateSpec => []LoupeMatchesRouter
  BY InvMatchesRouter, SolidstateSpecInv, PTL

--------------------------------------------------------------------------------
(* Both diamonds implement the abstract registry. *)

LEMMA GoodRoutes ==
  ASSUME NEW d, Good(d)
  PROVE  d.facet \in [Selector -> HasCode \union {Zero}]
  BY FieldsTyped DEF Good, Table

Image(d) == [route |-> d.facet, frozen |-> d.frozen]
UndoOf(fs) == [i \in DOMAIN fs |-> Image(fs[i].snap)]

LEMMA UndoSeq ==
  ASSUME NEW fs \in Seq(Frame), \A i \in DOMAIN fs : Good(fs[i].snap)
  PROVE  /\ UndoOf(fs) \in Seq(Registry!Image)
         /\ Len(UndoOf(fs)) = Len(fs)
         /\ \A i \in 1..Len(fs) : UndoOf(fs)[i] = Image(fs[i].snap)
<1>1. Len(fs) \in Nat /\ DOMAIN fs = 1..Len(fs)
  BY LenProperties
<1>2. \A i \in DOMAIN fs : Image(fs[i].snap) \in Registry!Image
  BY GoodRoutes, FieldsTyped DEF Image, Registry!Image, Good
<1>3. UndoOf(fs) \in [1..Len(fs) -> Registry!Image]
  BY <1>1, <1>2 DEF UndoOf
<1> QED
  BY <1>1, <1>3, SeqDef DEF UndoOf

\* Appending a frame appends its image.
LEMMA UndoPush ==
  ASSUME NEW fs \in Seq(Frame), \A i \in DOMAIN fs : Good(fs[i].snap),
         NEW fr \in Frame, Good(fr.snap)
  PROVE  UndoOf(Append(fs, fr)) = Append(UndoOf(fs), Image(fr.snap))
<1> DEFINE gs == Append(fs, fr)
           n == Len(fs)
           us == UndoOf(fs)
           vs == Append(us, Image(fr.snap))
<1>1. n \in Nat /\ DOMAIN fs = 1..n
  BY LenProperties
<1>2. /\ gs \in Seq(Frame) /\ Len(gs) = n + 1 /\ DOMAIN gs = 1..(n + 1)
      /\ gs[n + 1] = fr /\ \A i \in 1..n : gs[i] = fs[i]
  BY AppendProperties, LenProperties
<1>3. /\ us \in Seq(Registry!Image) /\ Len(us) = n
      /\ \A i \in 1..n : us[i] = Image(fs[i].snap)
  BY UndoSeq
<1>4. Image(fr.snap) \in Registry!Image
  BY GoodRoutes, FieldsTyped DEF Image, Registry!Image, Good
<1> HIDE DEF gs, us, n
<1>5. /\ vs \in Seq(Registry!Image) /\ Len(vs) = n + 1
      /\ vs[n + 1] = Image(fr.snap) /\ \A i \in 1..n : vs[i] = us[i]
  BY <1>3, <1>4, AppendProperties
<1>6. \A i \in 1..(n + 1) : i \in 1..n \/ i = n + 1
  BY <1>1
<1>7. \A i \in DOMAIN gs : Good(gs[i].snap)
  BY <1>1, <1>2, <1>6
<1>8. /\ UndoOf(gs) \in Seq(Registry!Image) /\ Len(UndoOf(gs)) = n + 1
      /\ \A i \in 1..(n + 1) : UndoOf(gs)[i] = Image(gs[i].snap)
  BY <1>2, <1>7, UndoSeq
<1> HIDE DEF vs
<1>9. \A i \in 1..(n + 1) : UndoOf(gs)[i] = vs[i]
  <2> SUFFICES ASSUME NEW i \in 1..(n + 1)  PROVE UndoOf(gs)[i] = vs[i]
    OBVIOUS
  <2>1. UndoOf(gs)[i] = Image(gs[i].snap)
    BY <1>8
  <2>2. CASE i \in 1..n
    <3>1. gs[i] = fs[i] /\ vs[i] = us[i] /\ us[i] = Image(fs[i].snap)
      BY <1>2, <1>3, <1>5, <2>2
    <3> QED
      BY <2>1, <3>1
  <2>3. CASE i = n + 1
    BY <1>2, <1>5, <2>1, <2>3
  <2> QED
    BY <1>6, <2>2, <2>3
<1>10. UndoOf(gs) = vs
  BY <1>5, <1>8, <1>9, SeqEqual
<1> QED
  BY <1>10 DEF gs, vs, us

\* Popping a frame pops its image.
LEMMA UndoPop ==
  ASSUME NEW fs \in Seq(Frame), fs # <<>>, \A i \in DOMAIN fs : Good(fs[i].snap)
  PROVE  /\ UndoOf(Pop(fs)) = Registry!Pop(UndoOf(fs))
         /\ UndoOf(fs) # <<>>
         /\ UndoOf(fs)[Len(UndoOf(fs))] = Image(fs[Len(fs)].snap)
<1> DEFINE gs == Pop(fs)
           n == Len(fs)
           us == UndoOf(fs)
           vs == Pop(us)
<1>1. n \in Nat \ {0} /\ DOMAIN fs = 1..n
  BY LenProperties, EmptySeq
<1>2. /\ gs \in Seq(Frame) /\ Len(gs) = n - 1 /\ DOMAIN gs = 1..(n - 1)
      /\ \A i \in 1..(n - 1) : gs[i] = fs[i]
  BY PopFacts, LenProperties
<1>3. /\ us \in Seq(Registry!Image) /\ Len(us) = n
      /\ \A i \in 1..n : us[i] = Image(fs[i].snap)
  BY UndoSeq
<1>4. us # <<>> /\ us[n] = Image(fs[n].snap)
  BY <1>1, <1>3, EmptySeq
<1> HIDE DEF gs, us, n
<1>5. /\ vs \in Seq(Registry!Image) /\ Len(vs) = n - 1
      /\ \A i \in 1..(n - 1) : vs[i] = us[i]
  <2>1. /\ vs \in Seq(Registry!Image) /\ Len(vs) = Len(us) - 1
        /\ \A i \in 1..(Len(us) - 1) : vs[i] = us[i]
    BY <1>3, <1>4, PopFacts
  <2> QED
    BY <1>3, <2>1
<1>6. \A i \in 1..(n - 1) : i \in 1..n
  <2>1. n \in Nat
    BY <1>1
  <2> QED
    BY <2>1
<1>7. \A i \in DOMAIN gs : Good(gs[i].snap)
  BY <1>1, <1>2, <1>6
<1>8. /\ UndoOf(gs) \in Seq(Registry!Image) /\ Len(UndoOf(gs)) = n - 1
      /\ \A i \in 1..(n - 1) : UndoOf(gs)[i] = Image(gs[i].snap)
  BY <1>2, <1>7, UndoSeq
<1> HIDE DEF vs
<1>9. \A i \in 1..(n - 1) : UndoOf(gs)[i] = vs[i]
  BY <1>2, <1>3, <1>5, <1>6, <1>8
<1>10. UndoOf(gs) = vs
  BY <1>5, <1>8, <1>9, SeqEqual
<1> QED
  BY <1>3, <1>4, <1>10 DEF gs, vs, us, n, Pop, Registry!Pop

\* A step inside the innermost call keeps every image.
LEMMA UndoSet ==
  ASSUME Inv, frames # <<>>, NEW fr, fr.snap = Top.snap, SetTop(fr)
  PROVE  UndoOf(frames') = UndoOf(frames)
<1>1. frames \in Seq(Frame) /\ DOMAIN frames = 1..Len(frames) /\ Len(frames) \in DOMAIN frames
  BY EmptySeq, LenProperties DEF Inv
<1>2. DOMAIN frames' = DOMAIN frames /\ \A i \in DOMAIN frames : frames'[i].snap = frames[i].snap
  BY <1>1 DEF SetTop, Top
<1> QED
  BY <1>2 DEF UndoOf

\* One step of the abstract registry, on the mapped variables.
RegistryStep ==
  LET undo  == UndoOf(frames)
      undo2 == UndoOf(frames')
      same  == store'.facet = store.facet /\ store'.frozen = store.frozen
      last  == undo[Len(undo)]
  IN  \/ same /\ undo2 = undo
      \/ same /\ undo2 = Append(undo, Image(store))
      \/ undo # <<>> /\ same /\ undo2 = Registry!Pop(undo)
      \/ undo # <<>> /\ Image(store') = last /\ undo2 = Registry!Pop(undo)
      \/ store'.frozen = TRUE /\ store'.facet = store.facet /\ undo2 = undo
      \/ /\ undo # <<>> /\ ~store.frozen /\ store'.frozen = store.frozen /\ undo2 = undo
         /\ \E s \in Selector :
              \/ \E f \in HasCode :
                   /\ store.facet[s] = Zero \/ store.facet[s] \notin {Zero, Self, f}
                   /\ store'.facet = [store.facet EXCEPT ![s] = f]
              \/ /\ store.facet[s] \notin {Zero, Self}
                 /\ store'.facet = [store.facet EXCEPT ![s] = Zero]

LEMMA RegistryStepIsNext == RegistryStep => [Registry!Next]_(Registry!vars)
<1> SUFFICES ASSUME RegistryStep PROVE [Registry!Next]_(Registry!vars)
  OBVIOUS
<1> DEFINE undo == UndoOf(frames)
           undo2 == UndoOf(frames')
           same == store'.facet = store.facet /\ store'.frozen = store.frozen
<1>1. CASE same /\ undo2 = undo
  BY <1>1 DEF Registry!vars, UndoOf, Image
<1>2. CASE same /\ undo2 = Append(undo, Image(store))
  BY <1>2 DEF Registry!Next, Registry!Enter, UndoOf, Image
<1>3. CASE undo # <<>> /\ same /\ undo2 = Registry!Pop(undo)
  BY <1>3 DEF Registry!Next, Registry!Return, UndoOf, Image
<1>4. CASE undo # <<>> /\ Image(store') = undo[Len(undo)] /\ undo2 = Registry!Pop(undo)
  <2>1. store'.facet = undo[Len(undo)].route /\ store'.frozen = undo[Len(undo)].frozen
    BY <1>4 DEF Image
  <2> QED
    BY <1>4, <2>1 DEF Registry!Next, Registry!Revert, UndoOf, Image
<1>5. CASE store'.frozen = TRUE /\ store'.facet = store.facet /\ undo2 = undo
  BY <1>5 DEF Registry!Next, Registry!Freeze, UndoOf, Image
<1>6. CASE /\ undo # <<>> /\ ~store.frozen /\ store'.frozen = store.frozen /\ undo2 = undo
           /\ \E s \in Selector :
                \/ \E f \in HasCode :
                     /\ store.facet[s] = Zero \/ store.facet[s] \notin {Zero, Self, f}
                     /\ store'.facet = [store.facet EXCEPT ![s] = f]
                \/ /\ store.facet[s] \notin {Zero, Self}
                   /\ store'.facet = [store.facet EXCEPT ![s] = Zero]
  BY <1>6 DEF Registry!Next, Registry!Install, Registry!Reroute, Registry!Uninstall, UndoOf, Image
<1> QED
  BY <1>1, <1>2, <1>3, <1>4, <1>5, <1>6 DEF RegistryStep

\* Every step of either diamond is a step of the registry, or none.
LEMMA StepRefines == Inv /\ [Step]_vars => RegistryStep
<1> SUFFICES ASSUME Inv, [Step]_vars PROVE RegistryStep
  OBVIOUS
<1> DEFINE undo == UndoOf(frames)
           undo2 == UndoOf(frames')
<1>0. ASSUME frames' = frames
      PROVE  undo2 = undo
  BY <1>0
<1>1. ASSUME frames # <<>>, frames' = Pop(frames)
      PROVE  undo # <<>> /\ undo2 = Registry!Pop(undo) /\ undo[Len(undo)] = Image(Top.snap)
  BY <1>1, UndoPop DEF Inv, Top
<1>2. CASE UNCHANGED vars
  BY <1>2, <1>0 DEF vars, RegistryStep
<1>3. CASE \E sender \in Account : RoleCall(sender)
  <2>1. frames' = frames /\ store'.facet = store.facet /\ store'.frozen \in {store.frozen, TRUE}
    BY <1>3, RoleCallFacts DEF RolesWritten
  <2> QED
    BY <1>0, <2>1 DEF RegistryStep
<1>4. CASE \E sender \in Account : RoutedCall(sender) \/ DiamondCut(sender)
  <2>1. PICK fr \in Frame : fr.snap = store /\ frames' = Append(frames, fr) /\ store' = store
    BY <1>4, EnterFacts
  <2>2. Good(store)
    BY <1>4, EnterFacts
  <2>3. undo2 = Append(undo, Image(store))
    BY <2>1, <2>2, UndoPush DEF Inv
  <2> QED
    BY <2>1, <2>3 DEF RegistryStep
<1>5. ASSUME LoopStep
      PROVE  undo2 = undo /\ undo # <<>> /\ ~store.frozen
  <2>1. Cutting /\ frames # <<>> /\ ~store.frozen
    BY <1>5, LoopStepKeepsImage, CutFacts
  <2>2. undo2 = undo
    BY <1>5, <2>1, LoopStepKeepsImage, UndoSet
  <2>3. undo # <<>>
    BY <2>1, UndoPop DEF Inv
  <2> QED
    BY <2>1, <2>2, <2>3
<1>6. CASE \E s \in Selector : Adds(s) \/ ReplaceSelector(s)
  <2>1. PICK s \in Selector : Adds(s) \/ ReplaceSelector(s)
    BY <1>6
  <2>2. undo2 = undo /\ undo # <<>> /\ ~store.frozen
    BY <1>5, <2>1 DEF LoopStep, Edits
  <2>3. Top.to \in HasCode
    BY <2>1, CutFacts DEF Adds, AddSelector, SolidstateAddSelector, ReplaceSelector, Applying
  <2>4. store'.facet = [store.facet EXCEPT ![s] = Top.to] /\ store'.frozen = store.frozen
    BY <2>1, AddKeepsInv, ReplaceKeepsInv DEF Edited, OthersKept
  <2>5. store.facet[s] = Zero \/ store.facet[s] \notin {Zero, Self, Top.to}
    BY <2>1 DEF Adds, AddSelector, SolidstateAddSelector, ReplaceSelector
  <2> QED
    BY <2>2, <2>3, <2>4, <2>5 DEF RegistryStep
<1>7. CASE \E s \in Selector : Removes(s)
  <2>1. PICK s \in Selector : Removes(s)
    BY <1>7
  <2>2. undo2 = undo /\ undo # <<>> /\ ~store.frozen
    BY <1>5, <2>1 DEF LoopStep, Edits
  <2>3. store'.facet = [store.facet EXCEPT ![s] = Zero] /\ store'.frozen = store.frozen
    BY <2>1, RemoveKeepsInv DEF Edited, OthersKept
  <2>4. store.facet[s] \notin {Zero, Self}
    BY <2>1 DEF Removes, RemoveSelector, SolidstateRemoveSelector
  <2> QED
    BY <2>1, <2>2, <2>3, <2>4 DEF RegistryStep
<1>8. CASE Turn
  BY <1>5, <1>8, TurnKeepsInv DEF LoopStep, RegistryStep
<1>9. CASE \E init \in Address : DelegateInit(init)
  <2>1. store' = Flushed /\ Cutting
    BY <1>9 DEF DelegateInit, Applying
  <2>2. undo2 = undo
    BY <1>5, <1>9 DEF LoopStep
  <2> QED
    BY <2>1, <2>2, FlushedGood DEF RegistryStep, OthersKept
<1>10. CASE FinishCut \/ ExtReturns
  <2>1. frames # <<>> /\ frames' = Pop(frames)
    BY <1>10 DEF FinishCut, ExtReturns, Applying, Cutting
  <2>2. store'.facet = store.facet /\ store'.frozen = store.frozen
    BY <1>10, FlushedGood DEF FinishCut, ExtReturns, Applying, OthersKept
  <2> QED
    BY <1>1, <2>1, <2>2 DEF RegistryStep
<1>11. CASE CallReverts
  <2>1. frames # <<>> /\ frames' = Pop(frames) /\ store' = Top.snap
    BY <1>11 DEF CallReverts
  <2> QED
    BY <1>1, <2>1 DEF RegistryStep
<1> QED
  BY <1>2, <1>3, <1>4, <1>6, <1>7, <1>8, <1>9, <1>10, <1>11, StepCases DEF Edits

\* The packed diamond implements the same registry as the array diamond, although its
\* router reads the records and its loupe the slots: cuts, freezing, routed calls and
\* reverts included, for any number of selectors and any number of them to a slot.
THEOREM SpecImplementsRegistry == Spec => ImplementsRegistry
<1>1. Init => Registry!Init
  BY DEF Init, NoSelectors, Registry!Init
<1>2. Inv /\ [Next]_vars => [Registry!Next]_(Registry!vars)
  BY StepRefines, RegistryStepIsNext DEF Step
<1> QED
  BY <1>1, <1>2, SpecInv, PTL DEF Spec, ImplementsRegistry, Registry!Spec

\* So does the Solidstate diamond: its fallback, its two steps of ownership and the slots
\* it never clears are none of the registry's business.
THEOREM SolidstateSpecImplementsRegistry == SolidstateSpec => ImplementsRegistry
<1>1. SolidstateInit => Registry!Init
  <2> SUFFICES ASSUME SolidstateInit PROVE Registry!Init
    OBVIOUS
  <2>1. PICK owner \in RoleHolder :
          store = [x \in SolidstateField |->
                     IF x \in DOMAIN NoSelectors(owner) THEN NoSelectors(owner)[x] ELSE Zero]
    BY DEF SolidstateInit
  <2>2. store.facet = [s \in Selector |-> Zero] /\ store.frozen = FALSE
    BY <2>1 DEF NoSelectors, SolidstateField
  <2>3. frames = <<>>
    BY DEF SolidstateInit
  <2> QED
    BY <2>2, <2>3 DEF Registry!Init
<1>2. Inv /\ [SolidstateNext]_vars => [Registry!Next]_(Registry!vars)
  BY StepRefines, RegistryStepIsNext DEF Step
<1> QED
  BY <1>1, <1>2, SolidstateSpecInv, PTL DEF SolidstateSpec, ImplementsRegistry, Registry!Spec

--------------------------------------------------------------------------------
(* What a committed diamond promises. *)

\* Image e keeps what image d has fixed: all of it once it is frozen, otherwise the
\* selectors that are routed to the diamond itself.
Keeps(d, e) ==
  /\ d.frozen => e.frozen /\ e.facet = d.facet /\ e.slots = d.slots
  /\ \A s \in Selector : d.facet[s] = Self => e.facet[s] = Self

\* The running storage, and every image that a revert can bring back, keep what the
\* storage outside all calls has fixed.
CommittedIsKept ==
  /\ Keeps(Committed, store)
  /\ \A i \in DOMAIN frames : Keeps(Committed, frames[i].snap)

LEMMA KeepsTransitive ==
  ASSUME NEW c, NEW d, NEW e, Keeps(c, d), Keeps(d, e)
  PROVE  Keeps(c, e)
  BY DEF Keeps

\* The edits rewrite a diamond that is not frozen, one selector at a time and none that is
\* routed to the diamond itself.
LEMMA EditKeeps ==
  ASSUME Inv, NEW s \in Selector, Edits(s)
  PROVE  Keeps(store, store')
<1>1. Cutting
  BY LoopStepKeepsImage DEF LoopStep
<1>2. ~store.frozen /\ store.facet \in [Selector -> Facet] /\ Self # Zero
  BY <1>1, CutFacts, PackedAssumption
<1>3. store.facet[s] # Self
  BY <1>2 DEF Edits, Adds, Removes, AddSelector, SolidstateAddSelector, ReplaceSelector,
              RemoveSelector, SolidstateRemoveSelector
<1>4. PICK f : store'.facet = [store.facet EXCEPT ![s] = f]
  BY AddKeepsInv, ReplaceKeepsInv, RemoveKeepsInv DEF Edits, Edited
<1> QED
  BY <1>2, <1>3, <1>4 DEF Keeps

\* Every step but a revert keeps what the storage before it has fixed.
LEMMA StepKeeps ==
  ASSUME Inv, [Step]_vars
  PROVE  Keeps(store, store') \/ CallReverts
<1>1. CASE \E s \in Selector : Edits(s)
  BY <1>1, EditKeeps
<1>2. CASE FinishCut \/ \E init \in Address : DelegateInit(init)
  <2>1. Cutting /\ store'.facet = store.facet
    BY <1>2, FlushedGood DEF FinishCut, DelegateInit, Applying
  <2>2. ~store.frozen
    BY <2>1, CutFacts
  <2> QED
    BY <2>1, <2>2 DEF Keeps
<1>3. CASE \E sender \in Account : RoleCall(sender)
  <2>1. /\ store'.facet = store.facet /\ store'.slots = store.slots
        /\ store'.frozen \in {store.frozen, TRUE}
    BY <1>3, RoleCallFacts DEF RolesWritten
  <2> QED
    BY <2>1 DEF Keeps
<1>4. CASE store' = store
  BY <1>4 DEF Keeps
<1> QED
  BY <1>1, <1>2, <1>3, <1>4, StepCases, EnterFacts, TurnKeepsInv DEF vars, ExtReturns

LEMMA InitCommitted == Init \/ SolidstateInit => CommittedIsKept
<1>1. DOMAIN <<>> = {}
  OBVIOUS
<1>2. Init \/ SolidstateInit => frames = <<>>
  BY DEF Init, SolidstateInit
<1> QED
  BY <1>1, <1>2 DEF CommittedIsKept, Committed, Keeps

\* The images of the calls keep what is committed, and what is committed is kept.
LEMMA StepCommitted ==
  ASSUME Inv, CommittedIsKept, [Step]_vars
  PROVE  CommittedIsKept' /\ Keeps(Committed, Committed')
<1> SUFFICES ASSUME NEW n, n = Len(frames), NEW m, m = Len(frames')
             PROVE  CommittedIsKept' /\ Keeps(Committed, Committed')
  OBVIOUS
<1>1. frames \in Seq(Frame) /\ n \in Nat /\ DOMAIN frames = 1..n /\ (frames = <<>> <=> n = 0)
  BY LenProperties, EmptySeq DEF Inv
<1>2. frames' \in Seq(Frame) /\ m \in Nat /\ DOMAIN frames' = 1..m /\ (frames' = <<>> <=> m = 0)
  BY StepInv, LenProperties, EmptySeq DEF Inv
<1>3. Keeps(Committed, store')
  <2>1. CASE Keeps(store, store')
    BY <2>1, KeepsTransitive DEF CommittedIsKept
  <2>2. CASE CallReverts
    BY <1>1, <2>2 DEF CommittedIsKept, CallReverts, Top
  <2> QED
    BY <2>1, <2>2, StepKeeps
<1>4. \/ m = n /\ \A i \in 1..m : frames'[i].snap = frames[i].snap
      \/ m = n + 1 /\ (\A i \in 1..n : frames'[i].snap = frames[i].snap) /\ frames'[m].snap = store
         /\ store' = store
      \/ n # 0 /\ m = n - 1 /\ \A i \in 1..m : frames'[i].snap = frames[i].snap
  BY <1>1, StepStack DEF StackKept, StackPushed, StackPopped
<1>5. \A i \in 1..m : frames'[i].snap = store \/ (i \in 1..n /\ frames'[i].snap = frames[i].snap)
  BY <1>1, <1>2, <1>4
<1>6. \A i \in 1..m : Keeps(Committed, frames'[i].snap)
  BY <1>1, <1>5 DEF CommittedIsKept
<1>7. Committed' = IF m = 0 THEN store' ELSE frames'[1].snap
  BY <1>2 DEF Committed
<1>8. m # 0 => 1 \in 1..m
  BY <1>2
<1>9. Keeps(Committed, Committed')
  BY <1>3, <1>6, <1>7, <1>8
<1>10. CASE m = 0
  <2>1. Keeps(store', store')
    BY DEF Keeps
  <2>2. DOMAIN frames' = {}
    BY <1>2, <1>10
  <2> QED
    BY <1>7, <1>9, <1>10, <2>1, <2>2 DEF CommittedIsKept
<1>11. CASE m # 0 /\ n # 0
  <2>1. 1 \in 1..n /\ frames'[1].snap = frames[1].snap
    BY <1>1, <1>2, <1>4, <1>11
  <2>2. Committed' = Committed
    BY <1>1, <1>7, <1>11, <2>1 DEF Committed
  <2> QED
    BY <1>2, <1>3, <1>6, <1>9, <2>2 DEF CommittedIsKept
<1>12. CASE m # 0 /\ n = 0
  <2>1. m = 1 /\ frames'[1].snap = store /\ store' = store
    BY <1>1, <1>2, <1>4, <1>12
  <2>2. Committed' = store /\ DOMAIN frames' = {1}
    BY <1>2, <1>7, <2>1
  <2>3. Keeps(store, store)
    BY DEF Keeps
  <2> QED
    BY <1>9, <2>1, <2>2, <2>3 DEF CommittedIsKept
<1> QED
  BY <1>9, <1>10, <1>11, <1>12

THEOREM SpecCommittedIsKept == Spec => []CommittedIsKept
<1>1. [Next]_vars => [Step]_vars
  BY DEF Step
<1> QED
  BY <1>1, SpecInv, InitCommitted, StepCommitted, PTL DEF Spec

THEOREM SolidstateSpecCommittedIsKept == SolidstateSpec => []CommittedIsKept
<1>1. [SolidstateNext]_vars => [Step]_vars
  BY DEF Step
<1> QED
  BY <1>1, SolidstateSpecInv, InitCommitted, StepCommitted, PTL DEF SolidstateSpec

LEMMA StepFreezes ==
  ASSUME Inv, CommittedIsKept, [Step]_vars
  PROVE  Committed.frozen => /\ Committed'.frozen
                             /\ Committed'.facet = Committed.facet
                             /\ Committed'.slots = Committed.slots
  BY StepCommitted DEF Keeps

LEMMA StepImmutable ==
  ASSUME Inv, CommittedIsKept, [Step]_vars
  PROVE  \A s \in Selector : Committed.facet[s] = Self => Committed'.facet[s] = Self
  BY StepCommitted DEF Keeps

\* Once a frozen packed diamond is committed nothing thaws it or changes its routes or its
\* slots, whatever calls nest, fail or revert.
THEOREM SpecFrozenForever == Spec => FrozenForever
<1>1. [Next]_vars => [Step]_vars
  BY DEF Step
<1> QED
  BY <1>1, StepFreezes, SpecInv, SpecCommittedIsKept, PTL DEF Spec, FrozenForever

\* The same for a Solidstate diamond, whose fallback still may change.
THEOREM SolidstateSpecFrozenForever == SolidstateSpec => FrozenForever
<1>1. [SolidstateNext]_vars => [Step]_vars
  BY DEF Step
<1> QED
  BY <1>1, StepFreezes, SolidstateSpecInv, SolidstateSpecCommittedIsKept, PTL
     DEF SolidstateSpec, FrozenForever

\* A selector that a committed packed diamond routes to itself stays there.
THEOREM SpecImmutableSelectors == Spec => ImmutableSelectors
<1>1. [Next]_vars => [Step]_vars
  BY DEF Step
<1> QED
  BY <1>1, StepImmutable, SpecInv, SpecCommittedIsKept, PTL DEF Spec, ImmutableSelectors

\* The same for a Solidstate diamond.
THEOREM SolidstateSpecImmutableSelectors == SolidstateSpec => ImmutableSelectors
<1>1. [SolidstateNext]_vars => [Step]_vars
  BY DEF Step
<1> QED
  BY <1>1, StepImmutable, SolidstateSpecInv, SolidstateSpecCommittedIsKept, PTL
     DEF SolidstateSpec, ImmutableSelectors

--------------------------------------------------------------------------------
(* What only one of the two keeps: the packed diamond its fields and the slots it has   *)
(* emptied, the Solidstate diamond its fields.                                          *)

PackedImages == ImagesIn(PackedStorage)

THEOREM SpecPackedImages == Spec => []PackedImages
<1>1. Init => PackedImages
  <2> SUFFICES ASSUME Init PROVE PackedImages
    OBVIOUS
  <2>1. PICK owner \in RoleHolder : store = NoSelectors(owner) /\ frames = <<>>
    BY DEF Init
  <2>2. 0 \in 0..MaxSelectors /\ DOMAIN <<>> = {}
    BY PackedAssumption
  <2>3. store \in PackedStorage
    BY <2>1, <2>2, EmptyIsSlot DEF NoSelectors, PackedStorage, Facet
  <2> QED
    BY <2>1, <2>2, <2>3 DEF PackedImages, ImagesIn
<1>2. ASSUME Inv, PackedImages, [Next]_vars
      PROVE  PackedImages'
  <2>1. [Step]_vars
    BY <1>2 DEF Step
  <2>2. CallReverts \/ store' \in PackedStorage
    BY <1>2, <2>1, StepWrites DEF PackedImages, ImagesIn, OthersKept, RolesWritten
  <2>3. store' \in PackedStorage /\ \A i \in DOMAIN frames' : frames'[i].snap \in PackedStorage
    BY <1>2, <2>1, <2>2, ImagesStay DEF PackedImages
  <2> QED
    BY <2>3 DEF PackedImages, ImagesIn
<1> QED
  BY <1>1, <1>2, SpecInv, PTL DEF Spec

\* Every reachable storage and call stack of a packed diamond is well typed.
THEOREM SpecTypeOK == Spec => []TypeOK
<1>1. ASSUME NEW d \in PackedStorage
      PROVE  TypeOKRegistry(d) /\ DOMAIN d = Field
  BY DEF PackedStorage, TypeOKRegistry, Field
<1>2. ASSUME NEW fr \in Frame, fr.snap \in PackedStorage
      PROVE  TypeOKFrame(fr) /\ DOMAIN fr.snap = Field
  BY <1>1, <1>2 DEF Frame, TypeOKFrame
<1>3. Inv /\ PackedImages => TypeOK
  <2> SUFFICES ASSUME Inv, PackedImages PROVE TypeOK
    OBVIOUS
  <2>1. \A i \in DOMAIN frames : frames[i] \in Frame
    BY LenProperties, ElementOfSeq DEF Inv
  <2> QED
    BY <1>1, <1>2, <2>1 DEF PackedImages, ImagesIn, TypeOK
<1> QED
  BY <1>3, SpecInv, SpecPackedImages, PTL

SolidstateImages == ImagesIn(SolidstateStorage)

THEOREM SolidstateSpecImages == SolidstateSpec => []SolidstateImages
<1>1. SolidstateInit => SolidstateImages
  <2> SUFFICES ASSUME SolidstateInit PROVE SolidstateImages
    OBVIOUS
  <2>1. PICK owner \in RoleHolder :
          store = [x \in SolidstateField |->
                     IF x \in DOMAIN NoSelectors(owner) THEN NoSelectors(owner)[x] ELSE Zero]
    BY DEF SolidstateInit
  <2>2. store = [owner |-> owner, frozen |-> FALSE,
                 facet |-> [s \in Selector |-> Zero], pos |-> [s \in Selector |-> 0],
                 slots |-> [j \in SlotIndex |-> EmptySlot], count |-> 0,
                 nominee |-> Zero, fallback |-> Zero]
    BY <2>1 DEF NoSelectors, SolidstateField
  <2>3. 0 \in 0..MaxSelectors /\ DOMAIN <<>> = {}
    BY PackedAssumption
  <2>4. store \in SolidstateStorage
    BY <2>2, <2>3, EmptyIsSlot DEF SolidstateStorage, Facet, RoleHolder
  <2>5. frames = <<>>
    BY DEF SolidstateInit
  <2> QED
    BY <2>3, <2>4, <2>5 DEF SolidstateImages, ImagesIn
<1>2. ASSUME Inv, SolidstateImages, [SolidstateNext]_vars
      PROVE  SolidstateImages'
  <2>1. [Step]_vars
    BY <1>2 DEF Step
  <2>2. CallReverts \/ store' \in SolidstateStorage
    BY <1>2, <2>1, StepWrites DEF SolidstateImages, ImagesIn, OthersKept, RolesWritten
  <2>3. /\ store' \in SolidstateStorage
        /\ \A i \in DOMAIN frames' : frames'[i].snap \in SolidstateStorage
    BY <1>2, <2>1, <2>2, ImagesStay DEF SolidstateImages
  <2> QED
    BY <2>3 DEF SolidstateImages, ImagesIn
<1> QED
  BY <1>1, <1>2, SolidstateSpecInv, PTL DEF SolidstateSpec

\* Every reachable storage and call stack of a Solidstate diamond is well typed.
THEOREM SolidstateSpecTypeOK == SolidstateSpec => []SolidstateTypeOK
<1>1. ASSUME NEW d \in SolidstateStorage
      PROVE  TypeOKStorage(d)
  BY DEF SolidstateStorage, TypeOKStorage, TypeOKRegistry, SolidstateField
<1>2. ASSUME NEW fr \in Frame, fr.snap \in SolidstateStorage
      PROVE  TypeOKFrame(fr) /\ TypeOKStorage(fr.snap)
  BY <1>1, <1>2 DEF Frame, TypeOKFrame, TypeOKStorage
<1>3. Inv /\ SolidstateImages => SolidstateTypeOK
  <2> SUFFICES ASSUME Inv, SolidstateImages PROVE SolidstateTypeOK
    OBVIOUS
  <2>1. \A i \in DOMAIN frames : frames[i] \in Frame
    BY LenProperties, ElementOfSeq DEF Inv
  <2>2. store \in SolidstateStorage /\ \A i \in DOMAIN frames : frames[i].snap \in SolidstateStorage
    BY DEF SolidstateImages, ImagesIn
  <2> QED
    BY <1>1, <1>2, <2>1, <2>2 DEF SolidstateTypeOK
<1> QED
  BY <1>3, SolidstateSpecInv, SolidstateSpecImages, PTL

\* A Solidstate diamond's storage is tidy: no residue, no facet without code, and
\* its fields well typed.
THEOREM SolidstateSpecStorageIsTidy == SolidstateSpec => []StorageIsTidy
<1>1. Inv /\ SolidstateTypeOK => StorageIsTidy
  BY InvIsIndexed DEF StorageIsTidy
<1> QED
  BY <1>1, SolidstateSpecInv, SolidstateSpecTypeOK, PTL

--------------------------------------------------------------------------------
(* The slots that a packed diamond has emptied. *)

ZeroPast(slots, n) == \A j \in SlotIndex : j * SelectorsPerSlot >= n => slots[j] = EmptySlot

\* The slots that hold no number below n.
LEMMA SlotsPast ==
  ASSUME NEW n \in Nat, NEW j \in Nat
  PROVE  j * SelectorsPerSlot >= n <=> (j > SlotOf(n) \/ (j = SlotOf(n) /\ PlaceOf(n) = 0))
<1> DEFINE q == SlotOf(n)
           r == PlaceOf(n)
           m == SelectorsPerSlot * q
           l == SelectorsPerSlot * j
<1>1. q \in Nat /\ r \in 0..(SelectorsPerSlot - 1) /\ n = m + r
  BY Division
<1>2. SelectorsPerSlot \in Nat \ {0} /\ m \in Nat /\ l \in Nat /\ j * SelectorsPerSlot = l
  BY <1>1, PackedAssumption
<1>3. j > q => m + SelectorsPerSlot <= l
  BY <1>1, SlotsApart
<1>4. j < q => l + SelectorsPerSlot <= m
  BY <1>1, SlotsApart
<1>5. j = q => l = m
  OBVIOUS
<1> HIDE DEF q, r, m, l
<1>6. l >= n <=> (j > q \/ (j = q /\ r = 0))
  BY <1>1, <1>2, <1>3, <1>4, <1>5
<1> QED
  BY <1>2, <1>6 DEF q, r

\* Storing the local slot, if anything is in it, changes no slot past the count.
LEMMA FlushKeepsZeros ==
  ASSUME NEW n \in 0..MaxSelectors, NEW slots \in [SlotIndex -> Slot], NEW slot \in Slot,
         ZeroPast(slots, n), NEW flushed, flushed = FlushedSlots(slots, n, slot)
  PROVE  ZeroPast(flushed, n)
<1>1. SlotOf(n) \in SlotIndex /\ n \in Nat /\ SlotOf(n) \in Nat
  BY SlotExists, Division, PackedAssumption
<1>2. PlaceOf(n) \in Nat
  BY <1>1, Division, PackedAssumption
<1> SUFFICES ASSUME NEW j \in SlotIndex, j * SelectorsPerSlot >= n
             PROVE  flushed[j] = EmptySlot
  BY DEF ZeroPast
<1>3. j \in Nat
  BY DEF SlotIndex
<1>4. slots[j] = EmptySlot /\ (j > SlotOf(n) \/ PlaceOf(n) = 0)
  BY <1>1, <1>3, SlotsPast DEF ZeroPast
<1>5. j > SlotOf(n) => j # SlotOf(n)
  BY <1>1, <1>3
<1> QED
  BY <1>1, <1>2, <1>4, <1>5 DEF FlushedSlots

\* Add stores the slot that fills up, which is not past the new count.
LEMMA AddKeepsZeros ==
  ASSUME NEW n \in 0..(MaxSelectors - 1), NEW slots \in [SlotIndex -> Slot],
         ZeroPast(slots, n), NEW filled, NEW slots2, slots2 = AddedSlots(slots, n, filled)
  PROVE  ZeroPast(slots2, n + 1)
<1>1. n \in Nat /\ n + 1 \in Nat /\ n \in 0..MaxSelectors
  BY PackedAssumption
<1>2. SlotOf(n) \in SlotIndex /\ SlotOf(n) \in Nat /\ SlotOf(n + 1) \in Nat /\ PlaceOf(n) \in Nat
  BY <1>1, SlotExists, Division, PackedAssumption
<1> SUFFICES ASSUME NEW j \in SlotIndex, j * SelectorsPerSlot >= n + 1
             PROVE  slots2[j] = EmptySlot
  BY DEF ZeroPast
<1>3. j \in Nat
  BY DEF SlotIndex
<1>4. j > SlotOf(n + 1) \/ (j = SlotOf(n + 1) /\ PlaceOf(n + 1) = 0)
  BY <1>1, <1>3, SlotsPast
<1>5. /\ PlaceOf(n) = SelectorsPerSlot - 1 => SlotOf(n + 1) = SlotOf(n) + 1
      /\ PlaceOf(n) # SelectorsPerSlot - 1 =>
           SlotOf(n + 1) = SlotOf(n) /\ PlaceOf(n + 1) = PlaceOf(n) + 1
  BY <1>1, NextPlace
<1>6. j > SlotOf(n)
  BY <1>2, <1>3, <1>4, <1>5
<1>7. slots[j] = EmptySlot
  BY <1>1, <1>3, <1>6, SlotsPast DEF ZeroPast
<1>8. j # SlotOf(n)
  BY <1>2, <1>3, <1>6
<1> QED
  BY <1>2, <1>7, <1>8 DEF AddedSlots

\* Remove zeroes the slot that its step back leaves empty, and fills gaps below it only.
LEMMA RemoveKeepsZeros ==
  ASSUME NEW n \in 0..(MaxSelectors - 1), NEW slots \in [SlotIndex -> Slot],
         ZeroPast(slots, n + 1), NEW gap \in 0..n, NEW last,
         NEW stored, stored = FilledSlots(slots, n, gap, last),
         NEW slots2, slots2 = DroppedSlots(stored, n)
  PROVE  ZeroPast(slots2, n)
<1>1. /\ n \in Nat /\ n + 1 \in Nat /\ n \in 0..MaxSelectors
      /\ gap \in Nat /\ gap <= n /\ gap \in 0..MaxSelectors
  BY PackedAssumption
<1>2. /\ SlotOf(n) \in SlotIndex /\ SlotOf(n) \in Nat /\ SlotOf(n + 1) \in Nat
      /\ PlaceOf(n) \in 0..(SelectorsPerSlot - 1)
      /\ SlotOf(gap) \in SlotIndex /\ SlotOf(gap) \in Nat /\ SlotOf(gap) <= SlotOf(n)
  BY <1>1, SlotExists, Division, SlotsAreOrdered
<1>3. DOMAIN stored = SlotIndex
  BY DEF FilledSlots
<1> SUFFICES ASSUME NEW j \in SlotIndex, j * SelectorsPerSlot >= n
             PROVE  slots2[j] = EmptySlot
  BY DEF ZeroPast
<1>4. j \in Nat
  BY DEF SlotIndex
<1>5. j > SlotOf(n) \/ (j = SlotOf(n) /\ PlaceOf(n) = 0)
  BY <1>1, <1>4, SlotsPast
<1>6. CASE j = SlotOf(n) /\ PlaceOf(n) = 0
  BY <1>2, <1>3, <1>6 DEF DroppedSlots
<1>7. CASE j > SlotOf(n)
  <2>1. j # SlotOf(n) /\ j # SlotOf(gap)
    BY <1>2, <1>4, <1>7
  <2>2. slots2[j] = slots[j]
    BY <1>2, <1>3, <2>1 DEF DroppedSlots, FilledSlots
  <2>3. /\ PlaceOf(n) = SelectorsPerSlot - 1 => SlotOf(n + 1) = SlotOf(n) + 1 /\ PlaceOf(n + 1) = 0
        /\ PlaceOf(n) # SelectorsPerSlot - 1 => SlotOf(n + 1) = SlotOf(n)
    BY <1>1, NextPlace
  <2>4. j > SlotOf(n + 1) \/ (j = SlotOf(n + 1) /\ PlaceOf(n + 1) = 0)
    BY <1>2, <1>4, <1>7, <2>3
  <2>5. slots[j] = EmptySlot
    BY <1>1, <1>4, <2>4, SlotsPast DEF ZeroPast
  <2> QED
    BY <2>2, <2>5
<1> QED
  BY <1>5, <1>6, <1>7

\* The frame that the innermost call runs in after a step.
LEMMA NewTop ==
  ASSUME Inv, frames # <<>>, NEW fr \in Frame, SetTop(fr)
  PROVE  frames' # <<>> /\ Top' = fr
<1>1. frames \in Seq(Frame) /\ Len(frames) \in Nat /\ DOMAIN frames = 1..Len(frames)
      /\ Len(frames) \in 1..Len(frames)
  BY LenProperties, EmptySeq DEF Inv
<1>2. frames' \in Seq(Frame) /\ Len(frames') = Len(frames) /\ frames'[Len(frames)] = fr
  BY <1>1, ExceptSeq DEF SetTop
<1> QED
  BY <1>1, <1>2, EmptySeq DEF Top

\* Where a call has ended no loop of diamondCut runs.
LEMMA PopRests ==
  ASSUME Inv, frames # <<>>, frames' = Pop(frames)
  PROVE  ~Cutting'
<1> SUFFICES ASSUME NEW n, n = Len(frames), frames' # <<>>
             PROVE  Top'.phase = "ext"
  BY DEF Cutting
<1>1. frames \in Seq(Frame) /\ n \in Nat \ {0} /\ DOMAIN frames = 1..n
  BY LenProperties, EmptySeq DEF Inv
<1>2. /\ frames' \in Seq(Frame) /\ Len(frames') = n - 1
      /\ \A i \in 1..(n - 1) : frames'[i] = frames[i]
  BY <1>1, PopFacts
<1>3. n - 1 \in 1..(n - 1) /\ n - 1 \in 1..n /\ n - 1 # n
  BY <1>1, <1>2, EmptySeq
<1>4. Top' = frames[n - 1]
  BY <1>2, <1>3 DEF Top
<1> QED
  BY <1>1, <1>3, <1>4 DEF Inv

\* A slot past the last selector is zero, in the storage, where the last selector is the
\* one diamondCut has counted, and in every image of it.
ClearedImage == {d \in Storage : ZeroPast(d.slots, d.count)}
Cleared ==
  /\ ZeroPast(store.slots, Count)
  /\ \A i \in DOMAIN frames : frames[i].snap \in ClearedImage

LEMMA AddClears ==
  ASSUME Inv, ZeroPast(store.slots, Count), NEW s \in Selector, AddSelector(s)
  PROVE  ZeroPast(store'.slots, Count')
<1> DEFINE n == Top.count
           filled == Insert(Top.slot, n, s)
           slots2 == AddedSlots(store.slots, n, filled)
           slot2 == AddedLocal(n, filled)
           fr == [Top EXCEPT !.count = n + 1, !.slot = slot2, !.seen = TRUE]
<1>1. /\ Cutting /\ Top.act = "add" /\ n < MaxSelectors /\ SetTop(fr)
      /\ store' = WithAdded(store, s, Top.to, n, slots2)
  BY DEF AddSelector, Applying, AddedSlots, AddedLocal, WithAdded
<1>2. /\ frames # <<>> /\ Top \in Frame /\ Top.phase = "cut" /\ n \in 0..MaxSelectors
      /\ Top.slot \in Slot /\ store \in Storage /\ store.slots \in [SlotIndex -> Slot]
      /\ Top.to \in HasCode /\ Count = n
  BY <1>1, CutFacts DEF Count
<1>3. n \in 0..(MaxSelectors - 1) /\ n + 1 \in 0..MaxSelectors /\ n \in Nat /\ Top.to \in Facet
  BY <1>1, <1>2, PackedAssumption DEF Facet
<1>4. filled \in Slot
  BY <1>2, <1>3, InsertIsSlot
<1>5. slots2 \in [SlotIndex -> Slot] /\ slot2 \in Slot
  BY <1>2, <1>4, EmptyIsSlot DEF AddedSlots, AddedLocal
<1>6. fr \in Frame /\ fr.phase = "cut" /\ fr.count = n + 1
  BY <1>2, <1>3, <1>5 DEF Frame
<1> HIDE DEF fr
<1>7. Count' = n + 1
  BY <1>1, <1>2, <1>6, NewTop DEF Count, Cutting
<1>8. ZeroPast(slots2, n + 1)
  BY <1>2, <1>3, AddKeepsZeros
<1> HIDE DEF n, slots2
<1>9. PICK e : e = store' /\ e = WithAdded(store, s, Top.to, n, slots2)
  BY <1>1
<1>10. /\ e \in Storage /\ OthersKept(store, e)
       /\ e.facet = [store.facet EXCEPT ![s] = Top.to] /\ e.pos = [store.pos EXCEPT ![s] = n]
       /\ e.slots = slots2
  BY <1>2, <1>3, <1>5, <1>9, AddWrites
<1> QED
  BY <1>7, <1>8, <1>9, <1>10

LEMMA ReplaceClears ==
  ASSUME Inv, ZeroPast(store.slots, Count), NEW s \in Selector, ReplaceSelector(s)
  PROVE  ZeroPast(store'.slots, Count')
<1> DEFINE fr == [Top EXCEPT !.seen = TRUE]
<1>1. Cutting /\ Top.act = "replace" /\ SetTop(fr) /\ store' = WithReplaced(store, s, Top.to)
  BY DEF ReplaceSelector, Applying, WithReplaced
<1>2. /\ frames # <<>> /\ Top \in Frame /\ Top.phase = "cut"
      /\ store \in Storage /\ Top.to \in HasCode /\ Count = Top.count
  BY <1>1, CutFacts DEF Count
<1>3. fr \in Frame /\ fr.phase = "cut" /\ fr.count = Top.count
  BY <1>2 DEF Frame
<1> HIDE DEF fr
<1>4. Count' = Count
  BY <1>1, <1>2, <1>3, NewTop DEF Count, Cutting
<1>5. PICK e : e = store' /\ e = WithReplaced(store, s, Top.to)
  BY <1>1
<1>6. Top.to \in Facet
  BY <1>2, PackedAssumption DEF Facet
<1>7. /\ e \in Storage /\ OthersKept(store, e)
      /\ e.facet = [store.facet EXCEPT ![s] = Top.to] /\ e.pos = store.pos
      /\ e.slots = store.slots
  BY <1>2, <1>5, <1>6, ReplaceWrites
<1> QED
  BY <1>4, <1>5, <1>7

LEMMA RemoveClears ==
  ASSUME Inv, ZeroPast(store.slots, Count), NEW s \in Selector, RemoveSelector(s)
  PROVE  ZeroPast(store'.slots, Count')
<1>1. PICK n, last, slots2, slot2 :
        /\ n = Top.count - 1 /\ last = SlotOfLast(n)[PlaceOf(n)]
        /\ slots2 = DroppedSlots(FillStored(s, n, last), n)
        /\ slot2 = DroppedLocal(FillLocal(s, n, last), n)
        /\ store' = [Moved(s, last) EXCEPT !.slots = slots2]
        /\ SetTop([Top EXCEPT !.count = n, !.seen = TRUE, !.slot = slot2])
  BY DEF RemoveSelector, DroppedSlots, DroppedLocal
<1> DEFINE gap == store.pos[s]
           view == View(store.slots, Top.count, Top.slot)
           pos2 == [store.pos EXCEPT ![last] = gap, ![s] = 0]
           fr == [Top EXCEPT !.count = n, !.seen = TRUE, !.slot = slot2]
<1>2. Cutting /\ Top.act = "remove" /\ Top.count > 0 /\ store.facet[s] # Zero
  BY DEF RemoveSelector, Applying
<1>3. /\ frames # <<>> /\ Top \in Frame /\ Top.phase = "cut" /\ Top.count \in 0..MaxSelectors
      /\ Top.slot \in Slot /\ store \in Storage /\ store.slots \in [SlotIndex -> Slot]
      /\ store.pos \in [Selector -> Nat] /\ Table(store, Top.count, view) /\ Count = Top.count
  BY <1>2, CutFacts DEF Count
<1>4. n \in 0..(MaxSelectors - 1) /\ n \in 0..MaxSelectors /\ n + 1 = Top.count /\ n \in Nat
  BY <1>1, <1>2, <1>3, PackedAssumption
<1>5. gap \in 0..n
  <2>1. Entries(store, Top.count, view)
    BY <1>3, TableEntries, ViewIsSlots
  <2>2. gap \in 0..(Top.count - 1)
    BY <1>2, <2>1 DEF Entries
  <2> QED
    BY <1>1, <2>2
<1>6. /\ SlotOf(n) \in SlotIndex /\ PlaceOf(n) \in 0..(SelectorsPerSlot - 1)
      /\ SlotOf(gap) \in SlotIndex /\ gap \in Nat
  <2> HIDE DEF gap
  <2>1. gap \in 0..MaxSelectors /\ gap \in Nat
    BY <1>4, <1>5, PackedAssumption
  <2> QED
    BY <1>4, <2>1, SlotExists, Division
<1>7. SlotOfLast(n) \in Slot
  BY <1>3, <1>6 DEF SlotOfLast
<1>8. last \in Selector
  BY <1>1, <1>6, <1>7 DEF Slot
<1>9. FillStored(s, n, last) = FilledSlots(store.slots, n, gap, last)
  BY DEF FillStored, FilledSlots, GapIsLocal
<1> HIDE DEF gap, view
<1>10. \A slot \in Slot : Insert(slot, gap, last) \in Slot
  BY <1>6, <1>8, InsertIsSlot
<1>11. FilledSlots(store.slots, n, gap, last) \in [SlotIndex -> Slot] /\ FillLocal(s, n, last) \in Slot
  BY <1>3, <1>6, <1>7, <1>10 DEF FilledSlots, FillLocal, gap
<1>12. slots2 \in [SlotIndex -> Slot] /\ slot2 \in Slot
  BY <1>1, <1>6, <1>9, <1>11, EmptyIsSlot DEF DroppedSlots, DroppedLocal
<1>13. ZeroPast(slots2, n)
  BY <1>1, <1>3, <1>4, <1>5, <1>9, RemoveKeepsZeros
<1>14. fr \in Frame /\ fr.phase = "cut" /\ fr.count = n /\ SetTop(fr)
  BY <1>1, <1>3, <1>4, <1>12 DEF Frame
<1> HIDE DEF fr
<1>15. Count' = n
  BY <1>3, <1>14, NewTop DEF Count, Cutting
<1>16. pos2 \in [Selector -> Nat]
  BY <1>3, <1>6, <1>8
<1>17. WithRemoved(store, s, pos2, slots2) = [Moved(s, last) EXCEPT !.slots = slots2]
  BY DEF WithRemoved, Moved, gap
<1> HIDE DEF pos2
<1>18. PICK e : e = store' /\ e = WithRemoved(store, s, pos2, slots2)
  BY <1>1, <1>17
<1>19. /\ e \in Storage /\ OthersKept(store, e)
       /\ e.facet = [store.facet EXCEPT ![s] = Zero] /\ e.pos = pos2 /\ e.slots = slots2
  <2>1. store \in Storage /\ slots2 \in [SlotIndex -> Slot]
    BY <1>3, <1>12
  <2>2. e = WithRemoved(store, s, pos2, slots2)
    BY <1>18
  <2> QED
    BY <1>16, <2>1, <2>2, RemoveWrites
<1> QED
  BY <1>13, <1>15, <1>18, <1>19

\* What diamondCut stores at its end.
LEMMA FlushedClears ==
  ASSUME Inv, Cutting, ZeroPast(store.slots, Count)
  PROVE  ZeroPast(Flushed.slots, Flushed.count)
<1> DEFINE n == Top.count
           flushed == FlushedSlots(store.slots, n, Top.slot)
<1>1. /\ n \in 0..MaxSelectors /\ Top.slot \in Slot /\ store \in Storage
      /\ store.slots \in [SlotIndex -> Slot] /\ Count = n
  BY CutFacts DEF Count
<1>2. flushed \in [SlotIndex -> Slot] /\ ZeroPast(flushed, n)
  <2> HIDE DEF n
  <2> QED
    BY <1>1, FlushedView, FlushKeepsZeros
<1>3. PICK e : e = Flushed
  OBVIOUS
<1>4. e = WithFlushed(store, n, flushed)
  BY <1>3 DEF Flushed, FlushedSlots, WithFlushed
<1> HIDE DEF n, flushed
<1>5. e.slots = flushed /\ e.count = n
  BY <1>1, <1>2, <1>4, FlushWrites
<1> QED
  BY <1>2, <1>3, <1>5

LEMMA NextCleared ==
  ASSUME Inv, Cleared, [Next]_vars
  PROVE  Cleared'
<1>1. [Step]_vars
  BY DEF Step
<1>2. \A i \in DOMAIN frames' : frames'[i].snap \in ClearedImage
  <2>1. StackPushed => store \in ClearedImage
    BY DEF StackPushed, Good, Cleared, Count, ClearedImage
  <2> QED
    BY <1>1, <2>1, SnapsStay DEF Cleared
<1>3. ZeroPast(store.slots, Count)
  BY DEF Cleared
<1>4. ASSUME frames' = frames, store'.slots = store.slots, store'.count = store.count
      PROVE  ZeroPast(store'.slots, Count')
  <2>1. Count' = Count
    BY <1>4 DEF Count, Cutting, Top
  <2> QED
    BY <1>3, <1>4, <2>1
<1>5. CASE UNCHANGED vars
  BY <1>2, <1>4, <1>5 DEF vars, Cleared
<1>6. CASE \E sender \in Account : RoleCall(sender)
  BY <1>2, <1>4, <1>6, RoleCallFacts DEF RolesWritten, Cleared
<1>7. CASE \E sender \in Account : RoutedCall(sender) \/ DiamondCut(sender)
  <2>1. PICK fr \in Frame : /\ frames' = Append(frames, fr) /\ store' = store
                            /\ fr.phase = "cut" => fr.count = store.count
    BY <1>7, EnterFacts
  <2>2. Top' = fr /\ frames \in Seq(Frame)
    BY <2>1, AppendProperties, LenProperties DEF Top, Inv
  <2>3. Count = store.count
    BY <1>7, EnterFacts DEF Count, Cutting
  <2>4. Count' = store.count
    BY <2>1, <2>2 DEF Count, Cutting
  <2> QED
    BY <1>2, <1>3, <2>1, <2>3, <2>4 DEF Cleared
<1>8. CASE Turn
  <2>1. /\ store' = store /\ Cutting /\ frames # <<>>
        /\ \E fr \in Frame : SetTop(fr) /\ fr.phase = "cut" /\ fr.count = Top.count
    BY <1>8, TurnKeepsInv DEF Cutting
  <2>2. Count' = Count
    BY <2>1, NewTop DEF Count, Cutting
  <2> QED
    BY <1>2, <1>3, <2>1, <2>2 DEF Cleared
<1>9. CASE \E s \in Selector : AddSelector(s) \/ ReplaceSelector(s) \/ RemoveSelector(s)
  BY <1>2, <1>3, <1>9, AddClears, ReplaceClears, RemoveClears DEF Cleared
<1>10. CASE FinishCut \/ ExtReturns \/ CallReverts
  <2>1. frames # <<>> /\ frames' = Pop(frames)
    BY <1>10 DEF FinishCut, ExtReturns, CallReverts, Applying, Cutting
  <2>2. Count' = store'.count
    BY <2>1, PopRests DEF Count
  <2>3. CASE FinishCut
    BY <1>2, <1>3, <2>2, <2>3, FlushedClears DEF FinishCut, Applying, Cleared
  <2>4. CASE ExtReturns
    BY <1>2, <1>3, <2>2, <2>4 DEF ExtReturns, Count, Cutting, Cleared
  <2>5. CASE CallReverts
    <3>1. Len(frames) \in DOMAIN frames /\ store' = frames[Len(frames)].snap
      BY <2>1, <2>5, LenProperties, EmptySeq DEF CallReverts, Top, Inv
    <3>2. PICK e : e = store' /\ e \in ClearedImage
      BY <3>1 DEF Cleared
    <3> QED
      BY <1>2, <2>2, <3>2 DEF Cleared, ClearedImage
  <2> QED
    BY <1>10, <2>3, <2>4, <2>5
<1>11. CASE \E init \in Address : DelegateInit(init)
  <2> DEFINE fr == [Top EXCEPT !.phase = "ext", !.count = 0, !.slot = EmptySlot]
  <2>1. Cutting /\ store' = Flushed /\ SetTop(fr)
    BY <1>11 DEF DelegateInit, Applying
  <2>2. frames # <<>> /\ Top \in Frame /\ 0 \in 0..MaxSelectors
    BY <2>1, CutFacts, PackedAssumption
  <2>3. fr \in Frame /\ fr.phase = "ext"
    BY <2>2, EmptyIsSlot DEF Frame
  <2> HIDE DEF fr
  <2>4. Count' = store'.count
    BY <2>1, <2>2, <2>3, NewTop DEF Count, Cutting
  <2> QED
    BY <1>2, <1>3, <2>1, <2>4, FlushedClears DEF Cleared
<1> QED
  BY <1>5, <1>6, <1>7, <1>8, <1>9, <1>10, <1>11
     DEF Next, CutSteps, RoleCall, RoutedCall, Turn

\* A slot past the last selector of a packed diamond is zero: emptying a slot refunds what
\* it cost, and a slot that is opened next starts empty.
THEOREM SpecTrailingSlotsEmpty == Spec => []TrailingSlotsEmpty
<1>1. Init => Cleared
  <2> SUFFICES ASSUME Init PROVE Cleared
    OBVIOUS
  <2>1. PICK owner \in RoleHolder : store = NoSelectors(owner) /\ frames = <<>>
    BY DEF Init
  <2>2. \A j \in SlotIndex : store.slots[j] = EmptySlot
    BY <2>1 DEF NoSelectors
  <2>3. DOMAIN <<>> = {}
    OBVIOUS
  <2> QED
    BY <2>1, <2>2, <2>3 DEF Cleared, ZeroPast
<1>2. Cleared => TrailingSlotsEmpty
  BY DEF Cleared, ZeroPast, TrailingSlotsEmpty
<1> QED
  BY <1>1, <1>2, NextCleared, SpecInv, PTL DEF Spec

\* A packed diamond's storage is tidy: no residue, no facet without code, its fields well
\* typed and its trailing slots zero.
THEOREM SpecStorageIsTidy == Spec => []StorageIsTidy
<1>1. Inv /\ TypeOK /\ TrailingSlotsEmpty => StorageIsTidy
  BY InvIsIndexed DEF StorageIsTidy
<1> QED
  BY <1>1, SpecInv, SpecTypeOK, SpecTrailingSlotsEmpty, PTL
================================================================================
