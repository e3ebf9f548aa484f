----------------------------- MODULE PackedDiamond -----------------------------
(***************************************************************************)
(* What the two diamonds that pack selectors into words have in common     *)
(* (src/yul.ts: lowerDiamondCutPacked, lowerDiamondCutSolidstate and the   *)
(* loupe both share).  Selector number i lives in slot i \div 8 of         *)
(* _selectorSlots; the record of a selector holds its facet and i.         *)
(*                                                                         *)
(* While diamondCut loops, the last slot and the count are locals: a slot  *)
(* is stored when it fills up and when the loops end.  Calls and reverts   *)
(* are modelled as in DiamondArray: `frames` are the calls running, each   *)
(* with the storage the EVM restores if it reverts.                        *)
(***************************************************************************)
EXTENDS Integers, Sequences, FiniteSets

CONSTANTS
  Selector,   \* the bytes4 function selectors
  ZeroSel,    \* bytes4(0): what an empty position of a slot reads as
  Address,    \* the non-zero addresses
  Zero,       \* address(0)
  Self,       \* address(this): the diamond
  HasCode,    \* the addresses whose code is not empty
  OwnSelector,\* the selectors of the diamond's own functions
  Account,    \* bound: the addresses that send calls or are given a role
  SelectorsPerSlot, \* 8 in the code
  MaxSelectors,     \* bound: selectors installed; the code's own bound is its 16-bit count
  MaxDepth    \* bound: calls running inside one another

ASSUME PackedAssumption ==
  /\ ZeroSel \in Selector
  /\ Zero \notin Address
  /\ HasCode \subseteq Address
  /\ Self \in HasCode
  /\ OwnSelector \subseteq Selector
  /\ Account \subseteq Address
  /\ SelectorsPerSlot \in Nat \ {0}
  /\ MaxSelectors \in Nat
  /\ MaxDepth \in Nat

VARIABLES
  store,      \* the diamond's storage
  frames      \* the calls that are running, outermost first

vars == <<store, frames>>

Facet == Address \union {Zero}
RoleHolder == Account \union {Zero}
SlotIndex == 0..(MaxSelectors \div SelectorsPerSlot)
Slot == [0..(SelectorsPerSlot - 1) -> Selector]
EmptySlot == [p \in 0..(SelectorsPerSlot - 1) |-> ZeroSel]

SlotOf(i) == i \div SelectorsPerSlot
PlaceOf(i) == i % SelectorsPerSlot

\* The fields both diamonds have; each adds its own and says so in its Storage.
TypeOKRegistry(d) ==
  /\ d.owner \in RoleHolder
  /\ d.frozen \in BOOLEAN
  /\ d.facet \in [Selector -> Facet]     \* high 20 bytes of _facets[s]
  /\ d.pos \in [Selector -> Nat]         \* low 2 bytes of _facets[s]
  /\ d.slots \in [SlotIndex -> Slot]     \* _selectorSlots
  /\ d.count \in 0..MaxSelectors         \* _selectorCount

NoSelectors(owner) ==
  [owner |-> owner, frozen |-> FALSE,
   facet |-> [s \in Selector |-> Zero], pos |-> [s \in Selector |-> 0],
   slots |-> [j \in SlotIndex |-> EmptySlot], count |-> 0]

\* phase "cut": diamondCut is in its loops; "ext": code outside the diamond runs.
\* act: the action of the FacetCut being applied, "none" between two of them;
\* count and slot: the locals that hold the count and the slot being filled.
TypeOKFrame(fr) ==
  /\ DOMAIN fr = {"snap", "phase", "act", "to", "seen", "count", "slot"}
  /\ TypeOKRegistry(fr.snap)
  /\ fr.phase \in {"cut", "ext"}
  /\ fr.act \in {"none", "add", "replace", "remove", "skip"}
  /\ fr.to \in Facet
  /\ fr.seen \in BOOLEAN
  /\ fr.count \in 0..MaxSelectors
  /\ fr.slot \in Slot

--------------------------------------------------------------------------------
(* Calls *)

Pop(seq) == SubSeq(seq, 1, Len(seq) - 1)
Top == frames[Len(frames)]

CanCall(sender) ==
  /\ sender \in Account
  /\ frames # <<>> => Top.phase = "ext" /\ sender \in HasCode

Enter(phase, count, slot) ==
  /\ Len(frames) < MaxDepth
  /\ frames' = Append(frames, [snap |-> store, phase |-> phase, act |-> "none", to |-> Zero,
                               seen |-> FALSE, count |-> count, slot |-> slot])
  /\ UNCHANGED store

SetTop(frame) == frames' = [frames EXCEPT ![Len(frames)] = frame]

Cutting == frames # <<>> /\ Top.phase = "cut"
Applying(act) == Cutting /\ Top.act = act

OwnerCalls(sender) == CanCall(sender) /\ sender = store.owner

FreezeDiamond(sender) ==
  /\ OwnerCalls(sender)
  /\ store' = [store EXCEPT !.frozen = TRUE]
  /\ UNCHANGED frames

\* diamondCut starts: the last slot is loaded if it is partially filled.
DiamondCut(sender) ==
  LET n == store.count IN
    /\ OwnerCalls(sender)
    /\ ~store.frozen
    /\ Enter("cut", n, IF PlaceOf(n) > 0 THEN store.slots[SlotOf(n)] ELSE EmptySlot)

--------------------------------------------------------------------------------
(* The loops of diamondCut, on which both variants agree *)

StartFacetCut(act, f) ==
  /\ Applying("none")
  /\ SetTop([Top EXCEPT !.act = act, !.to = f, !.seen = FALSE])
  /\ UNCHANGED store

StartReplace(f) ==
  /\ f \in HasCode
  /\ StartFacetCut("replace", f)

StartRemove == StartFacetCut("remove", Zero)

Insert(slot, i, s) == [slot EXCEPT ![PlaceOf(i)] = s]

\* The address is swapped, the position kept.
ReplaceSelector(s) ==
  /\ Applying("replace")
  /\ store.facet[s] \notin {Zero, Self, Top.to}
  /\ store' = [store EXCEPT !.facet[s] = Top.to]
  /\ SetTop([Top EXCEPT !.seen = TRUE])

\* Removing steps back to the last selector, number n, whose slot is loaded when the
\* step crosses into it.
SlotOfLast(n) ==
  IF PlaceOf(n) = SelectorsPerSlot - 1 THEN store.slots[SlotOf(n)] ELSE Top.slot

\* The removed record is cleared and its position goes to the last selector.
Moved(s, last) ==
  [store EXCEPT !.pos = [@ EXCEPT ![last] = store.pos[s], ![s] = 0], !.facet[s] = Zero]

\* The last selector fills the gap: in the local slot, or in a stored one.
GapIsLocal(s, n) == SlotOf(store.pos[s]) = SlotOf(n)

\* Mutant: the gap is always looked for in the local slot.
FillStoredLost(s, n, last) == store.slots

FillStored(s, n, last) ==
  LET gap == store.pos[s] IN
    IF GapIsLocal(s, n) THEN store.slots
    ELSE [store.slots EXCEPT ![SlotOf(gap)] = Insert(@, gap, last)]

FillLocal(s, n, last) ==
  IF GapIsLocal(s, n) THEN Insert(SlotOfLast(n), store.pos[s], last) ELSE SlotOfLast(n)

EndFacetCut ==
  /\ Cutting /\ Top.act # "none" /\ Top.seen
  /\ SetTop([Top EXCEPT !.act = "none", !.to = Zero, !.seen = FALSE])
  /\ UNCHANGED store

\* After the loops the count and a partially filled slot are stored.
Flushed ==
  [store EXCEPT !.count = Top.count,
                !.slots = IF PlaceOf(Top.count) > 0
                          THEN [@ EXCEPT ![SlotOf(Top.count)] = Top.slot] ELSE @]

\* No _init: the call returns.
FinishCut ==
  /\ Applying("none")
  /\ store' = Flushed
  /\ frames' = Pop(frames)

DelegateInit(init) ==
  /\ Applying("none")
  /\ init \in HasCode
  /\ store' = Flushed
  /\ SetTop([Top EXCEPT !.phase = "ext", !.count = 0, !.slot = EmptySlot])

ExtReturns ==
  /\ frames # <<>> /\ Top.phase = "ext"
  /\ frames' = Pop(frames)
  /\ UNCHANGED store

CallReverts ==
  /\ frames # <<>>
  /\ store' = Top.snap
  /\ frames' = Pop(frames)

CutSteps ==
  \/ \E f \in Address : StartReplace(f)
  \/ StartRemove
  \/ \E s \in Selector : ReplaceSelector(s)
  \/ EndFacetCut
  \/ FinishCut
  \/ \E init \in Address : DelegateInit(init)
  \/ ExtReturns
  \/ CallReverts

--------------------------------------------------------------------------------
(* What makes the records and the slots one table *)

\* The count and the slots as they will be once the locals are stored.
Count == IF Cutting THEN Top.count ELSE store.count
Slots == IF Cutting THEN [store.slots EXCEPT ![SlotOf(Top.count)] = Top.slot] ELSE store.slots

Indexed(d, count, slots) ==
  /\ \A i \in 0..(count - 1) :
       LET s == slots[SlotOf(i)][PlaceOf(i)] IN d.facet[s] # Zero /\ d.pos[s] = i
  /\ \A s \in Selector : d.facet[s] # Zero =>
       d.pos[s] < count /\ slots[SlotOf(d.pos[s])][PlaceOf(d.pos[s])] = s

\* Between any two steps of the cut loops, the slots (with the one held in a local)
\* list every routed selector once, at the place its record says, and list nothing
\* else; what lies beyond the count is never read.
SelectorsIndexed ==
  /\ Indexed(store, Count, Slots)
  /\ \A i \in DOMAIN frames :
       Indexed(frames[i].snap, frames[i].snap.count, frames[i].snap.slots)

\* A removed selector leaves no position behind: solidstate takes any bit of the
\* record for "already added".
NoResidue == \A s \in Selector : store.facet[s] = Zero => store.pos[s] = 0

\* No selector is routed to an address that had no code when it was installed.
RoutedFacetsHaveCode == \A s \in Selector : store.facet[s] \in HasCode \union {Zero}

\* The loupe (emitPackedLoupeScan and its users): the selectors in slot order, the
\* facets in the order they are first seen.  What a scan collects is written as a
\* function on the places where it was found; the arrays have it in that order.
Places == 0..(store.count - 1)
ScanAt(i) == store.slots[SlotOf(i)][PlaceOf(i)]
FacetAt(i) == store.facet[ScanAt(i)]
FirstPlaces == {i \in Places : \A j \in 0..(i - 1) : FacetAt(j) # FacetAt(i)}
facetAddresses == [i \in FirstPlaces |-> FacetAt(i)]
facetFunctionSelectors(f) == [i \in {j \in Places : FacetAt(j) = f} |-> ScanAt(i)]
facets == [i \in FirstPlaces |->
             [facetAddress |-> facetAddresses[i],
              functionSelectors |-> facetFunctionSelectors(facetAddresses[i])]]

\* Whenever another contract can ask, facets() reports every routed selector once,
\* under the facet the router delegatecalls for it, and nothing else.
LoupeMatchesRouter ==
  ~Cutting =>
    \A s \in Selector :
      LET entries == {e \in (DOMAIN facets) \X Places :
                        /\ e[2] \in DOMAIN facets[e[1]].functionSelectors
                        /\ facets[e[1]].functionSelectors[e[2]] = s}
      IN  IF store.facet[s] = Zero THEN entries = {}
          ELSE \E e \in entries :
                 /\ entries = {e}
                 /\ facets[e[1]].facetAddress = store.facet[s]

\* The storage outside every running call.
Committed == IF frames = <<>> THEN store ELSE frames[1].snap

\* Once a frozen diamond is committed nothing thaws it or changes its routing.
FrozenForever ==
  [][Committed.frozen => /\ Committed'.frozen
                         /\ Committed'.facet = Committed.facet
                         /\ Committed'.slots = Committed.slots]_vars

\* A committed route to the diamond itself never changes.
ImmutableSelectors ==
  [][\A s \in Selector : Committed.facet[s] = Self => Committed'.facet[s] = Self]_vars

Registry == INSTANCE DiamondRegistry WITH
  route  <- store.facet,
  frozen <- store.frozen,
  undo   <- [i \in DOMAIN frames |-> [route |-> frames[i].snap.facet,
                                      frozen |-> frames[i].snap.frozen]]

\* The packed storage implements the same table as the array storage, although the
\* router reads only the records and the loupe only the slots.
ImplementsRegistry == Registry!Spec
================================================================================
