----------------------------- MODULE DiamondPacked -----------------------------
(***************************************************************************)
(* `@diamond('packed')` (src/diamond.ts, synthesizeDiamondBodyPacked, with *)
(* the cut of src/yul.ts, lowerDiamondCutPacked): the diamond-2 layout.    *)
(* Ownership moves in one step; a slot that empties is zeroed.             *)
(***************************************************************************)
EXTENDS PackedDiamond

Field == {"owner", "frozen", "facet", "pos", "slots", "count"}

TypeOK ==
  /\ DOMAIN store = Field
  /\ TypeOKRegistry(store)
  /\ \A i \in DOMAIN frames : TypeOKFrame(frames[i]) /\ DOMAIN frames[i].snap = Field

Init ==
  /\ \E owner \in RoleHolder : store = NoSelectors(owner)
  /\ frames = <<>>

TransferOwnership(sender, newOwner) ==
  /\ OwnerCalls(sender)
  /\ store' = [store EXCEPT !.owner = newOwner]
  /\ UNCHANGED frames

\* The router reverts on a selector without a facet.
Route(sender, s) ==
  /\ CanCall(sender)
  /\ s \notin OwnSelector
  /\ store.facet[s] # Zero
  /\ Enter("ext", 0, EmptySlot)

\* The diamond itself has code and may be added: its routes are the immutable ones.
StartAdd(f) ==
  /\ f \in HasCode
  /\ StartFacetCut("add", f)

\* Mutant: a selector that is already routed is added again.
AddSelectorTwice(s) ==
  LET n    == Top.count
      slot == Insert(Top.slot, n, s)
      full == PlaceOf(n) = SelectorsPerSlot - 1
  IN  /\ Applying("add")
      /\ n < MaxSelectors
      /\ store' = [store EXCEPT !.facet[s] = Top.to, !.pos[s] = n,
                                !.slots = IF full THEN [@ EXCEPT ![SlotOf(n)] = slot] ELSE @]
      /\ SetTop([Top EXCEPT !.count = n + 1, !.slot = IF full THEN EmptySlot ELSE slot,
                            !.seen = TRUE])

\* Mutant: the slot that fills up is not stored.
AddSelectorNoFlush(s) ==
  LET n    == Top.count
      slot == Insert(Top.slot, n, s)
      full == PlaceOf(n) = SelectorsPerSlot - 1
  IN  /\ Applying("add")
      /\ store.facet[s] = Zero
      /\ n < MaxSelectors
      /\ store' = [store EXCEPT !.facet[s] = Top.to, !.pos[s] = n]
      /\ SetTop([Top EXCEPT !.count = n + 1, !.slot = IF full THEN EmptySlot ELSE slot,
                            !.seen = TRUE])

AddSelector(s) ==
  LET n    == Top.count
      slot == Insert(Top.slot, n, s)
      full == PlaceOf(n) = SelectorsPerSlot - 1
  IN  /\ Applying("add")
      /\ store.facet[s] = Zero
      /\ n < MaxSelectors
      /\ store' = [store EXCEPT !.facet[s] = Top.to, !.pos[s] = n,
                                !.slots = IF full THEN [@ EXCEPT ![SlotOf(n)] = slot] ELSE @]
      /\ SetTop([Top EXCEPT !.count = n + 1, !.slot = IF full THEN EmptySlot ELSE slot,
                            !.seen = TRUE])

\* Mutant: a trailing slot that empties is not zeroed.
RemoveSelectorKeepsSlot(s) ==
  LET n    == Top.count - 1
      last == SlotOfLast(n)[PlaceOf(n)]
  IN  /\ Applying("remove")
      /\ Top.count > 0
      /\ store.facet[s] \notin {Zero, Self}
      /\ store' = [Moved(s, last) EXCEPT !.slots = FillStored(s, n, last)]
      /\ SetTop([Top EXCEPT !.count = n, !.seen = TRUE,
                            !.slot = IF PlaceOf(n) = 0 THEN EmptySlot ELSE FillLocal(s, n, last)])

\* Stepping back below zero panics.  A trailing slot that empties is zeroed.
RemoveSelector(s) ==
  LET n     == Top.count - 1
      last  == SlotOfLast(n)[PlaceOf(n)]
      slots == FillStored(s, n, last)
      empty == PlaceOf(n) = 0
  IN  /\ Applying("remove")
      /\ Top.count > 0
      /\ store.facet[s] \notin {Zero, Self}
      /\ store' = [Moved(s, last) EXCEPT
                     !.slots = IF empty THEN [slots EXCEPT ![SlotOf(n)] = EmptySlot] ELSE slots]
      /\ SetTop([Top EXCEPT !.count = n, !.seen = TRUE,
                            !.slot = IF empty THEN EmptySlot ELSE FillLocal(s, n, last)])

Next ==
  \/ \E sender \in Account :
       \/ \E newOwner \in RoleHolder : TransferOwnership(sender, newOwner)
       \/ FreezeDiamond(sender)
       \/ \E s \in Selector : Route(sender, s)
       \/ DiamondCut(sender)
  \/ \E f \in Address : StartAdd(f)
  \/ \E s \in Selector : AddSelector(s) \/ RemoveSelector(s)
  \/ CutSteps

Spec == Init /\ [][Next]_vars

\* A slot past the last selector is zero, so that the zeroing refunds what the slot
\* cost and the slot that is opened next starts empty.
TrailingSlotsEmpty ==
  \A j \in SlotIndex : j * SelectorsPerSlot >= Count => store.slots[j] = EmptySlot
================================================================================
