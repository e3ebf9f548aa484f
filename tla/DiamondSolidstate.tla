--------------------------- MODULE DiamondSolidstate ---------------------------
(***************************************************************************)
(* `@diamond('solidstate')` (src/diamond.ts,                               *)
(* synthesizeDiamondBodySolidstate, with the cut of src/yul.ts,            *)
(* lowerDiamondCutSolidstate).  It packs selectors like DiamondPacked but  *)
(* never clears the slot it fills or empties, refuses to add the diamond   *)
(* itself, skips unknown actions, hands ownership over in two steps and    *)
(* routes what it does not know to a settable fallback address.  It is     *)
(* given as what differs from DiamondPacked, whose names it keeps behind   *)
(* its own.                                                                *)
(***************************************************************************)
EXTENDS DiamondPacked

SolidstateField == {"owner", "frozen", "facet", "pos", "slots", "count",
          "nominee",     \* _nomineeOwner
          "fallback"}    \* _fallbackAddress

TypeOKStorage(d) ==
  /\ DOMAIN d = SolidstateField
  /\ TypeOKRegistry(d)
  /\ {d.nominee, d.fallback} \subseteq RoleHolder

SolidstateTypeOK ==
  /\ TypeOKStorage(store)
  /\ \A i \in DOMAIN frames : TypeOKFrame(frames[i]) /\ TypeOKStorage(frames[i].snap)

SolidstateInit ==
  /\ \E owner \in RoleHolder :
       LET d == NoSelectors(owner) IN
         store = [x \in SolidstateField |-> IF x \in DOMAIN d THEN d[x] ELSE Zero]
  /\ frames = <<>>

--------------------------------------------------------------------------------
(* Ownership and the fallback *)

\* transferOwnership only nominates.
SolidstateTransferOwnership(sender, account) ==
  /\ OwnerCalls(sender)
  /\ store' = [store EXCEPT !.nominee = account]
  /\ UNCHANGED frames

AcceptOwnership(sender) ==
  /\ CanCall(sender)
  /\ sender = store.nominee
  /\ store' = [store EXCEPT !.owner = sender, !.nominee = Zero]
  /\ UNCHANGED frames

SetFallbackAddress(sender, account) ==
  /\ OwnerCalls(sender)
  /\ store' = [store EXCEPT !.fallback = account]
  /\ UNCHANGED frames

\* The router falls back on a miss and reverts unless the target has code.
Target(s) == IF store.facet[s] = Zero THEN store.fallback ELSE store.facet[s]

SolidstateRoute(sender, s) ==
  /\ CanCall(sender)
  /\ s \notin OwnSelector
  /\ Target(s) \in HasCode
  /\ Enter("ext", 0, EmptySlot)

--------------------------------------------------------------------------------
(* diamondCut: where this variant differs *)

SolidstateStartAdd(f) ==
  /\ f \in HasCode \ {Self}
  /\ StartFacetCut("add", f)

\* The switch on the action has no default: a FacetCut with another action needs a
\* selector and changes nothing.
SkipFacetCut ==
  /\ Applying("none")
  /\ SetTop([Top EXCEPT !.act = "skip", !.seen = TRUE])
  /\ UNCHANGED store

\* The whole record must be zero.  A full slot is stored, the local keeps its content.
SolidstateAddSelector(s) ==
  LET n    == Top.count
      slot == Insert(Top.slot, n, s)
  IN  /\ Applying("add")
      /\ store.facet[s] = Zero /\ store.pos[s] = 0
      /\ n < MaxSelectors
      /\ store' = [store EXCEPT !.facet[s] = Top.to, !.pos[s] = n,
                                !.slots = IF PlaceOf(n) = SelectorsPerSlot - 1
                                          THEN [@ EXCEPT ![SlotOf(n)] = slot] ELSE @]
      /\ SetTop([Top EXCEPT !.count = n + 1, !.slot = slot, !.seen = TRUE])

SolidstateRemoveSelector(s) ==
  LET n    == Top.count - 1
      last == SlotOfLast(n)[PlaceOf(n)]
  IN  /\ Applying("remove")
      /\ Top.count > 0
      /\ store.facet[s] \notin {Zero, Self}
      /\ store' = [Moved(s, last) EXCEPT !.slots = FillStored(s, n, last)]
      /\ SetTop([Top EXCEPT !.count = n, !.slot = FillLocal(s, n, last), !.seen = TRUE])

SolidstateNext ==
  \/ \E sender \in Account :
       \/ \E account \in RoleHolder : SolidstateTransferOwnership(sender, account)
                              \/ SetFallbackAddress(sender, account)
       \/ AcceptOwnership(sender)
       \/ FreezeDiamond(sender)
       \/ \E s \in Selector : SolidstateRoute(sender, s)
       \/ DiamondCut(sender)
  \/ \E f \in Address : SolidstateStartAdd(f)
  \/ SkipFacetCut
  \/ \E s \in Selector : SolidstateAddSelector(s) \/ SolidstateRemoveSelector(s)
  \/ CutSteps

SolidstateSpec == SolidstateInit /\ [][SolidstateNext]_vars

--------------------------------------------------------------------------------

\* Either diamond keeps its storage clean: removed selectors leave no position, no
\* facet is without code, and a slot past the last selector of a packed diamond is
\* zero (a Solidstate diamond leaves what it emptied).
StorageIsTidy ==
  /\ NoResidue /\ RoutedFacetsHaveCode
  /\ \/ TypeOK /\ TrailingSlotsEmpty
     \/ SolidstateTypeOK
================================================================================
