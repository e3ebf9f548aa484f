--------------------------- MODULE MCPackedDiamonds ---------------------------
(* The two diamonds that pack their selectors, two to a slot.  A behaviour is *)
(* one contract's under one set of bounds: "cuts" makes one call at a time    *)
(* over three selectors; "nested" makes calls inside calls.  The constants    *)
(* are the union of what the scenarios use, so that what both diamonds        *)
(* promise is one property of the storage and the calls, whichever moves.     *)
EXTENDS DiamondSolidstate, TLC

CONSTANTS SelA, SelB, FacetA, FacetB, Eoa

VARIABLE scenario

Packed == INSTANCE DiamondPacked WITH
  Address <- {Self, FacetA, FacetB, Eoa}, Account <- {Eoa}, MaxDepth <- 1
PackedNested == INSTANCE DiamondPacked WITH
  Selector <- {ZeroSel, SelA}, Address <- {Self, FacetA, FacetB}, Account <- {FacetA},
  MaxSelectors <- 2
SolidstateCuts == INSTANCE DiamondSolidstate WITH
  Address <- {Self, FacetA, Eoa}, HasCode <- {Self, FacetA}, Account <- {Eoa}, MaxDepth <- 1
SolidstateNested == INSTANCE DiamondSolidstate WITH
  Selector <- {ZeroSel}, Address <- {Self, FacetA, Eoa}, HasCode <- {Self, FacetA},
  MaxSelectors <- 1

MCvars == <<scenario, vars>>

MCInit ==
  \/ scenario = "packed cuts" /\ Init /\ store.owner \in {Eoa, Zero}
  \/ scenario = "packed nested" /\ Init /\ store.owner \in {FacetA, Zero}
  \/ scenario = "solidstate cuts" /\ SolidstateInit /\ store.owner \in {Eoa, Zero}
  \/ scenario = "solidstate nested" /\ SolidstateInit

MCNext ==
  /\ UNCHANGED scenario
  /\ \/ scenario = "packed cuts" /\ Packed!Next
     \/ scenario = "packed nested" /\ PackedNested!Next
     \/ scenario = "solidstate cuts" /\ SolidstateCuts!SolidstateNext
     \/ scenario = "solidstate nested" /\ SolidstateNested!SolidstateNext

MCSpec == MCInit /\ [][MCNext]_MCvars

\* Bound: roles are handed over in the nested scenario only.
RolesSettled ==
  scenario = "solidstate cuts" => {store.nominee, store.fallback} = {Zero}

\* The cuts do not tell the two selectors apart; nested calls never use SelB.
Interchangeable == Permutations({SelA, SelB})
================================================================================
