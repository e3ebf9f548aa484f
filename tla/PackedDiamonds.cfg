\* Cuts over three selectors, two to a slot, and calls inside calls over fewer.
CONSTANTS
  SelA = SelA
  SelB = SelB
  ZeroSel = ZeroSel
  FacetA = FacetA
  FacetB = FacetB
  Eoa = Eoa
  Zero = Zero
  Self = Self
  Selector = {ZeroSel, SelA, SelB}
  OwnSelector = {}
  Address = {Self, FacetA, FacetB, Eoa}
  HasCode = {Self, FacetA, FacetB}
  Account = {Eoa, FacetA}
  SelectorsPerSlot = 2
  MaxSelectors = 4
  MaxDepth = 2
SYMMETRY Interchangeable
SPECIFICATION MCSpec
CONSTRAINT RolesSettled
INVARIANTS
  SelectorsIndexed
  LoupeMatchesRouter
  StorageIsTidy
PROPERTIES
  ImplementsRegistry
CHECK_DEADLOCK FALSE
