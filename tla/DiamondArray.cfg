\* Long cuts over three selectors and two facets; calls inside calls over fewer.
CONSTANTS
  OwnSel = OwnSel
  SelA = SelA
  SelB = SelB
  FacetA = FacetA
  FacetB = FacetB
  Eoa = Eoa
  Zero = Zero
  Self = Self
  Selector = {OwnSel, SelA, SelB}
  OwnSelector = {OwnSel}
  Address = {Self, FacetA, FacetB, Eoa}
  HasCode = {Self, FacetA, FacetB}
  MaxDepth = 2
SYMMETRY Interchangeable
CONSTRAINT NestedCallsAreSmall
SPECIFICATION Spec
INVARIANTS
  IndexesConsistent
  LoupeMatchesRouter
PROPERTIES
  RoutesKept
  ImplementsRegistry
CHECK_DEADLOCK FALSE
