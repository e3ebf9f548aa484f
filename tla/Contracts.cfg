\* Two guarded contracts and five nested calls; proxies and as many.
CONSTANTS
  Scenarios = {"guard", "upgrades", "beacons", "proxy targets"}
  A = A
  B = B
  Contract = {A, B}
  MaxDepth = 5
  Alice = Alice
  Eve = Eve
  T = T
  U = U
  P = P
  Q = Q
  K = K
  I = I
  J = J
  X = X
  Nobody = Nobody
  Transparent = {T}
  Plain = {P}
  Uups = {U}
  BeaconProxy = {Q}
  Beacon = {K}
  BeaconOf <- MCBeaconOf
  Impl = {I, J}
  UupsImpl = {I}
  Account = {Alice, Eve}
  Target = {I, J, X}
  MaxCalls = 5
SYMMETRY Interchangeable
SPECIFICATION MCSpec
INVARIANTS
  MutualExclusion
  LockedIffInside
  ProxiesRouteToCode
PROPERTIES
  AdminBehindEveryMove
  StaysUpgradeable
