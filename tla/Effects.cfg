\* Every program of the four families; every contract of the two.
CONSTANTS
  a = a
  b = b
  c = c
  g = g
  x = x
  y = y
  s = s
  fn = fn
  helper = helper
  li = li
  le = le
  me = me
  L = L
  M = M
  Unknown = Unknown
  None = None
  NoLib = NoLib
  Members = {fn, helper, g, li, le, me}
  Libs = {L, M}
  Contracts <- LibraryContracts
  Fns = {a, b, c, g}
  Slots = {x, y}
  Sigs = {s}
  SlotSig <- OneSig
  Programs <- MCPrograms
SPECIFICATION MCSpec
INVARIANTS
  MutabilityHonest
  EffectsExact
  ObjectsComplete
  PointersDispatch
CHECK_DEADLOCK FALSE
