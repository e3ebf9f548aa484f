\* Units of up to three classes in two files; hierarchies of four and five classes.
CONSTANTS
  Units <- MCUnits
  Route = "Main"
  UnitClasses = {"Main", "Left", "Right"}
  Hierarchies <- MCHierarchies
  Deployed = "Z"
  NoFn = NoFn
  NoBase = NoBase
  Ambiguous = Ambiguous
  Unknown = Unknown
SPECIFICATION MCSpec
INVARIANTS
  RejectsAsOneFile
  RaisesAsOneFile
  LinearizesAsC3
  OverridesSubstitutable
  OneVersionDominates
CHECK_DEADLOCK FALSE
