SPECIFICATION Spec
CONSTANTS
  Satisfies <- MCSatisfies
  Specs <- MCSpecs
  MayHave <- TwoNeeded
  First <- MCFirst
  Names = {"base", "app", "top"}
  MayFail = {}
  MayDelete = FALSE
  MayWait = {}
  MaxEdits = 3
  MaxCrashes = 0
  MaxDepth = 4
PROPERTY DependenciesInstalled
CHECK_DEADLOCK FALSE
