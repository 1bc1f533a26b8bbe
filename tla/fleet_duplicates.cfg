SPECIFICATION Spec
CONSTANTS
  Satisfies <- MCSatisfies
  Specs <- MCSpecs
  MayHave <- Twins
  First <- MCFirst
  Names = {"base", "other"}
  MayFail = {}
  MayDelete = FALSE
  MayWait = {}
  MaxEdits = 2
  MaxCrashes = 0
  MaxDepth = 4
INVARIANT NoDuplicates

CHECK_DEADLOCK FALSE
