SPECIFICATION FairSpec
CONSTANTS
  Satisfies <- MCSatisfies
  Specs <- MCSpecs
  MayHave <- Chain
  First <- MCFirst
  Names = {"base", "app", "top"}
  MayFail = {"app"}
  MayDelete = TRUE
  MayWait = {"top"}
  MaxEdits = 4
  MaxCrashes = 1
  MaxDepth = 4
INVARIANT TypeOK
PROPERTIES DependentsWait DependentsFollow
CHECK_DEADLOCK FALSE
