SPECIFICATION Spec
CONSTANTS
  Satisfies <- MCSatisfies
  Cases <- MCCases
  MaxDepth = 3
INVARIANTS ResolutionMatchesGraph PanicOnlyAtLimit TemplatesChecked ParametersArrive LimitsSet NamesReadBack OursAreFound ObservedAreOurs CommandCarriedOut
CHECK_DEADLOCK FALSE
