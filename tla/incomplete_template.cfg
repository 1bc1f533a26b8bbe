SPECIFICATION Spec
CONSTANTS
  Satisfies <- MCSatisfies
  Cases <- Documents
  MaxDepth = 3
INVARIANT TemplatesComplete
CHECK_DEADLOCK FALSE
