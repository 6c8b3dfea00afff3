CONSTANTS
  NULL = NULL
  Awkward = FALSE
  Known <- Classes
  Samples <- AllSamples
SPECIFICATION Spec
CHECK_DEADLOCK FALSE
INVARIANTS ValuesSurvive ValuesStandApart FramesSurvive
