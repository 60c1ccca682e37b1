SPECIFICATION Spec
CONSTANTS
  FRAME_CAPACITY = 1
  keyframe_interval = 1
  MaxScreen = 2
  MaxAudio = 1
  MaxFaults = 1
INVARIANTS
  NeverGarbled
PROPERTIES
  LatestShown
  PipelineEnds
CHECK_DEADLOCK FALSE
