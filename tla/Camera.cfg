CONSTANTS
  OUTPUT_BUF_SIZE = 2
  Capacity = 4
  MaxBuffers = 2
  LastPicture = 3
  Pictures <- MCPictures
SPECIFICATION CameraFairSpec
INVARIANTS CameraInv
PROPERTIES SinkSafety SourceSafety CallReturns
CHECK_DEADLOCK FALSE
