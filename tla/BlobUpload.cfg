SPECIFICATION FairSpec
CONSTANTS
  Sizes = {0, 1, 3}
  PushChunks <- MCPushChunks
  Retries = 1
  MaxFaults = 3
INVARIANTS
  UploadInvariant
  PushedIsStored
  SmoothPushSucceeds
PROPERTIES
  PushEnds
CHECK_DEADLOCK FALSE
