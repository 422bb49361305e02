SPECIFICATION FairSpec
CONSTANTS
  Viewers = {v1, v2}
  MaxFrames = 3
  Buffer = 1
  Camera = camera
INVARIANTS TypeOK FramesFollow
PROPERTIES CameraServed StreamStarts NewestFrameShown
CHECK_DEADLOCK FALSE
