SPECIFICATION AllSpec
CONSTANTS
  FrameBytes = 3
  Trailer = 2
  Chunk = 2
  Window = 2
  MaySubmitFail = TRUE
  MayStall = TRUE
  MaxFrames = 3
  MaxSegments = 6
  u1 = u1
  u2 = u2
INVARIANTS
  TypeOK SegmentsHeld FramesInOrder
  SessionsHold ReadsHold OneAfterAbort OneSession FramesHold
CHECK_DEADLOCK FALSE
