SPECIFICATION Spec
CONSTANTS
  Encoders = {"driver", "qRoad"}
  Recorded = {"qRoad"}
  WithAudio = {"qRoad"}
  SegFrames = 4
  Gop = 2
  QueueMax = 2
  Skew = 1
  LateStart = 4
  Frames = 9
  MaxFaults = 1
INVARIANTS FramesInOrder OneSegment NothingLost
PROPERTIES QueueIsWritten
CHECK_DEADLOCK FALSE
