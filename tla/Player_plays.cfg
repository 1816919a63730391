SPECIFICATION Spec
CONSTANTS
  a1 = a1
  a2 = a2
  depth = depth
  Apps = {a1, a2}
  Playback = Playback
  NoThread = NoThread
  NoName = NoName
  Names = {depth}
  Speeds = {0, 1, 2}
  MaxCalls = 4
  MaxNotified = 3
INVARIANTS
  TypeOK
  SpeedKept
  PlayedHeld
  ThreadGone
PROPERTIES
  ThreadServes
CHECK_DEADLOCK FALSE
