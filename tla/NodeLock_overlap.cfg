SPECIFICATION Spec
CONSTANTS
  app = app
  playback = playback
  sensor = sensor
  mock = mock
  Threads = {app, playback}
  Nodes = {sensor, mock}
  LockAware = {sensor}
  MaxLockID = 3
  Foreign = 4
  NoThread = NoThread
  NoNode = NoNode
SYMMETRY ThreadSymmetry
INVARIANTS
  TypeOK
  HolderKeepsLock
  LocksExclusive
  ChangesByLocker
CHECK_DEADLOCK FALSE
