SPECIFICATION Spec
CONSTANTS
  i1 = i1
  i2 = i2
  i3 = i3
  depth = depth
  image = image
  player = player
  Infos = {i1, i2, i3}
  Slots = {1}
  Types = {depth, image, player}
  TypeOf <- DistinctTypes
  PlayerTypes = {player}
  UserNames <- NoUserName
  MaxIndex = 2
  MaxInfoRefs = 1
  MaxHeld = 3
  MaxLost = 1
  NoName = NoName
  Owned = Owned
  NoNode = NoNode
INVARIANT
  UnreferencedDestroyed
CHECK_DEADLOCK FALSE
