SPECIFICATION Spec
CONSTANTS
  depth = depth
  user = user
  recorder = recorder
  Nodes = {depth, user, recorder}
  Generators = {depth, user}
  Recorders = {recorder}
  Needs <- MCNeeds
  Partner <- MCPartner
  Threshold = 0
  Recording <- MCRecording
  MaxStamp = 2
  LoopAsynch = FALSE
  NoNode = NoNode
PROPERTY
  SameDataUntilUpdate
