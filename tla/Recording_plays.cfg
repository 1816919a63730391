SPECIFICATION Spec
CONSTANTS
  MaxNodes = 2
  Generators = {1, 2}
  MaxEvents = 5
  Repeats = {TRUE}
  MaxSeeks = 2
INVARIANTS
  TypeOK
  FileExact
  IndexAlive
  UnfinishedRefused
PROPERTIES
  SoughtShown
  NeverCorrupt
  Follows
CHECK_DEADLOCK FALSE
