SPECIFICATION Spec
CONSTANTS
  MaxNodes = 1
  Generators = {1}
  MaxEvents = 4
  Repeats = {TRUE}
  MaxSeeks = 1
PROPERTY
  FastSeekSameConfiguration
CHECK_DEADLOCK FALSE
