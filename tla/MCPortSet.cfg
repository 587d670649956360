SPECIFICATION Spec
CONSTANTS
  Drawn = {7, 11, 15, 19, 23, 27}
  kInitialCapacity = 4
  MaxPorts = 5
INVARIANTS
  SearchesEnd
PROPERTIES
  ImplementsSet
