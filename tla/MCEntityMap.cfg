CONSTANTS
  Symbols = {"A", "B", "C"}
  Entities = {"e", "f"}
  Actions <- PassedAround
  MaxTime = 4
  MaxRows = 3
SPECIFICATION Spec
INVARIANTS
  SymbolsHaveOneHolder
  EndedStaysEnded
PROPERTIES
  EarlierDecisionsStand
CHECK_DEADLOCK FALSE
