SPECIFICATION Spec
CONSTANTS
  open1 = open1
  open2 = open2
  exit1 = exit1
  s1 = s1
  x2 = x2
  x5 = x5
  none = none
  Ids = {open1}
  Symbols = {s1}
  SymbolOf <- InOneSymbol
  Opens = {open1}
  NetReduces = {}
  Leverages = {x2, x5}
  Want <- Wants
  NoLeverage = none
  MaxBatch = 2
  MaxCrashes = 0
  MaxFaults = 0
INVARIANT UnresolvedIsAttempted
CHECK_DEADLOCK FALSE
