CONSTANTS
  buy = buy
  sell = sell
  Orders = {buy}
  Qty <- MCQty
  Side <- MCSide
  MaxFaults = 1
SPECIFICATION Spec
INVARIANTS CountedOnce BoundaryKeepsReach OpeningsSeeExposure EndedAtVenue
PROPERTIES LookupEndsCounted RecoverySettles
