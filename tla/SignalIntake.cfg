SPECIFICATION FairSpec
CONSTANTS
  Sources <- MCSources
  Destinations <- MCDestinations
  DestinationOf <- MCDestinationOf
  Dependencies <- MCDependencies
  Active = {"A", "B"}
  Capacity = 3
  Large <- MCLarge
  Spoilable <- MCSpoilable
  Faulty = {"A"}
  Heavy <- MCHeavy
  MaxSeq <- MCMaxSeq
  MaxRepublish = 1
  MaxCrashes = 1
INVARIANTS AcceptedOnceInOrder RowsNotLost GapsReplay OneRowOutstanding RetentionBounded
PROPERTIES GapWithholdsOthers ImplementsStream  PrefixRecovers
