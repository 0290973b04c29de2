SPECIFICATION FairSpec
CONSTANTS
  Commands <- MCCommands
  Class <- MCClass
  Shape <- MCShape
  Kind <- MCKind
  Orders <- MCOrders
  Authorised <- MCAuthorised
  CommandCapacity = 2
  UrgentCapacity = 1
  ReadyCapacity = 2
  CompletionCapacity = 1
  MaxAmendBatch = 2
  MaxThrottles = 1
INVARIANTS TaskInv EachAnsweredOnce
PROPERTIES CancelAfterItsSend UrgentFirst AllAnswered
CHECK_DEADLOCK FALSE
