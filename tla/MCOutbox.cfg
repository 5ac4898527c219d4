SPECIFICATION LiveSpec
CONSTANTS
  m1 = m1
  w1 = w1
  w2 = w2
  Messages <- OneMessage
  Aggregate <- OneAggregate
  Revision <- OneRevision
  Workers = {w1, w2}
  BatchSize = 1
  Lease = 2
  BaseBackoff = 1
  MaxBackoff = 2
  MaxAttempts = 2
  DeferDelay = 1
  Horizon = 0
  MaxDisruptions = 1
  MaxReplays = 1
  MaxGeneration = 2
INVARIANTS TypeOK LeaseExclusion AppliedByItsDelivery DeadJustified NoSurvivorAfterErasure
PROPERTIES SettledIsFinal KeepsPromise EventuallySettled
