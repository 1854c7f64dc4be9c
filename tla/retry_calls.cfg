SPECIFICATION FairSpec
CONSTANTS
  c1 = c1  c2 = c2
  None = None
  Calls <- TwoCalls
  AttemptLimits <- SomeLimits
  InitialBackoff = 2
  MaxBackoff = 7
  Called <- EachWay
INVARIANTS TypeOK GivesUpInTime RetriesAreCounted BackoffIsCappedDoubling
PROPERTIES KeepsPromise EveryCallEnds
