SPECIFICATION FairSpec
CONSTANTS
  MAX_RETRIES = 2
  LOOP_QUEUE_SIZE = 4
INVARIANTS
  TypeOK
  FlagTellsLink
  AttemptsAreBounded
  FailMeansOffline
  IdleIsReported
PROPERTIES
  Settles
  GivenUpFallsSilent
  SilenceIsFinal
  LateLinkIsUsed
