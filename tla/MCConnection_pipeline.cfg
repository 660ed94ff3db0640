SPECIFICATION FairSpec
CONSTANTS
  Kinds <- MCKinds
  MaxRequests = 3
INVARIANTS TypeOK ServesSomething RefusedWithCause KeptOnlyIfAsked
PROPERTIES AnswersInOrder IdleIsSilent AllAnswered
CHECK_DEADLOCK FALSE
