CONSTANTS
  Calls = {c1, c2}
  MaxId = 1
  None = None
SPECIFICATION FairSpec
INVARIANTS OwnAnswer AnswerFindsCallback NoDanglingPromise NoLostWakeUp
PROPERTIES EventuallyReturns ServesLikeARequestService
CHECK_DEADLOCK FALSE
