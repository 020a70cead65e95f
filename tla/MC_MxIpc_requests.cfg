SPECIFICATION FairSpec
CONSTANTS
  MaxRequests = 4
  CONTROL_PLANE_QUEUE_LEN = 2
  ResponseBuffLen = 2
INVARIANT TypeOK
INVARIANT OwnAnswer
INVARIANT BuffersAccounted
INVARIANT BlindOnlyAfterLate
PROPERTY AwaitedAnswerKept
PROPERTY RequestReturns
