SPECIFICATION FairSpec
CONSTANTS
  Retries = 3
INVARIANT TypeOK
INVARIANT ReturnedIsOnChain
INVARIANT SubmittedAgainAfterLossOnly
INVARIANT SubmissionsBounded
PROPERTY DeploymentReturns
CHECK_DEADLOCK FALSE
