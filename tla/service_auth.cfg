SPECIFICATION Spec
CONSTANTS
  Deployments <- MCDeployments
  Requests = {1, 2, 3}
  MaxClock = 3
  MaxRotations = 2
  MaxStoreChanges = 1
  MaxRestarts = 1
INVARIANTS
  AuthTypeOK
  AnswerWasTrue
  AdmittedHadProof
  DecisionsPinned
  StartupFailsClosed
CHECK_DEADLOCK FALSE
