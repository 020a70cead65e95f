CONSTANTS
  NumBlocks = 2
  Verdicts = {"Accepted", "Rejected", "Deferred"}
  DesiredStates = {"Unknown", "Testing", "Accepted", "Rejected", "Aborted"}
  ResetPoints <- OutsideBankSwitch
  Faults = {"nvDelete"}
SPECIFICATION FairSpec
INVARIANTS NoAssertFails RunsTrustedImage
PROPERTIES ReachesApp ImplementsUpdate
