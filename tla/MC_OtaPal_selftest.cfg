CONSTANTS
  NumBlocks = 2
  Verdicts = {"Accepted"}
  DesiredStates = {"Unknown", "Testing", "Accepted", "Rejected", "Aborted"}
  ResetPoints <- Interruptible
  Faults = {}
SPECIFICATION FairSpec
INVARIANT SelfTestBootsTarget
