CONSTANTS
  NumBlocks = 2
  Verdicts = {"Accepted", "Rejected", "Deferred"}
  DesiredStates = {"Unknown", "Testing", "Accepted", "Rejected", "Aborted"}
  ResetPoints <- Interruptible
  Faults = {"nvOpen", "nvWrite", "nvDelete"}
SPECIFICATION Spec
INVARIANTS TypeOK BootBankComplete
PROPERTY RunningBankKept
