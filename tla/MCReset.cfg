CONSTANTS
  File = {f1}
  Package = {b1}
  Worker = {w1}
  MaxRestores = 1
SPECIFICATION RestoreSpec
INVARIANTS ResetAllResets
CHECK_DEADLOCK FALSE
