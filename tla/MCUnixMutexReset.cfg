\* Two instances: one of them attaches after the other panicked.
CONSTANTS
  Instances = {i1, i2}
  First = i1
  NoInstance = none
  AttachLate = FALSE
  MaxDeaths = 0
SPECIFICATION Spec
CHECK_DEADLOCK FALSE
INVARIANTS PanicReported
