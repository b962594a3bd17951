\* Four instances; a handle is only used while some instance is kept.  One
\* process may be killed, and the others may then wait for ever.
CONSTANTS
  Instances = {i1, i2, i3, i4}
  First = i1
  NoInstance = none
  AttachLate = FALSE
  MaxDeaths = 1
SPECIFICATION Spec
CHECK_DEADLOCK FALSE
INVARIANTS InstancesWork DestroyedAlone PanicKept
