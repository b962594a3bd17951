\* Two threads establish channels while a third launches a process; the children
\* launch one each.  Everything may have been dropped and everybody have exited
\* in the end.
CONSTANTS
  Threads = {t1, t2}
  Strangers = {s1}
  Platforms = {"unix", "windows"}
SYMMETRY ThreadSymmetry
SPECIFICATION Spec
CHECK_DEADLOCK FALSE
INVARIANTS HangUpSeen  ChildConnected
