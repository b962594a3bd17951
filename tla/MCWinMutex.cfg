\* Four threads; two of them may be killed anywhere, and two waits may fail.
\* A thread killed with the permit leaves the others waiting for ever, and
\* nothing is left to do then.
CONSTANTS
  Threads = {t1, t2, t3, t4}
  NoThread = none
  MayDie = {"waiting", "held", "signal"}
  MaxDeaths = 2
  MaxFailures = 2
SPECIFICATION FairSpec
CHECK_DEADLOCK FALSE
INVARIANTS MutualExclusion NeverFails OnePermit
PROPERTIES  WaitersServed
