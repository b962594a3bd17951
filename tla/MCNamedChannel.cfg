\* Two clients on either system, one place in the queue of the listener.  One
\* timeout has a second and less than a millisecond, the other is too long for a
\* DWORD, of which 3 is INFINITE.  In the end nobody may have anything to do.
CONSTANTS
  Clients = {"c1", "c2"}
  Platforms = {"unix", "windows"}
  Backlog = 1
  Durations = {5, 9}
  UnitsPerMilli = 2
  MillisPerSec = 2
  Word = 4
  DefaultWait = 1
SPECIFICATION FairSpec
CHECK_DEADLOCK FALSE
INVARIANTS Paired TimesOutOnTime
PROPERTIES EverybodyAnswered
