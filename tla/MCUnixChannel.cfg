\* Users that read only when nothing is buffered start raw and become message
\* channels; the user of a sends files: two fill the control message in two
\* passes, three do not fit, size 2 is too long, and the tables fill up.  Users
\* that read at any time send bytes only.  All may drop everything, and nothing
\* is left to do then.
CONSTANTS
  MaxFds = 4
  Passes = 2
  FdLimit = 6
  Files <- OneFromA
  MaxFiles <- ThreeFromA
  Sizes = {1, 2}
  MaxMessageSize = 1
  QueueLimit = 1
  MayStarve = FALSE
  StartRaw = TRUE
  Uses = {"flush_first", "bytes"}
  SealedEnds = {}
SPECIFICATION FairSpec
CHECK_DEADLOCK FALSE
INVARIANTS NothingRefused BufferedSendable  RightsMatch ReceivedIntact
PROPERTIES BufferedGetsTurn
