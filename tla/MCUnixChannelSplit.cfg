\* Users that read while a send is buffered, as the halves of a split channel do.
CONSTANTS
  MaxFds = 2
  Passes = 1
  FdLimit = 5
  Files <- OneFromA
  MaxFiles <- OneEach
  Sizes = {1}
  MaxMessageSize = 1
  QueueLimit = 1
  MayStarve = FALSE
  StartRaw = FALSE
  Uses = {"split"}
  SealedEnds = {}
SPECIFICATION Spec
CHECK_DEADLOCK FALSE
INVARIANTS ReceivedIntact
