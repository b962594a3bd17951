\* Both systems, queues and mutexes, and every pair of ranges of the maker and
\* its peer, in an object that is no multiple of the page size.  Once both have
\* attached, or cannot, nothing is left to do.
CONSTANTS
  Platforms = {"unix", "windows"}
  Kinds = {"queue", "mutex"}
  Size = 18
  Points = {0, 2, 4, 5, 8, 14, 17, 19}
  PageSize = 4
  Granularity = 8
  UsizeSize = 2
  CacheLine = 4
  ItemSizes = {1, 5}
  ItemCounts = {1, 3}
  CtrlSize = 4
  MutexSize = 4
SPECIFICATION Spec
CHECK_DEADLOCK FALSE
INVARIANTS  PagesCover PlacedInside SlotsApart MutexAttachedInside
