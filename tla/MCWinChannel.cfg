\* Two processes, the first with a file and a socket, the second with a sealed
\* end.  The users may drop everything, and nothing is left to do then.
CONSTANTS
  Home <- Apart
  SealedEnds = {"b"}
  Passes = 1
  HandleLimit = 4
  Files <- TwoInFirst
  Sockets = {2}
  MaxFiles = 2
  Sizes = {1, 2}
  MaxMessageSize = 1
  QueueLimit = 1
SPECIFICATION Spec
CHECK_DEADLOCK FALSE
INVARIANTS ReceivedIntact HandlesApart  SealedCarriesNone
