\* No caller is killed; consumers keep polling.
CONSTANTS
  Producers = {p1, p2, p3}
  Consumers = {c1, c2}
  Values = {}
  Blank = blank
  Nothing = nothing
  ItemCount = 1
  Word = 16
  MaxIndex = 4
  MaxCrashes = 0
SPECIFICATION PollingSpec
PROPERTIES LoopProgress  MessagesDrain
