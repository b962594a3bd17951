\* Two producers and two consumers on a queue of two items; one caller may be
\* killed, so the survivors may end up spinning behind a guard nobody drops.
CONSTANTS
  Producers = {p1, p2}
  Consumers = {c1, c2}
  Values = {v1, v2}
  Blank = blank
  Nothing = nothing
  ItemCount = 2
  Word = 16
  MaxIndex = 4
  MaxCrashes = 1
SPECIFICATION Spec
SYMMETRY Symmetry
CHECK_DEADLOCK FALSE
INVARIANTS SlotExclusive NoOverwrite ClaimsHeld PoisonReported
PROPERTIES NeverDecrease ImplementsFifo
