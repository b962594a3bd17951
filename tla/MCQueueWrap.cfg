\* usize has 12 values, a multiple of item_count as 2^32 and 2^64 are of any power
\* of two, so next_send_index and next_recv_index run past usize::MAX; producers
\* then stay in PushGuard::drop behind the index that was lost.
CONSTANTS
  Producers = {p1, p2}
  Consumers = {c1, c2}
  Values = {}
  Blank = blank
  Nothing = nothing
  ItemCount = 2
  Word = 12
  MaxIndex = 12
  MaxCrashes = 0
SPECIFICATION Spec
SYMMETRY Symmetry
INVARIANTS TypeOK SlotExclusive
