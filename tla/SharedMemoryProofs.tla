-------------------------- MODULE SharedMemoryProofs --------------------------
(***************************************************************************)
(* Proofs about mappings and the layout of queues, for objects, pages,     *)
(* ranges, items and queues of any size.                                   *)
(***************************************************************************)
EXTENDS SharedMemory, TLAPS

\* The numbers that the proofs are about.
LEMMA Sizes ==
  /\ Size \in Nat \ {0} /\ PageSize \in Nat \ {0} /\ Granularity \in Nat \ {0}
  /\ UsizeSize \in Nat \ {0} /\ CacheLine \in Nat \ {0}
  /\ CtrlSize \in Nat \ {0} /\ MutexSize \in Nat \ {0}
  /\ Points \subseteq Nat /\ ItemSizes \subseteq Nat \ {0} /\ ItemCounts \subseteq Nat \ {0}
  /\ CacheLine % UsizeSize = 0
BY SharedMemoryAssumption
-----------------------------------------------------------------------------
(***************************************************************************)
(* Arithmetic of the layout                                                *)
(***************************************************************************)

\* A multiple leaves no remainder ...
LEMMA MultipleMod ==
  ASSUME NEW n \in Int, NEW y \in Nat \ {0}
  PROVE  (y * n) % y = 0
<1> DEFINE x == y * n
<1>x. x \in Int
  OBVIOUS
<1>q. PICK q : q = x \div y
  OBVIOUS
<1>r. PICK r : r = x % y
  OBVIOUS
<1> HIDE DEF x
<1>1. q \in Int /\ r \in Nat /\ r < y /\ x = y * q + r
  BY <1>x, <1>q, <1>r
<1>2. r = y * (n - q)
  BY <1>1 DEF x
<1>3. n - q < 1
  BY <1>1, <1>2
<1>4. n - q > -1
  BY <1>1, <1>2
<1>5. r = 0
  BY <1>1, <1>2, <1>3, <1>4
<1> QED
  BY <1>r, <1>5 DEF x

\* ... and what leaves no remainder is a multiple.
LEMMA ModMultiple ==
  ASSUME NEW x \in Int, NEW y \in Nat \ {0}
  PROVE  x % y = 0 => \E n \in Int : x = y * n
<1>q. PICK q : q = x \div y
  OBVIOUS
<1>r. PICK r : r = x % y
  OBVIOUS
<1>1. q \in Int /\ x = y * q + r
  BY <1>q, <1>r
<1>2. r = 0 => x = y * q
  BY <1>1
<1> QED
  BY <1>1, <1>2, <1>r, Zenon

\* Rounding down to a page.
LEMMA PageStart ==
  ASSUME NEW x \in Nat, NEW y \in Nat \ {0}
  PROVE  /\ x - (x % y) \in Int /\ x - (x % y) <= x
         /\ (x - (x % y)) % y = 0
<1>q. PICK q : q = x \div y
  OBVIOUS
<1>r. PICK r : r = x % y
  OBVIOUS
<1>1. q \in Int /\ r \in Nat /\ x = y * q + r
  BY <1>q, <1>r
<1>2. x - r = y * q
  BY <1>1
<1>3. (y * q) % y = 0
  BY <1>1, MultipleMod
<1> QED
  BY <1>r, <1>1, <1>2, <1>3

\* align rounds up to a multiple.
LEMMA AlignRounds ==
  ASSUME NEW x \in Nat, NEW y \in Nat \ {0}
  PROVE  /\ Align(x, y) \in Nat /\ Align(x, y) >= x
         /\ \E n \in Nat : Align(x, y) = n * y
<1> DEFINE z == x + (y - 1)
<1>z. z \in Nat
  OBVIOUS
<1>q. PICK q : q = z \div y
  OBVIOUS
<1>r. PICK r : r = z % y
  OBVIOUS
<1> HIDE DEF z
<1>1. q \in Int /\ r \in Nat /\ r < y /\ z = y * q + r
  BY <1>z, <1>q, <1>r
<1>2. q \in Nat
  BY <1>1, <1>z
<1>3. q * y \in Nat /\ q * y >= x
  BY <1>1, <1>2 DEF z
<1>4. Align(x, y) = q * y
  BY <1>q DEF Align, z
<1> QED
  BY <1>2, <1>3, <1>4

\* The place that item_offset gives to an item is large enough for it.
LEMMA ItemFits ==
  ASSUME NEW size \in Nat
  PROVE  ItemOffset(size) \in Nat /\ ItemOffset(size) >= size
BY Sizes, AlignRounds DEF ItemOffset

\* Items in different slots do not overlap, nor does the last one reach the
\* control block.
LEMMA SlotsFit ==
  ASSUME NEW h, h.size \in Nat, h.count \in Nat \ {0}
  PROVE  /\ \A i, j \in 0 .. h.count - 1 :
              i < j => SlotStart(h, i) + h.size <= SlotStart(h, j)
         /\ SlotStart(h, h.count - 1) + h.size <= ControlStart(h)
<1> DEFINE A == ItemOffset(h.size)
<1>1. A \in Nat /\ A >= h.size
  BY ItemFits
<1> HIDE DEF A
<1>2. ASSUME NEW i \in Nat, NEW j \in Nat, i < j
      PROVE  i * A + h.size <= j * A
  <2>1. (i + 1) * A <= j * A
    BY <1>1, <1>2
  <2>2. (i + 1) * A = i * A + A
    BY <1>1
  <2>3. i * A \in Nat /\ j * A \in Nat
    BY <1>1
  <2> QED
    BY <1>1, <2>1, <2>2, <2>3
<1>3. /\ \A i \in Nat : SlotStart(h, i) = i * A
      /\ ControlStart(h) = h.count * A
  BY DEF SlotStart, ControlStart, A
<1> QED
  BY <1>2, <1>3

\* The control block behind an aligned base is aligned.
LEMMA ControlAligned ==
  ASSUME NEW h, h.size \in Nat, h.count \in Nat, h.raw_offset \in Int,
         h.raw_offset % UsizeSize = 0
  PROVE  (h.raw_offset + ControlStart(h)) % UsizeSize = 0
<1>S. UsizeSize \in Nat \ {0} /\ CacheLine \in Int /\ CacheLine % UsizeSize = 0
  BY Sizes
<1>1. PICK a \in Int : h.raw_offset = UsizeSize * a
  BY <1>S, ModMultiple
<1>2. PICK b \in Int : CacheLine = UsizeSize * b
  BY <1>S, ModMultiple
<1>3. PICK n \in Nat : ItemOffset(h.size) = n * CacheLine
  BY Sizes, AlignRounds DEF ItemOffset
<1>U. UsizeSize \in Int
  BY Sizes
<1>c. PICK c \in Int : c = h.count * n
  BY <1>3
<1>e. PICK e \in Int : e = c * b
  BY <1>2, <1>c
<1>4. PICK k \in Int : k = a + e
  BY <1>1, <1>e
<1>5. h.raw_offset + ControlStart(h) = UsizeSize * k
  <2>1. ControlStart(h) = h.count * (n * CacheLine)
    BY <1>3 DEF ControlStart
  <2>2. h.count * (n * CacheLine) = c * CacheLine
    BY <1>3, <1>c, <1>S
  <2>3. c * (UsizeSize * b) = UsizeSize * e
    BY <1>U, <1>e
  <2>4. UsizeSize * a + UsizeSize * e = UsizeSize * k
    BY <1>U, <1>4
  <2>5. ControlStart(h) = UsizeSize * e
    BY <2>1, <2>2, <2>3, <1>2, Zenon
  <2> QED
    BY <2>4, <2>5, <1>1, Zenon
<1>6. (UsizeSize * k) % UsizeSize = 0
  BY MultipleMod, Sizes
<1> QED
  BY <1>5, <1>6
-----------------------------------------------------------------------------
(***************************************************************************)
(* Mappings                                                                *)
(***************************************************************************)
FitsPages(m) ==
  m.ok => /\ m.start % PageSize = 0
          /\ m.start <= m.offset
          /\ m.offset + m.len <= m.start + m.total

WellFormed(m) ==
  /\ m.offset \in Nat /\ m.len \in Int /\ m.access \in Accesses
  /\ FitsPages(m)

\* What map makes on unix covers the user's part with whole pages.
LEMMA UnixMapFits ==
  ASSUME NEW r \in Ranges, NEW access \in Accesses
  PROVE  WellFormed(UnixMap(r, access))
<1> DEFINE m == UnixMap(r, access)
           end == IF r.first = Unbounded THEN Size ELSE r.first + 1
           shift == IF end % PageSize = 0 THEN 0 ELSE PageSize - (end % PageSize)
<1>R. r.first \in Nat \cup {Unbounded} /\ Size \in Nat
  BY Sizes DEF Ranges
<1>1. First(r) \in Nat /\ end \in Nat
  BY <1>R DEF First, Unbounded
<1>2. /\ m.offset = First(r) /\ m.len = end - First(r) /\ m.access = access
      /\ m.start = First(r) - (First(r) % PageSize)
      /\ m.total = end + shift - m.start
  BY DEF UnixMap, MapOf
<1> HIDE DEF m, end
<1>3. shift \in Nat
  BY <1>1, Sizes
<1> HIDE DEF shift
<1>4. m.start \in Int /\ m.start <= m.offset /\ m.start % PageSize = 0
  BY <1>1, <1>2, Sizes, PageStart
<1>5. m.offset + m.len <= m.start + m.total
  BY <1>1, <1>2, <1>3, <1>4
<1>6. WellFormed(m)
  BY <1>1, <1>2, <1>4, <1>5 DEF WellFormed, FitsPages
<1> QED
  BY <1>6 DEF m

\* What map makes on Windows does too, and it is the range that was asked for.
LEMMA WindowsMapFits ==
  ASSUME NEW r \in Ranges, NEW access \in Accesses
  PROVE  /\ WellFormed(WindowsMap(r, access))
         /\ GivesRange(WindowsMap(r, access))
<1> DEFINE m == WindowsMap(r, access)
<1>1. First(r) \in Nat /\ Last(r) \in Nat
  BY Sizes DEF First, Last, Ranges, Unbounded
<1>2. /\ m.offset = First(r) /\ m.len = Last(r) - First(r) /\ m.access = access
      /\ m.range = r
      /\ m.start = First(r) - (First(r) % PageSize)
      /\ m.total = m.len + First(r) - m.start
      /\ m.ok => m.len >= 0 /\ First(r) + m.len <= Size
  BY DEF WindowsMap, MapOf
<1> HIDE DEF m
<1>3. m.start \in Int /\ m.start <= m.offset /\ m.start % PageSize = 0
  BY <1>1, <1>2, Sizes, PageStart
<1>4. WellFormed(m)
  BY <1>1, <1>2, <1>3 DEF WellFormed, FitsPages
<1>5. GivesRange(m)
  BY <1>1, <1>2, Sizes DEF GivesRange, InBounds
<1> QED
  BY <1>4, <1>5 DEF m
-----------------------------------------------------------------------------
(***************************************************************************)
(* States                                                                  *)
(***************************************************************************)
Typed ==
  /\ platform \in {"unix", "windows"} /\ kind \in {"queue", "mutex"}
  /\ mapping = [p \in Procs |-> mapping[p]]
  /\ base \in [Procs -> Int]

\* Every mapping is one that map makes.
Mappings ==
  \A p \in Procs :
    /\ WellFormed(mapping[p])
    /\ platform = "windows" => GivesRange(mapping[p])

\* Nobody is attached to what does not exist.
Unplaced == made = NoHandle => \A p \in Procs : base[p] = Nowhere

\* What exists is aligned and lies within the maker's mapping, which stays.
Placed ==
  made # NoHandle =>
    /\ made.raw_offset \in Nat /\ made.size \in Nat \ {0} /\ made.count \in Nat \ {0}
    /\ made.raw_offset % UsizeSize = 0
    /\ base["maker"] = made.raw_offset
    /\ mapping["maker"].ok
    /\ mapping["maker"].offset <= made.raw_offset
    /\ made.raw_offset + Extent(made) <= mapping["maker"].offset + mapping["maker"].len

\* A peer that has attached a mutex has it within its mapping, which stays.
Attached ==
  (kind = "mutex" /\ base["peer"] # Nowhere) =>
    /\ made # NoHandle
    /\ mapping["peer"].ok /\ mapping["peer"].access = "ReadWrite"
    /\ mapping["peer"].offset <= base["peer"]
    /\ base["peer"] + MutexSize <= mapping["peer"].offset + mapping["peer"].len

IndInv == Typed /\ Mappings /\ Unplaced /\ Placed /\ Attached

\* The mapping of one who has not mapped is refused by every check.
LEMMA NoMapFits ==
  /\ WellFormed(NoMap) /\ GivesRange(NoMap) /\ ~NoMap.ok
BY DEF NoMap, WellFormed, FitsPages, GivesRange, Accesses

\* No queue or mutex is at the place of one that does not exist.
LEMMA HandleExists ==
  ASSUME NEW x \in Nat, NEW size, NEW count
  PROVE  /\ Handle(x, size, count) # NoHandle
         /\ Handle(x, size, count).raw_offset = x
         /\ Handle(x, size, count).size = size
         /\ Handle(x, size, count).count = count
         /\ x # Nowhere
<1>1. Nowhere \in Int /\ Nowhere < 0
  BY Sizes DEF Nowhere
<1>2. /\ Handle(x, size, count).raw_offset = x
      /\ Handle(x, size, count).size = size
      /\ Handle(x, size, count).count = count
      /\ NoHandle.raw_offset = Nowhere
  BY DEF Handle, NoHandle
<1> QED
  BY <1>1, <1>2

\* The initial state satisfies the invariant.
LEMMA IndInvInit == ASSUME Init PROVE IndInv
<1>1. Nowhere \in Int
  BY Sizes DEF Nowhere
<1>2. Typed
  BY <1>1, SharedMemoryAssumption DEF Init, Typed
<1>3. Mappings
  BY NoMapFits DEF Init, Mappings
<1>4. Unplaced /\ Placed /\ Attached
  BY DEF Init, Unplaced, Placed, Attached, Procs
<1> QED
  BY <1>2, <1>3, <1>4 DEF IndInv

\* Every step preserves the invariant.
LEMMA IndInvNext == ASSUME IndInv, [Next]_vars PROVE IndInv'
<1> USE DEF IndInv
<1>P. "maker" \in Procs /\ "peer" \in Procs
  BY DEF Procs
<1>M. ASSUME NEW p \in Procs
      PROVE  mapping[p].offset \in Nat /\ mapping[p].len \in Int
  BY DEF Mappings, WellFormed
<1>1. ASSUME NEW p \in Procs, NEW r \in Ranges, NEW access \in Accesses,
             Map(p, r, access)
      PROVE  IndInv'
  <2>1. WellFormed(MapRange(r, access))
        /\ (platform = "windows" => GivesRange(MapRange(r, access)))
    BY UnixMapFits, WindowsMapFits DEF MapRange, Typed
  <2>2. /\ mapping' = [mapping EXCEPT ![p] = MapRange(r, access)]
        /\ UNCHANGED <<platform, kind, rights, made, base>>
        /\ ~mapping[p].ok
    BY <1>1, NoMapFits DEF Map
  <2>3. Typed'
    BY <2>2 DEF Typed
  <2>4. Mappings'
    BY <2>1, <2>2 DEF Mappings, Typed, WellFormed, FitsPages, GivesRange
  <2>5. Unplaced' /\ Placed'
    BY <2>2, <1>P DEF Unplaced, Placed, Typed, Extent
  <2>6. Attached'
    BY <2>2, <1>P DEF Attached, Typed
  <2> QED
    BY <2>3, <2>4, <2>5, <2>6
<1>2. ASSUME NEW offset \in Points, NEW size \in ItemSizes, NEW count \in ItemCounts,
             NewQueue(offset, size, count)
      PROVE  IndInv'
  <2> DEFINE m == mapping["maker"]
             x == m.offset + offset
  <2>1. x \in Nat /\ x >= m.offset /\ size \in Nat \ {0} /\ count \in Nat \ {0}
        /\ offset \in Nat /\ m.offset \in Nat /\ m.len \in Int
    BY Sizes, <1>M, <1>P
  <2>2. /\ made' = Handle(x, size, count) /\ base' = [base EXCEPT !["maker"] = x]
        /\ kind = "queue" /\ m.ok /\ made = NoHandle /\ x % UsizeSize = 0
        /\ m.len >= offset + RequiredSize(size, count)
        /\ UNCHANGED <<platform, kind, rights, mapping>>
    BY <1>2 DEF NewQueue
  <2>3. /\ made' # NoHandle /\ made'.raw_offset = x
        /\ made'.size = size /\ made'.count = count
    BY <2>1, <2>2, HandleExists
  <2>4. Extent(made)' = RequiredSize(size, count) /\ RequiredSize(size, count) \in Nat
    <3>1. ItemOffset(size) \in Nat /\ CtrlSize \in Nat
      BY <2>1, ItemFits, Sizes
    <3>2. count * ItemOffset(size) = ItemOffset(size) * count
          /\ ItemOffset(size) * count \in Nat
      BY <2>1, <3>1
    <3> QED
      BY <2>2, <2>3, <3>1, <3>2 DEF Extent, ControlStart, RequiredSize
  <2>5. Typed'
    <3>1. x \in Int /\ base' = [base EXCEPT !["maker"] = x]
      BY <2>1, <2>2
    <3> HIDE DEF x
    <3>2. base' \in [Procs -> Int]
      BY <3>1 DEF Typed
    <3> QED
      BY <2>2, <3>2 DEF Typed
  <2>6. Mappings'
    BY <2>2 DEF Mappings, WellFormed, FitsPages, GivesRange
  <2>7. Placed'
    <3>1. x + Extent(made)' <= m.offset + m.len
      BY <2>1, <2>2, <2>4
    <3> QED
      BY <2>1, <2>2, <2>3, <3>1, <1>P DEF Placed, Typed
  <2>8. Unplaced' /\ Attached'
    BY <2>2, <2>3 DEF Unplaced, Attached
  <2> QED
    BY <2>5, <2>6, <2>7, <2>8
<1>3. ASSUME NEW offset \in Points, NewMutex(offset) PROVE IndInv'
  <2> DEFINE m == mapping["maker"]
             x == m.offset + offset
  <2>1. x \in Nat /\ x >= m.offset
        /\ offset \in Nat /\ m.offset \in Nat /\ m.len \in Int /\ MutexSize \in Nat
    BY Sizes, <1>M, <1>P
  <2>2. /\ made' = Handle(x, 1, 1) /\ base' = [base EXCEPT !["maker"] = x]
        /\ kind = "mutex" /\ m.ok /\ made = NoHandle /\ x % UsizeSize = 0
        /\ m.len >= offset + MutexSize
        /\ UNCHANGED <<platform, kind, rights, mapping>>
    BY <1>3 DEF NewMutex, MutexFits
  <2>3. /\ made' # NoHandle /\ made'.raw_offset = x
        /\ made'.size = 1 /\ made'.count = 1
    BY <2>1, <2>2, HandleExists
  <2>4. Extent(made)' = MutexSize
    BY <2>2 DEF Extent
  <2>5. Typed'
    <3>1. x \in Int /\ base' = [base EXCEPT !["maker"] = x]
      BY <2>1, <2>2
    <3> HIDE DEF x
    <3>2. base' \in [Procs -> Int]
      BY <3>1 DEF Typed
    <3> QED
      BY <2>2, <3>2 DEF Typed
  <2>6. Mappings'
    BY <2>2 DEF Mappings, WellFormed, FitsPages, GivesRange
  <2>7. Placed'
    <3>1. x + Extent(made)' <= m.offset + m.len
      BY <2>1, <2>2, <2>4
    <3> QED
      BY <2>1, <2>2, <2>3, <3>1, <1>P DEF Placed, Typed
  <2>8. Unplaced' /\ Attached'
    BY <2>2, <2>3, <1>P DEF Unplaced, Attached, Typed
  <2> QED
    BY <2>5, <2>6, <2>7, <2>8
<1>4. ASSUME NEW p \in Procs, QueueFromHandle(p) PROVE IndInv'
  <2>1. /\ base' = [base EXCEPT ![p] = made.raw_offset]
        /\ kind = "queue" /\ made # NoHandle
        /\ UNCHANGED <<platform, kind, rights, mapping, made>>
    BY <1>4 DEF QueueFromHandle
  <2>2. Mappings'
    BY <2>1 DEF Mappings, WellFormed, FitsPages, GivesRange
  <2>3. Typed' /\ Unplaced' /\ Placed' /\ Attached'
    BY <2>1, <1>P DEF Typed, Unplaced, Placed, Attached, Extent
  <2> QED
    BY <2>2, <2>3
<1>5. ASSUME NEW p \in Procs, MutexFromHandle(p) PROVE IndInv'
  <2>1. /\ base' = [base EXCEPT ![p] = made.raw_offset]
        /\ kind = "mutex" /\ made # NoHandle /\ mapping[p].ok
        /\ made.raw_offset >= mapping[p].offset
        /\ mapping[p].len >= made.raw_offset - mapping[p].offset + MutexSize
        /\ mapping[p].access = "ReadWrite"
        /\ UNCHANGED <<platform, kind, rights, mapping, made>>
    BY <1>5 DEF MutexFromHandle, MutexFits
  <2>2. Mappings'
    BY <2>1 DEF Mappings, WellFormed, FitsPages, GivesRange
  <2>3. Typed' /\ Unplaced' /\ Placed'
    BY <2>1, <1>P DEF Typed, Unplaced, Placed, Extent
  <2>4. Attached'
    BY <2>1, <1>P, <1>M, Sizes DEF Typed, Placed, Attached
  <2> QED
    BY <2>2, <2>3, <2>4
<1>6. ASSUME UNCHANGED vars PROVE IndInv'
  BY <1>6
  DEF vars, Typed, Mappings, WellFormed, FitsPages, GivesRange, Unplaced, Placed,
      Attached, Extent
<1> HIDE DEF IndInv
<1> QED
  BY <1>1, <1>2, <1>3, <1>4, <1>5, <1>6 DEF Next

\* The invariant holds in every state.
LEMMA Invariance == Spec => []IndInv
<1>1. Init => IndInv
  BY IndInvInit
<1>2. IndInv /\ [Next]_vars => IndInv'
  BY IndInvNext
<1> QED
  BY <1>1, <1>2, PTL DEF Spec
-----------------------------------------------------------------------------
\* On Windows map gives exactly the range asked for, for objects of any size and
\* ranges with any ends.
THEOREM MapIsRangeHolds == Spec => []MapIsRange
<1>1. IndInv => MapIsRange
  BY DEF IndInv, Mappings, MapIsRange
<1> QED
  BY <1>1, Invariance, PTL

\* On both systems the pages that are mapped cover what the user got.
THEOREM PagesCoverHolds == Spec => []PagesCover
<1>1. IndInv => PagesCover
  BY DEF IndInv, Mappings, WellFormed, FitsPages, PagesCover
<1> QED
  BY <1>1, Invariance, PTL

\* What new_with_memory makes lies within the maker's mapping: required_size
\* counts every byte that is touched, for all item sizes and counts.
THEOREM PlacedInsideHolds == Spec => []PlacedInside
<1>1. IndInv => PlacedInside
  BY DEF IndInv, Typed, Unplaced, Placed, PlacedInside, Inside, Procs
<1> QED
  BY <1>1, Invariance, PTL

\* A mutex lies within the mapping of a peer that attached it, however the two
\* mapped the memory, and the peer can write to it.
THEOREM MutexAttachedInsideHolds == Spec => []MutexAttachedInside
<1>1. IndInv => MutexAttachedInside
  BY DEF IndInv, Attached, MutexAttachedInside, Inside, Extent
<1> QED
  BY <1>1, Invariance, PTL

\* The items of a queue never overlap each other or the control block, which is
\* aligned, for all item sizes and counts.
THEOREM SlotsApartHolds == Spec => []SlotsApart
<1>1. ASSUME IndInv, kind = "queue", made # NoHandle
      PROVE  /\ \A i, j \in 0 .. made.count - 1 :
                  i < j => SlotStart(made, i) + made.size <= SlotStart(made, j)
             /\ SlotStart(made, made.count - 1) + made.size <= ControlStart(made)
             /\ (made.raw_offset + ControlStart(made)) % UsizeSize = 0
  <2>1. /\ made.raw_offset \in Nat /\ made.size \in Nat /\ made.count \in Nat \ {0}
        /\ made.raw_offset % UsizeSize = 0
    BY <1>1 DEF IndInv, Placed
  <2> QED
    BY <2>1, SlotsFit, ControlAligned
<1>2. IndInv => SlotsApart
  BY <1>1 DEF SlotsApart
<1> QED
  BY <1>2, Invariance, PTL
===============================================================================
