----------------------------- MODULE SharedMemory -----------------------------
(***************************************************************************)
(* Shared memory and what is put into it: SharedMem::map of the platforms  *)
(* (src/src/unix/sharedmem.rs, src/src/windows/sharedmem.rs), the layout   *)
(* of a Queue (src/src/shm/queue.rs) and the checks that Queue and Mutex   *)
(* (src/src/sync.rs) make before they touch a mapping.                     *)
(*                                                                         *)
(* A maker maps the object and puts a queue or a mutex into its mapping; a *)
(* process that got the memory and a handle maps the object in its own way *)
(* and attaches.  Positions are offsets in the object; both mappings are   *)
(* of the same object, so the token check always succeeds.                 *)
(***************************************************************************)
EXTENDS Integers

CONSTANTS
  Platforms,     \* the systems considered, of "unix" and "windows"
  Kinds,         \* what the object may hold, of "queue" and "mutex"
  Size,          \* size of the object
  Points,        \* bound: the numbers in ranges, and the offsets in mappings
  PageSize,
  Granularity,   \* what MapViewOfFile wants offsets to be a multiple of
  UsizeSize,
  CacheLine,
  ItemSizes,     \* the item sizes and
  ItemCounts,    \* the item counts of queues
  CtrlSize,      \* size_of::<SharedMemQueueCtrl>()
  MutexSize      \* MUTEX_SHM_SIZE

ASSUME SharedMemoryAssumption ==
  /\ Platforms \subseteq {"unix", "windows"}
  /\ Kinds \subseteq {"queue", "mutex"}
  /\ {Size, PageSize, Granularity, UsizeSize, CacheLine, CtrlSize, MutexSize}
       \subseteq Nat \ {0}
  /\ CacheLine % UsizeSize = 0
  /\ Points \subseteq Nat
  /\ ItemSizes \subseteq Nat \ {0} /\ ItemCounts \subseteq Nat \ {0}

VARIABLES
  platform,  \* the system, and
  kind,      \* what the maker will put into the object
  rights,    \* rights[p]: what p's SharedMem allows
  mapping,   \* mapping[p]: p's SharedMemMap
  made,      \* the handle of the queue or mutex, as new_with_memory made it
  base       \* base[p]: where p believes it is, or Nowhere

vars == <<platform, kind, rights, mapping, made, base>>

Procs == {"maker", "peer"}
Accesses == {"Read", "ReadWrite"}
Nowhere == -Size - MutexSize
-----------------------------------------------------------------------------
(***************************************************************************)
(* Ranges: the four types that implement RangeArgument.                    *)
(***************************************************************************)
Unbounded == -1

\* first is Unbounded or included, last Unbounded or excluded.
Ranges == [first : Points \cup {Unbounded}, last : Points \cup {Unbounded}]

\* What a range means.
First(r) == IF r.first = Unbounded THEN 0 ELSE r.first
Last(r) == IF r.last = Unbounded THEN Size ELSE r.last

NoMap == [range |-> [first |-> 0, last |-> 0], access |-> "Read", ok |-> FALSE,
          offset |-> 0, len |-> 0, start |-> 0, total |-> -1]

\* A SharedMemMap: the user's part, and the pages that are really mapped.
MapOf(r, access, ok, offset, len, start, total) ==
  [range |-> r, access |-> access, ok |-> ok,
   offset |-> offset, len |-> len, start |-> start, total |-> total]

\* Mutant: the last page is not rounded up from where the mapping starts.
UnixMapShort(r, access) ==
  LET offset == First(r)
      end    == IF r.first = Unbounded THEN Size ELSE r.first + 1
      start  == offset - (offset % PageSize)
      total  == end - offset
      ok     == offset <= end /\ end <= Size /\ total > 0
  IN  MapOf(r, access, ok, offset, end - offset, start, total)

\* unix: the end is computed from the start of the range.  mmap refuses an
\* empty mapping.
UnixMap(r, access) ==
  LET offset == First(r)
      end    == IF r.first = Unbounded THEN Size ELSE r.first + 1
      start  == offset - (offset % PageSize)
      shift  == IF end % PageSize = 0 THEN 0 ELSE PageSize - (end % PageSize)
      total  == end + shift - start
      ok     == offset <= end /\ end <= Size /\ total > 0
  IN  MapOf(r, access, ok, offset, end - offset, start, total)

\* Mutant: only the length is compared with the size.
WindowsMapUnchecked(r, access) ==
  LET offset == First(r)
      len    == Last(r) - offset
      start  == offset - (offset % PageSize)
      ok     == len >= 0 /\ len <= Size /\ start % Granularity = 0
  IN  MapOf(r, access, ok, offset, len, start, len + offset - start)

\* windows: MapViewOfFile refuses an offset that is not a multiple of the
\* allocation granularity.
WindowsMap(r, access) ==
  LET offset == First(r)
      len    == Last(r) - offset
      start  == offset - (offset % PageSize)
      ok     == len >= 0 /\ offset + len <= Size /\ start % Granularity = 0
  IN  MapOf(r, access, ok, offset, len, start, len + offset - start)

MapRange(r, access) ==
  IF platform = "unix" THEN UnixMap(r, access) ELSE WindowsMap(r, access)
-----------------------------------------------------------------------------
(***************************************************************************)
(* Layout of a queue.                                                      *)
(***************************************************************************)

\* align, for a y that is a power of two.
Align(x, y) == ((x + (y - 1)) \div y) * y

\* Mutant: items are not aligned.
ItemOffsetUnaligned(size) == size

\* item_offset
ItemOffset(size) == Align(size, CacheLine)

\* Mutant: the items are taken to follow each other without gaps.
RequiredSizePacked(size, count) == size * count + CtrlSize

\* required_size
RequiredSize(size, count) == ItemOffset(size) * count + CtrlSize

\* What is touched behind a base: the item slots, and the control block.
SlotStart(h, i) == i * ItemOffset(h.size)
ControlStart(h) == h.count * ItemOffset(h.size)
-----------------------------------------------------------------------------
(***************************************************************************)
(* Handles.  NoHandle stands for a queue or mutex that does not exist yet. *)
(***************************************************************************)
Handle(raw_offset, size, count) == [raw_offset |-> raw_offset, size |-> size, count |-> count]
NoHandle == Handle(Nowhere, 1, 1)

Init ==
  /\ platform \in Platforms /\ kind \in Kinds
  /\ rights \in {[maker |-> "ReadWrite", peer |-> a] : a \in Accesses}
  /\ mapping = [p \in Procs |-> NoMap]
  /\ made = NoHandle
  /\ base = [p \in Procs |-> Nowhere]

\* SharedMem::map; a handle from clone_with_access(Read) is read-only.  The peer
\* maps the memory that it got together with the handle.
Map(p, r, access) ==
  /\ mapping[p] = NoMap
  /\ p = "peer" => made # NoHandle
  /\ access = "ReadWrite" => rights[p] = "ReadWrite"
  /\ mapping' = [mapping EXCEPT ![p] = MapRange(r, access)]
  /\ UNCHANGED <<platform, kind, rights, made, base>>

\* Queue::new_with_memory
NewQueue(offset, size, count) ==
  LET m == mapping["maker"] IN
  /\ kind = "queue" /\ m.ok /\ made = NoHandle
  /\ m.len >= offset + RequiredSize(size, count)
  /\ (m.offset + offset) % UsizeSize = 0
  /\ made' = Handle(m.offset + offset, size, count)
  /\ base' = [base EXCEPT !["maker"] = m.offset + offset]
  /\ UNCHANGED <<platform, kind, rights, mapping>>

\* Queue::from_handle
QueueFromHandle(p) ==
  LET m == mapping[p] IN
  /\ kind = "queue" /\ m.ok /\ made # NoHandle
  /\ made.raw_offset <= m.offset
  /\ made.raw_offset + RequiredSize(made.size, made.count) <= m.offset + m.len
  /\ base' = [base EXCEPT ![p] = made.raw_offset]
  /\ UNCHANGED <<platform, kind, rights, mapping, made>>

\* Mutex::with_inner: the checks on a mapping and an offset in it.
MutexFits(m, offset) ==
  /\ m.len >= offset + MutexSize
  /\ (m.offset + offset) % UsizeSize = 0
  /\ m.access = "ReadWrite"

\* Mutex::new_with_memory
NewMutex(offset) ==
  LET m == mapping["maker"] IN
  /\ kind = "mutex" /\ m.ok /\ made = NoHandle
  /\ MutexFits(m, offset)
  /\ made' = Handle(m.offset + offset, 1, 1)
  /\ base' = [base EXCEPT !["maker"] = m.offset + offset]
  /\ UNCHANGED <<platform, kind, rights, mapping>>

\* Mutant: the subtraction is not checked.
MutexFromHandleUnchecked(p) ==
  LET m == mapping[p] IN
  /\ kind = "mutex" /\ m.ok /\ made # NoHandle
  /\ MutexFits(m, made.raw_offset - m.offset)
  /\ base' = [base EXCEPT ![p] = made.raw_offset]
  /\ UNCHANGED <<platform, kind, rights, mapping, made>>

\* Mutex::from_handle: checked_sub refuses a mapping that starts too late.
MutexFromHandle(p) ==
  LET m == mapping[p] IN
  /\ kind = "mutex" /\ m.ok /\ made # NoHandle
  /\ made.raw_offset >= m.offset
  /\ MutexFits(m, made.raw_offset - m.offset)
  /\ base' = [base EXCEPT ![p] = made.raw_offset]
  /\ UNCHANGED <<platform, kind, rights, mapping, made>>

Next ==
  \/ \E p \in Procs, r \in Ranges, access \in Accesses : Map(p, r, access)
  \/ \E offset \in Points :
       \/ \E size \in ItemSizes, count \in ItemCounts : NewQueue(offset, size, count)
       \/ NewMutex(offset)
  \/ \E p \in Procs : QueueFromHandle(p) \/ MutexFromHandle(p)

Spec == Init /\ [][Next]_vars
-----------------------------------------------------------------------------
(***************************************************************************)
(* Properties                                                              *)
(***************************************************************************)
InBounds(r) == First(r) <= Last(r) /\ Last(r) <= Size

\* A mapping is exactly the range that was asked for, and none is made for a
\* range that is out of bounds.
GivesRange(m) ==
  m.ok => /\ InBounds(m.range)
          /\ m.offset = First(m.range)
          /\ m.offset + m.len = Last(m.range)

\* On Windows map gives the range it was asked for, whichever of the range
\* types, empty and reversed ones included, asks for it.
MapIsRange == platform = "windows" => \A p \in Procs : GivesRange(mapping[p])

\* The same on unix, where a range that is out of bounds is to be refused:
\* "shared memory map range is out of bounds".
UnixMapIsRange == platform = "unix" => \A p \in Procs : GivesRange(mapping[p])

\* map refuses no range that is within the object, except that an empty one
\* cannot be mapped.
RangesMapped ==
  \A p \in Procs : LET m == mapping[p] IN
    (m # NoMap /\ InBounds(m.range) /\ First(m.range) < Last(m.range)) => m.ok

\* The pages that are mapped start at a page and cover what the user got.
PagesCover ==
  \A p \in Procs : LET m == mapping[p] IN
    m.ok => /\ m.start % PageSize = 0
            /\ m.start <= m.offset
            /\ m.offset + m.len <= m.start + m.total

\* The bytes of a queue or mutex: the slots, which are apart, and the control
\* block behind them, or the lock and its flag.
Extent(h) == IF kind = "queue" THEN ControlStart(h) + CtrlSize ELSE MutexSize

Inside(p) ==
  base[p] # Nowhere =>
    /\ mapping[p].offset <= base[p]
    /\ base[p] + Extent(made) <= mapping[p].offset + mapping[p].len

\* What new_with_memory makes lies within the mapping of the maker, the last
\* byte that is ever touched included.
PlacedInside == Inside("maker")

\* A mutex that a peer has attached lies within the mapping of the peer, which
\* need not be the maker's, and can be written there.
MutexAttachedInside ==
  (kind = "mutex" /\ base["peer"] # Nowhere) =>
    Inside("peer") /\ mapping["peer"].access = "ReadWrite"

\* A queue that a peer has attached lies within the mapping of the peer: the
\* error of from_handle says "the queue is not contained within this shared
\* memory mapping" otherwise.
QueueAttachedInside ==
  (kind = "queue" /\ base["peer"] # Nowhere) => Inside("peer")

\* The items of a queue lie in slots of their own, before an aligned control
\* block.
SlotsApart ==
  (kind = "queue" /\ made # NoHandle) =>
    /\ \A i, j \in 0 .. made.count - 1 :
         i < j => SlotStart(made, i) + made.size <= SlotStart(made, j)
    /\ SlotStart(made, made.count - 1) + made.size <= ControlStart(made)
    /\ (made.raw_offset + ControlStart(made)) % UsizeSize = 0
=============================================================================
