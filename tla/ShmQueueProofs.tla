--------------------------- MODULE ShmQueueProofs ---------------------------
(***************************************************************************)
(* Proofs about ShmQueue, for every number of callers, items and messages. *)
(*                                                                         *)
(* TypeOK holds for every run of the queue.  The other theorems assume     *)
(* NoWrap: fewer than isize::MAX indices are handed out, so that no counter*)
(* wraps around and the signed comparisons of try_push and try_pop agree   *)
(* with the order of the indices.                                          *)
(***************************************************************************)
EXTENDS ShmQueue, Sequences, TLAPS

NoWrap == MaxIndex < Word \div 2
-----------------------------------------------------------------------------
(***************************************************************************)
(* usize arithmetic                                                        *)
(***************************************************************************)

\* Word is twice half of it, and both are positive: the assertion on item_count
\* in required_size leaves room for at least one item.
LEMMA WordFacts ==
  /\ Word \in Nat /\ Word \div 2 \in Nat
  /\ Word = 2 * (Word \div 2)
  /\ Word \div 2 > 2
  /\ ItemCount \in Nat /\ ItemCount > 0
  /\ MaxIndex \in Nat
BY QueueAssumption

\* wrapping_add and wrapping_sub stay within usize.
LEMMA WrappingType ==
  ASSUME NEW a \in Usize, NEW b \in Usize
  PROVE  WrappingAdd(a, b) \in Usize /\ WrappingSub(a, b) \in Usize
BY WordFacts DEF Usize, UsizeMax, WrappingAdd, WrappingSub

\* The index before i is l exactly when the index after l is i.
LEMMA Adjacent ==
  ASSUME NEW l \in Usize, NEW i \in Usize, i # UsizeMax
  PROVE  /\ l = WrappingSub(i, 1) <=> WrappingAdd(l, 1) = i
         /\ WrappingAdd(i, 1) = i + 1
BY WordFacts DEF Usize, UsizeMax, WrappingAdd, WrappingSub

\* While indices stay below isize::MAX, the fullness check of try_push compares
\* the index with the end of the window of item_count items.
LEMMA SendClearMeans ==
  ASSUME NoWrap, NEW l \in Usize, NEW i \in Usize,
         i <= MaxIndex, WrappingAdd(l, 1) <= MaxIndex
  PROVE  SendClear(i, l) <=> i < WrappingAdd(l, 1) + ItemCount
<1> DEFINE r == WrappingAdd(l, 1)
<1>1. r \in Usize
  BY WordFacts DEF WrappingAdd, Usize, UsizeMax
<1>2. AsIsize(WrappingSub(i, r)) = i - r
  BY <1>1, WordFacts DEF NoWrap, AsIsize, WrappingSub, Usize, UsizeMax
<1> QED
  BY <1>1, <1>2, WordFacts DEF SendClear, Usize, UsizeMax

\* Likewise the emptiness check of try_pop compares the index with the number of
\* messages published.
LEMMA RecvClearMeans ==
  ASSUME NoWrap, NEW l \in Usize, NEW i \in Usize,
         i <= MaxIndex, WrappingAdd(l, 1) <= MaxIndex
  PROVE  RecvClear(i, l) <=> i < WrappingAdd(l, 1)
<1>1. CASE l = UsizeMax
  BY <1>1, WordFacts
  DEF NoWrap, RecvClear, AsIsize, WrappingSub, WrappingAdd, Usize, UsizeMax
<1>2. CASE l # UsizeMax
  BY <1>2, WordFacts
  DEF NoWrap, RecvClear, AsIsize, WrappingSub, WrappingAdd, Usize, UsizeMax
<1> QED
  BY <1>1, <1>2

\* Division with remainder, in the form the next proof needs.
LEMMA DivMod ==
  ASSUME NEW n \in Nat \ {0}, NEW i \in Nat
  PROVE  i \div n \in Int /\ i % n \in 0 .. n - 1 /\ i = n * (i \div n) + (i % n)
OBVIOUS

\* Two indices less than item_count apart fall on different items.
LEMMA SlotsDiffer ==
  ASSUME NEW i \in Nat, NEW j \in Nat, i < j, j < i + ItemCount
  PROVE  Slot(i) # Slot(j)
<1> DEFINE n == ItemCount
           a == i \div n
           b == j \div n
<1>1. n \in Nat \ {0}
  BY WordFacts
<1>2. /\ a \in Int /\ b \in Int
      /\ i = n * a + (i % n)
      /\ j = n * b + (j % n)
  BY <1>1, DivMod
<1>3. SUFFICES ASSUME i % n = j % n PROVE FALSE
  BY DEF Slot
<1>4. j - i = n * (b - a)
  BY <1>1, <1>2, <1>3
<1>5. CASE b - a <= 0
  <2>1. n * (b - a) <= 0
    BY <1>1, <1>2, <1>5
  <2> QED
    BY <2>1, <1>4
<1>6. CASE b - a >= 1
  <2>1. n * (b - a) >= n
    BY <1>1, <1>2, <1>6
  <2> QED
    BY <2>1, <1>1, <1>4
<1> QED
  BY <1>2, <1>5, <1>6
-----------------------------------------------------------------------------
(***************************************************************************)
(* The inductive invariant                                                 *)
(***************************************************************************)

\* The four counters are in order, and at most item_count messages are unread.
Window ==
  /\ Received <= Published
  /\ Published <= next_send_index
  /\ next_send_index <= MaxIndex
  /\ Received <= next_recv_index
  /\ next_recv_index <= MaxIndex + 1
  /\ Published <= Received + ItemCount

\* A call in progress owns an index between its side's two counters, alone.
ProducerClaims ==
  \A p \in Producers : pc[p] # "idle" =>
    /\ Published <= idx[p] /\ idx[p] < next_send_index
    /\ \A q \in Producers \ {p} : pc[q] # "idle" => idx[q] # idx[p]
ConsumerClaims ==
  \A c \in Consumers : pc[c] # "idle" =>
    /\ Received <= idx[c] /\ idx[c] < next_recv_index
    /\ \A d \in Consumers \ {c} : pc[d] # "idle" => idx[d] # idx[c]

\* The two halves of ClaimsHeld: every index between them is owned.
SendClaimsHeld ==
  \A i \in Nat : (Published <= i /\ i < next_send_index) =>
    \E p \in Producers : pc[p] # "idle" /\ idx[p] = i
RecvClaimsHeld ==
  \A i \in Nat : (Received <= i /\ i < next_recv_index) =>
    \E c \in Consumers : pc[c] # "idle" /\ idx[c] = i

\* A caller that passed the check is within the window of items, or of messages.
Cleared ==
  /\ \A p \in Producers : Acquired(p) => idx[p] < Received + ItemCount
  /\ \A c \in Consumers : Acquired(c) => idx[c] < Published

\* The queue is poisoned before the item of a panicked producer is published.
PoisonedFirst ==
  \A i \in torn :
    \/ i < Published /\ poison
    \/ \E p \in Producers :
         /\ idx[p] = i
         /\ pc[p] = "poison" \/ (pc[p] = "publish" /\ poison)

\* Only the owner of a PopGuard has a verdict.
VerdictWithGuard ==
  \A c \in Consumers :
    verdict[c] # "none" => pc[c] \in {"guard", "poison", "publish"}

IndInv ==
  /\ TypeOK /\ Window
  /\ ProducerClaims /\ ConsumerClaims
  /\ SendClaimsHeld /\ RecvClaimsHeld
  /\ Cleared
  /\ PoisonedFirst /\ VerdictWithGuard /\ PoisonReported
-----------------------------------------------------------------------------
(***************************************************************************)
(* Type correctness                                                        *)
(***************************************************************************)

\* The successor of a usize, as fetch_add computes it, is a usize.
LEMMA SuccessorType ==
  ASSUME NEW a \in Usize PROVE WrappingAdd(a, 1) \in Usize
BY WordFacts DEF Usize, UsizeMax, WrappingAdd

\* An index falls on an item of the item memory.
LEMMA SlotType ==
  ASSUME NEW i \in Usize PROVE Slot(i) \in 0 .. ItemCount - 1
BY DivMod, WordFacts DEF Slot, Usize

\* Init satisfies the type invariant.
LEMMA InitTypeOK == Init => TypeOK
<1> SUFFICES ASSUME Init PROVE TypeOK
  OBVIOUS
<1>1. 0 \in Usize /\ UsizeMax \in Usize
  BY WordFacts DEF Usize, UsizeMax
<1> QED
  BY <1>1 DEF Init, TypeOK, PcStates

\* Every step, of any caller, preserves the type invariant.
LEMMA NextTypeOK == TypeOK /\ [Next]_vars => TypeOK'
<1> SUFFICES ASSUME TypeOK, [Next]_vars PROVE TypeOK'
  OBVIOUS
<1> USE DEF TypeOK, At, Goto, control, PcStates, Procs
<1>1. ASSUME NEW p \in Producers, PushClaim(p) PROVE TypeOK'
  BY <1>1, SuccessorType DEF PushClaim
<1>2. ASSUME NEW p \in Producers, NEW v \in Values, PushWrite(p, v) PROVE TypeOK'
  BY <1>2, SlotType DEF PushWrite
<1>3. ASSUME NEW p \in Producers, PushCheck(p) PROVE TypeOK'
  BY <1>3 DEF PushCheck
<1>4. ASSUME NEW p \in Producers, PushRetract(p) PROVE TypeOK'
  BY <1>4, WordFacts DEF PushRetract, Usize, UsizeMax
<1>5. ASSUME NEW p \in Producers, PushRetractFails(p) PROVE TypeOK'
  BY <1>5 DEF PushRetractFails
<1>6. ASSUME NEW p \in Producers, NEW b \in BOOLEAN, PushDrop(p, b) PROVE TypeOK'
  BY <1>6 DEF PushDrop
<1>7. ASSUME NEW p \in Producers, PushPoison(p) PROVE TypeOK'
  BY <1>7 DEF PushPoison
<1>8. ASSUME NEW p \in Producers, PushPublish(p) PROVE TypeOK'
  BY <1>8, WordFacts DEF PushPublish, Usize, UsizeMax
<1>9. ASSUME NEW c \in Consumers, PopClaim(c) PROVE TypeOK'
  BY <1>9, SuccessorType DEF PopClaim
<1>10. ASSUME NEW c \in Consumers, PopRead(c) PROVE TypeOK'
  <2>1. slots[Slot(idx[c])] \in Values \cup {Blank}
    BY SlotType
  <2> QED
    BY <1>10, <2>1 DEF PopRead
<1>11. ASSUME NEW c \in Consumers, PopCheck(c) PROVE TypeOK'
  BY <1>11 DEF PopCheck
<1>12. ASSUME NEW c \in Consumers, PopRetract(c) PROVE TypeOK'
  BY <1>12, WordFacts DEF PopRetract, Usize, UsizeMax
<1>13. ASSUME NEW c \in Consumers, PopRetractFails(c) PROVE TypeOK'
  BY <1>13 DEF PopRetractFails
<1>14. ASSUME NEW c \in Consumers, PopVerdict(c) PROVE TypeOK'
  BY <1>14 DEF PopVerdict
<1>15. ASSUME NEW c \in Consumers, NEW b \in BOOLEAN, PopDrop(c, b) PROVE TypeOK'
  BY <1>15 DEF PopDrop
<1>16. ASSUME NEW c \in Consumers, PopPoison(c) PROVE TypeOK'
  BY <1>16 DEF PopPoison
<1>17. ASSUME NEW c \in Consumers, PopPublish(c) PROVE TypeOK'
  <2>1. 0 \in Usize /\ idx[c] \in Usize
    BY WordFacts DEF Usize, UsizeMax
  <2> QED
    BY <1>17, <2>1 DEF PopPublish
<1>18. ASSUME NEW x \in Procs, Kill(x) PROVE TypeOK'
  BY <1>18 DEF Kill
<1>19. ASSUME UNCHANGED vars PROVE TypeOK'
  BY <1>19 DEF vars
<1> HIDE DEF TypeOK, At, Goto, control, PcStates, Procs
<1>20. ASSUME NEW p \in Producers, PushStep(p) PROVE TypeOK'
  BY <1>3, <1>4, <1>5, <1>6, <1>7, <1>8, <1>20 DEF PushStep
<1>21. ASSUME NEW c \in Consumers, PopStep(c) PROVE TypeOK'
  BY <1>11, <1>12, <1>13, <1>14, <1>15, <1>16, <1>17, <1>21 DEF PopStep
<1> QED
  BY <1>1, <1>2, <1>9, <1>10, <1>18, <1>19, <1>20, <1>21 DEF Next

\* In every state of the queue the shared counters are usize values, the item
\* memory holds messages and every caller is at a point of the code.
THEOREM TypeCorrect == Spec => []TypeOK
BY InitTypeOK, NextTypeOK, PTL DEF Spec
-----------------------------------------------------------------------------
(***************************************************************************)
(* The invariant is inductive                                              *)
(***************************************************************************)

\* The counters and the indices of calls in progress are numbers in range.
LEMMA IndInvTypes ==
  ASSUME IndInv
  PROVE  /\ Published \in Nat /\ Received \in Nat
         /\ next_send_index \in Nat /\ next_recv_index \in Nat
         /\ \A x \in Procs : idx[x] \in Nat
         /\ Published <= MaxIndex /\ Received <= MaxIndex
         /\ \A p \in Producers : pc[p] # "idle" => idx[p] <= MaxIndex
         /\ \A c \in Consumers : pc[c] # "idle" => idx[c] <= MaxIndex
<1>1. /\ Published \in Nat /\ Received \in Nat
      /\ next_send_index \in Nat /\ next_recv_index \in Nat
      /\ \A x \in Procs : idx[x] \in Nat
  BY WordFacts, SuccessorType
  DEF IndInv, TypeOK, Published, Received, Usize, UsizeMax
<1> QED
  BY <1>1, WordFacts DEF IndInv, Window, ProducerClaims, ConsumerClaims, Procs

\* A fresh queue satisfies the invariant.
LEMMA IndInvInit == ASSUME Init PROVE IndInv
<1>1. TypeOK
  BY InitTypeOK
<1>2. Published = 0 /\ Received = 0
  BY WordFacts DEF Init, Published, Received, WrappingAdd, UsizeMax
<1> QED
  BY <1>1, <1>2, WordFacts
  DEF Init, IndInv, Window, ProducerClaims, ConsumerClaims, SendClaimsHeld, RecvClaimsHeld, Cleared,
      Acquired, PoisonedFirst, VerdictWithGuard, PoisonReported, Procs

\* Every step, of any caller, preserves the invariant.
LEMMA IndInvNext ==
  ASSUME NoWrap, IndInv, [Next]_vars PROVE IndInv'
<1>T. TypeOK'
  BY NextTypeOK DEF IndInv
<1>D. \A p \in Producers, c \in Consumers : p # c
  BY QueueAssumption
<1>0. /\ Published \in Nat /\ Received \in Nat
      /\ next_send_index \in Nat /\ next_recv_index \in Nat
      /\ \A x \in Procs : idx[x] \in Nat
      /\ Published <= MaxIndex /\ Received <= MaxIndex
      /\ \A p \in Producers : pc[p] # "idle" => idx[p] <= MaxIndex
      /\ \A c \in Consumers : pc[c] # "idle" => idx[c] <= MaxIndex
  BY IndInvTypes
<1>1. ASSUME NEW p \in Producers, PushClaim(p) PROVE IndInv'
  <2>1. /\ next_send_index < MaxIndex
        /\ next_send_index' = next_send_index + 1
        /\ next_recv_index' = next_recv_index
        /\ Published' = Published /\ Received' = Received
        /\ pc[p] = "idle" /\ pc' = [pc EXCEPT ![p] = "check"]
        /\ idx' = [idx EXCEPT ![p] = next_send_index]
        /\ poison' = poison /\ torn' = torn /\ verdict' = verdict
    BY <1>1, <1>0, WordFacts
    DEF NoWrap, PushClaim, At, Goto, WrappingAdd, UsizeMax, Published, Received
  <2>2. Window'
    BY <1>0, <1>D, <2>1, WordFacts DEF IndInv, Window, Acquired, TypeOK,
       Procs, ProducerClaims, ConsumerClaims, Cleared
  <2>3. ProducerClaims'
    BY <1>0, <1>D, <2>1 DEF IndInv, ProducerClaims, TypeOK, Procs, Window
  <2>4. ConsumerClaims'
    BY <1>0, <1>D, <2>1 DEF IndInv, ConsumerClaims, TypeOK, Procs, Window
  <2>5. SendClaimsHeld'
    <3> SUFFICES ASSUME NEW i \in Nat, Published <= i, i < next_send_index + 1
                 PROVE  \E q \in Producers : pc'[q] # "idle" /\ idx'[q] = i
      BY <2>1 DEF SendClaimsHeld
    <3>1. CASE i = next_send_index
      BY <2>1, <3>1 DEF IndInv, TypeOK, Procs
    <3>2. CASE i < next_send_index
      <4>1. PICK q \in Producers : pc[q] # "idle" /\ idx[q] = i
        BY <3>2 DEF IndInv, SendClaimsHeld
      <4> QED
        BY <2>1, <4>1 DEF IndInv, TypeOK, Procs
    <3> QED
      BY <1>0, <3>1, <3>2
  <2>6. RecvClaimsHeld'
    BY <1>0, <1>D, <2>1 DEF IndInv, RecvClaimsHeld, TypeOK, Procs, Window,
       ConsumerClaims
  <2>7. Cleared'
    BY <1>0, <1>D, <2>1 DEF IndInv, Cleared, Acquired, TypeOK, Procs,
       ProducerClaims, ConsumerClaims, Window
  <2>8. PoisonedFirst'
    BY <1>0, <1>D, <2>1 DEF IndInv, PoisonedFirst, TypeOK, Procs,
       ProducerClaims, Window
  <2>9. VerdictWithGuard'
    BY <1>0, <1>D, <2>1 DEF IndInv, VerdictWithGuard, TypeOK, Procs
  <2>10. PoisonReported'
    BY <1>0, <1>D, <2>1 DEF IndInv, PoisonReported, Acquired, TypeOK, Procs,
       VerdictWithGuard, PoisonedFirst, Cleared, ProducerClaims
  <2> QED
    BY <1>T, <2>2, <2>3, <2>4, <2>5, <2>6, <2>7, <2>8, <2>9, <2>10 DEF IndInv
<1>2. ASSUME NEW p \in Producers, NEW v \in Values, PushWrite(p, v) PROVE IndInv'
  <2>1. Published' = Published /\ Received' = Received
    BY <1>2 DEF PushWrite, Published, Received, control
  <2> QED
    BY <1>T, <1>D, <1>2, <2>1 DEF IndInv, Window, ProducerClaims,
       ConsumerClaims, SendClaimsHeld, RecvClaimsHeld, Cleared, PoisonedFirst,
       VerdictWithGuard, PoisonReported, Acquired, PushWrite, At, Goto,
       control, TypeOK
<1>3. ASSUME NEW p \in Producers, PushCheck(p) PROVE IndInv'
  <2>0. SendClear(idx[p], last_recvd_index) <=> idx[p] < Received + ItemCount
    BY <1>3, <1>0, SendClearMeans, WordFacts
    DEF PushCheck, At, Published, Received, IndInv, TypeOK, Procs
  <2>1. /\ Published' = Published /\ Received' = Received
        /\ pc[p] = "check"
        /\ \/ pc' = [pc EXCEPT ![p] = "guard"] /\ idx[p] < Received + ItemCount
           \/ pc' = [pc EXCEPT ![p] = "retract"]
        /\ UNCHANGED <<idx, next_send_index, next_recv_index>>
        /\ poison' = poison /\ torn' = torn /\ verdict' = verdict
    BY <1>3, <2>0 DEF PushCheck, At, Goto, control, Published, Received
  <2>2. Window'
    BY <1>0, <1>D, <2>1, WordFacts DEF IndInv, Window, Acquired, TypeOK,
       Procs, ProducerClaims, ConsumerClaims, Cleared
  <2>3. ProducerClaims'
    BY <1>0, <1>D, <2>1 DEF IndInv, ProducerClaims, TypeOK, Procs, Window
  <2>4. ConsumerClaims'
    BY <1>0, <1>D, <2>1 DEF IndInv, ConsumerClaims, TypeOK, Procs, Window
  <2>5. SendClaimsHeld'
    BY <1>0, <1>D, <2>1 DEF IndInv, SendClaimsHeld, TypeOK, Procs, Window,
       ProducerClaims
  <2>6. RecvClaimsHeld'
    BY <1>0, <1>D, <2>1 DEF IndInv, RecvClaimsHeld, TypeOK, Procs, Window,
       ConsumerClaims
  <2>7. Cleared'
    BY <1>0, <1>D, <2>1 DEF IndInv, Cleared, Acquired, TypeOK, Procs,
       ProducerClaims, ConsumerClaims, Window
  <2>8. PoisonedFirst'
    BY <1>0, <1>D, <2>1 DEF IndInv, PoisonedFirst, TypeOK, Procs,
       ProducerClaims, Window
  <2>9. VerdictWithGuard'
    BY <1>0, <1>D, <2>1 DEF IndInv, VerdictWithGuard, TypeOK, Procs
  <2>10. PoisonReported'
    BY <1>0, <1>D, <2>1 DEF IndInv, PoisonReported, Acquired, TypeOK, Procs,
       VerdictWithGuard, PoisonedFirst, Cleared, ProducerClaims
  <2> QED
    BY <1>T, <2>2, <2>3, <2>4, <2>5, <2>6, <2>7, <2>8, <2>9, <2>10 DEF IndInv
<1>4. ASSUME NEW p \in Producers, PushRetract(p) PROVE IndInv'
  <2>1. /\ next_send_index = idx[p] + 1
        /\ next_send_index' = idx[p]
        /\ next_recv_index' = next_recv_index
        /\ Published' = Published /\ Received' = Received
        /\ pc[p] = "retract" /\ pc' = [pc EXCEPT ![p] = "idle"]
        /\ idx' = [idx EXCEPT ![p] = 0]
        /\ poison' = poison /\ torn' = torn /\ verdict' = verdict
    BY <1>4, <1>0, WordFacts
    DEF NoWrap, PushRetract, At, Goto, WrappingAdd, Procs, Published, Received
  <2>2. Window'
    BY <1>0, <1>D, <2>1, WordFacts DEF IndInv, Window, Acquired, TypeOK,
       Procs, ProducerClaims, ConsumerClaims, Cleared
  <2>3. ProducerClaims'
    BY <1>0, <1>D, <2>1 DEF IndInv, ProducerClaims, TypeOK, Procs, Window
  <2>4. ConsumerClaims'
    BY <1>0, <1>D, <2>1 DEF IndInv, ConsumerClaims, TypeOK, Procs, Window
  <2>5. SendClaimsHeld'
    BY <1>0, <1>D, <2>1 DEF IndInv, SendClaimsHeld, TypeOK, Procs, Window,
       ProducerClaims
  <2>6. RecvClaimsHeld'
    BY <1>0, <1>D, <2>1 DEF IndInv, RecvClaimsHeld, TypeOK, Procs, Window,
       ConsumerClaims
  <2>7. Cleared'
    BY <1>0, <1>D, <2>1 DEF IndInv, Cleared, Acquired, TypeOK, Procs,
       ProducerClaims, ConsumerClaims, Window
  <2>8. PoisonedFirst'
    BY <1>0, <1>D, <2>1 DEF IndInv, PoisonedFirst, TypeOK, Procs,
       ProducerClaims, Window
  <2>9. VerdictWithGuard'
    BY <1>0, <1>D, <2>1 DEF IndInv, VerdictWithGuard, TypeOK, Procs
  <2>10. PoisonReported'
    BY <1>0, <1>D, <2>1 DEF IndInv, PoisonReported, Acquired, TypeOK, Procs,
       VerdictWithGuard, PoisonedFirst, Cleared, ProducerClaims
  <2> QED
    BY <1>T, <2>2, <2>3, <2>4, <2>5, <2>6, <2>7, <2>8, <2>9, <2>10 DEF IndInv
<1>5. ASSUME NEW p \in Producers, PushRetractFails(p) PROVE IndInv'
  <2>1. Published' = Published /\ Received' = Received
    BY <1>5 DEF PushRetractFails, Published, Received, control
  <2> QED
    BY <1>T, <1>D, <1>5, <2>1 DEF IndInv, Window, ProducerClaims,
       ConsumerClaims, SendClaimsHeld, RecvClaimsHeld, Cleared, PoisonedFirst,
       VerdictWithGuard, PoisonReported, Acquired, PushRetractFails, At, Goto,
       control, TypeOK
<1>6. ASSUME NEW p \in Producers, NEW b \in BOOLEAN, PushDrop(p, b) PROVE IndInv'
  <2>1. Published' = Published /\ Received' = Received
    BY <1>6 DEF PushDrop, Published, Received, control
  <2>2. Window'
    BY <1>6, <1>0, <1>D, <2>1, WordFacts DEF IndInv, Window, PushDrop, At,
       Goto, control, Acquired, TypeOK, Procs, ProducerClaims, ConsumerClaims,
       Cleared
  <2>3. ProducerClaims'
    BY <1>6, <1>0, <1>D, <2>1 DEF IndInv, ProducerClaims, PushDrop, At, Goto,
       control, TypeOK, Procs, Window
  <2>4. ConsumerClaims'
    BY <1>6, <1>0, <1>D, <2>1 DEF IndInv, ConsumerClaims, PushDrop, At, Goto,
       control, TypeOK, Procs, Window
  <2>5. SendClaimsHeld'
    BY <1>6, <1>0, <1>D, <2>1 DEF IndInv, SendClaimsHeld, PushDrop, At, Goto,
       control, TypeOK, Procs, Window, ProducerClaims
  <2>6. RecvClaimsHeld'
    BY <1>6, <1>0, <1>D, <2>1 DEF IndInv, RecvClaimsHeld, PushDrop, At, Goto,
       control, TypeOK, Procs, Window, ConsumerClaims
  <2>7. Cleared'
    BY <1>6, <1>0, <1>D, <2>1 DEF IndInv, Cleared, PushDrop, At, Goto,
       control, Acquired, TypeOK, Procs, ProducerClaims, ConsumerClaims,
       Window
  <2>8. PoisonedFirst'
    BY <1>6, <1>0, <1>D, <2>1 DEF IndInv, PoisonedFirst, PushDrop, At, Goto,
       control, TypeOK, Procs, ProducerClaims, Window
  <2>9. VerdictWithGuard'
    BY <1>6, <1>0, <1>D, <2>1 DEF IndInv, VerdictWithGuard, PushDrop, At,
       Goto, control, TypeOK, Procs
  <2>10. PoisonReported'
    BY <1>6, <1>0, <1>D, <2>1 DEF IndInv, PoisonReported, PushDrop, At, Goto,
       control, Acquired, TypeOK, Procs, VerdictWithGuard, PoisonedFirst,
       Cleared, ProducerClaims
  <2> QED
    BY <1>T, <2>2, <2>3, <2>4, <2>5, <2>6, <2>7, <2>8, <2>9, <2>10 DEF IndInv
<1>7. ASSUME NEW p \in Producers, PushPoison(p) PROVE IndInv'
  <2>1. Published' = Published /\ Received' = Received
    BY <1>7 DEF PushPoison, Published, Received, control
  <2>2. Window'
    BY <1>7, <1>0, <1>D, <2>1, WordFacts DEF IndInv, Window, PushPoison, At,
       Goto, control, Acquired, TypeOK, Procs, ProducerClaims, ConsumerClaims,
       Cleared
  <2>3. ProducerClaims'
    BY <1>7, <1>0, <1>D, <2>1 DEF IndInv, ProducerClaims, PushPoison, At,
       Goto, control, TypeOK, Procs, Window
  <2>4. ConsumerClaims'
    BY <1>7, <1>0, <1>D, <2>1 DEF IndInv, ConsumerClaims, PushPoison, At,
       Goto, control, TypeOK, Procs, Window
  <2>5. SendClaimsHeld'
    BY <1>7, <1>0, <1>D, <2>1 DEF IndInv, SendClaimsHeld, PushPoison, At,
       Goto, control, TypeOK, Procs, Window, ProducerClaims
  <2>6. RecvClaimsHeld'
    BY <1>7, <1>0, <1>D, <2>1 DEF IndInv, RecvClaimsHeld, PushPoison, At,
       Goto, control, TypeOK, Procs, Window, ConsumerClaims
  <2>7. Cleared'
    BY <1>7, <1>0, <1>D, <2>1 DEF IndInv, Cleared, PushPoison, At, Goto,
       control, Acquired, TypeOK, Procs, ProducerClaims, ConsumerClaims,
       Window
  <2>8. PoisonedFirst'
    BY <1>7, <1>0, <1>D, <2>1 DEF IndInv, PoisonedFirst, PushPoison, At, Goto,
       control, TypeOK, Procs, ProducerClaims, Window
  <2>9. VerdictWithGuard'
    BY <1>7, <1>0, <1>D, <2>1 DEF IndInv, VerdictWithGuard, PushPoison, At,
       Goto, control, TypeOK, Procs
  <2>10. PoisonReported'
    BY <1>7, <1>0, <1>D, <2>1 DEF IndInv, PoisonReported, PushPoison, At,
       Goto, control, Acquired, TypeOK, Procs, VerdictWithGuard,
       PoisonedFirst, Cleared, ProducerClaims
  <2> QED
    BY <1>T, <2>2, <2>3, <2>4, <2>5, <2>6, <2>7, <2>8, <2>9, <2>10 DEF IndInv
<1>8. ASSUME NEW p \in Producers, PushPublish(p) PROVE IndInv'
  <2>0. idx[p] \in Usize /\ idx[p] # UsizeMax /\ last_sent_index \in Usize
    BY <1>8, <1>0, WordFacts
    DEF NoWrap, PushPublish, At, Usize, UsizeMax, Procs, IndInv, TypeOK
  <2>1. /\ Published = idx[p] /\ Published' = Published + 1
        /\ Received' = Received
        /\ next_send_index' = next_send_index
        /\ next_recv_index' = next_recv_index
        /\ pc[p] = "publish" /\ pc' = [pc EXCEPT ![p] = "idle"]
        /\ idx' = [idx EXCEPT ![p] = 0]
        /\ poison' = poison /\ torn' = torn /\ verdict' = verdict
    BY <1>8, <2>0, Adjacent DEF PushPublish, At, Goto, Published, Received
  <2>2. Window'
    BY <1>0, <1>D, <2>1, WordFacts DEF IndInv, Window, Acquired, TypeOK,
       Procs, ProducerClaims, ConsumerClaims, Cleared
  <2>3. ProducerClaims'
    BY <1>0, <1>D, <2>1 DEF IndInv, ProducerClaims, TypeOK, Procs, Window
  <2>4. ConsumerClaims'
    BY <1>0, <1>D, <2>1 DEF IndInv, ConsumerClaims, TypeOK, Procs, Window
  <2>5. SendClaimsHeld'
    BY <1>0, <1>D, <2>1 DEF IndInv, SendClaimsHeld, TypeOK, Procs, Window,
       ProducerClaims
  <2>6. RecvClaimsHeld'
    BY <1>0, <1>D, <2>1 DEF IndInv, RecvClaimsHeld, TypeOK, Procs, Window,
       ConsumerClaims
  <2>7. Cleared'
    BY <1>0, <1>D, <2>1 DEF IndInv, Cleared, Acquired, TypeOK, Procs,
       ProducerClaims, ConsumerClaims, Window
  <2>8. PoisonedFirst'
    BY <1>0, <1>D, <2>1 DEF IndInv, PoisonedFirst, TypeOK, Procs,
       ProducerClaims, Window
  <2>9. VerdictWithGuard'
    BY <1>0, <1>D, <2>1 DEF IndInv, VerdictWithGuard, TypeOK, Procs
  <2>10. PoisonReported'
    BY <1>0, <1>D, <2>1 DEF IndInv, PoisonReported, Acquired, TypeOK, Procs,
       VerdictWithGuard, PoisonedFirst, Cleared, ProducerClaims
  <2> QED
    BY <1>T, <2>2, <2>3, <2>4, <2>5, <2>6, <2>7, <2>8, <2>9, <2>10 DEF IndInv
<1>9. ASSUME NEW c \in Consumers, PopClaim(c) PROVE IndInv'
  <2>1. /\ next_recv_index <= MaxIndex
        /\ next_recv_index' = next_recv_index + 1
        /\ next_send_index' = next_send_index
        /\ Published' = Published /\ Received' = Received
        /\ pc[c] = "idle" /\ pc' = [pc EXCEPT ![c] = "check"]
        /\ idx' = [idx EXCEPT ![c] = next_recv_index]
        /\ poison' = poison /\ torn' = torn /\ verdict' = verdict
    BY <1>9, <1>0, WordFacts
    DEF NoWrap, PopClaim, At, Goto, WrappingAdd, UsizeMax, Published, Received
  <2>2. Window'
    BY <1>0, <1>D, <2>1, WordFacts DEF IndInv, Window, Acquired, TypeOK,
       Procs, ProducerClaims, ConsumerClaims, Cleared
  <2>3. ProducerClaims'
    BY <1>0, <1>D, <2>1 DEF IndInv, ProducerClaims, TypeOK, Procs, Window
  <2>4. ConsumerClaims'
    BY <1>0, <1>D, <2>1 DEF IndInv, ConsumerClaims, TypeOK, Procs, Window
  <2>5. SendClaimsHeld'
    BY <1>0, <1>D, <2>1 DEF IndInv, SendClaimsHeld, TypeOK, Procs, Window,
       ProducerClaims
  <2>6. RecvClaimsHeld'
    BY <1>0, <1>D, <2>1 DEF IndInv, RecvClaimsHeld, TypeOK, Procs, Window,
       ConsumerClaims
  <2>7. Cleared'
    BY <1>0, <1>D, <2>1 DEF IndInv, Cleared, Acquired, TypeOK, Procs,
       ProducerClaims, ConsumerClaims, Window
  <2>8. PoisonedFirst'
    BY <1>0, <1>D, <2>1 DEF IndInv, PoisonedFirst, TypeOK, Procs,
       ProducerClaims, Window
  <2>9. VerdictWithGuard'
    BY <1>0, <1>D, <2>1 DEF IndInv, VerdictWithGuard, TypeOK, Procs
  <2>10. PoisonReported'
    BY <1>0, <1>D, <2>1 DEF IndInv, PoisonReported, Acquired, TypeOK, Procs,
       VerdictWithGuard, PoisonedFirst, Cleared, ProducerClaims
  <2> QED
    BY <1>T, <2>2, <2>3, <2>4, <2>5, <2>6, <2>7, <2>8, <2>9, <2>10 DEF IndInv
<1>10. ASSUME NEW c \in Consumers, PopRead(c) PROVE IndInv'
  <2>1. Published' = Published /\ Received' = Received
    BY <1>10 DEF PopRead, Published, Received, control
  <2> QED
    BY <1>T, <1>D, <1>10, <2>1 DEF IndInv, Window, ProducerClaims,
       ConsumerClaims, SendClaimsHeld, RecvClaimsHeld, Cleared, PoisonedFirst,
       VerdictWithGuard, PoisonReported, Acquired, PopRead, At, Goto, control,
       TypeOK
<1>11. ASSUME NEW c \in Consumers, PopCheck(c) PROVE IndInv'
  <2>0. RecvClear(idx[c], last_sent_index) <=> idx[c] < Published
    BY <1>11, <1>0, RecvClearMeans, WordFacts
    DEF PopCheck, At, Published, Received, IndInv, TypeOK, Procs
  <2>1. /\ Published' = Published /\ Received' = Received
        /\ pc[c] = "check"
        /\ \/ pc' = [pc EXCEPT ![c] = "verdict"] /\ idx[c] < Published
           \/ pc' = [pc EXCEPT ![c] = "retract"]
        /\ UNCHANGED <<idx, next_send_index, next_recv_index>>
        /\ poison' = poison /\ torn' = torn /\ verdict' = verdict
    BY <1>11, <2>0 DEF PopCheck, At, Goto, control, Published, Received
  <2>2. Window'
    BY <1>0, <1>D, <2>1, WordFacts DEF IndInv, Window, Acquired, TypeOK,
       Procs, ProducerClaims, ConsumerClaims, Cleared
  <2>3. ProducerClaims'
    BY <1>0, <1>D, <2>1 DEF IndInv, ProducerClaims, TypeOK, Procs, Window
  <2>4. ConsumerClaims'
    BY <1>0, <1>D, <2>1 DEF IndInv, ConsumerClaims, TypeOK, Procs, Window
  <2>5. SendClaimsHeld'
    BY <1>0, <1>D, <2>1 DEF IndInv, SendClaimsHeld, TypeOK, Procs, Window,
       ProducerClaims
  <2>6. RecvClaimsHeld'
    BY <1>0, <1>D, <2>1 DEF IndInv, RecvClaimsHeld, TypeOK, Procs, Window,
       ConsumerClaims
  <2>7. Cleared'
    BY <1>0, <1>D, <2>1 DEF IndInv, Cleared, Acquired, TypeOK, Procs,
       ProducerClaims, ConsumerClaims, Window
  <2>8. PoisonedFirst'
    BY <1>0, <1>D, <2>1 DEF IndInv, PoisonedFirst, TypeOK, Procs,
       ProducerClaims, Window
  <2>9. VerdictWithGuard'
    BY <1>0, <1>D, <2>1 DEF IndInv, VerdictWithGuard, TypeOK, Procs
  <2>10. PoisonReported'
    BY <1>0, <1>D, <2>1 DEF IndInv, PoisonReported, Acquired, TypeOK, Procs,
       VerdictWithGuard, PoisonedFirst, Cleared, ProducerClaims
  <2> QED
    BY <1>T, <2>2, <2>3, <2>4, <2>5, <2>6, <2>7, <2>8, <2>9, <2>10 DEF IndInv
<1>12. ASSUME NEW c \in Consumers, PopRetract(c) PROVE IndInv'
  <2>1. /\ next_recv_index = idx[c] + 1
        /\ next_recv_index' = idx[c]
        /\ next_send_index' = next_send_index
        /\ Published' = Published /\ Received' = Received
        /\ pc[c] = "retract" /\ pc' = [pc EXCEPT ![c] = "idle"]
        /\ idx' = [idx EXCEPT ![c] = 0]
        /\ poison' = poison /\ torn' = torn /\ verdict' = verdict
    BY <1>12, <1>0, WordFacts
    DEF NoWrap, PopRetract, At, Goto, WrappingAdd, Procs, Published, Received
  <2>2. Window'
    BY <1>0, <1>D, <2>1, WordFacts DEF IndInv, Window, Acquired, TypeOK,
       Procs, ProducerClaims, ConsumerClaims, Cleared
  <2>3. ProducerClaims'
    BY <1>0, <1>D, <2>1 DEF IndInv, ProducerClaims, TypeOK, Procs, Window
  <2>4. ConsumerClaims'
    BY <1>0, <1>D, <2>1 DEF IndInv, ConsumerClaims, TypeOK, Procs, Window
  <2>5. SendClaimsHeld'
    <3>1. \A q \in Producers : pc'[q] = pc[q] /\ idx'[q] = idx[q]
      BY <1>D, <2>1 DEF IndInv, TypeOK, Procs
    <3> QED
      BY <2>1, <3>1 DEF IndInv, SendClaimsHeld
  <2>6. RecvClaimsHeld'
    BY <1>0, <1>D, <2>1 DEF IndInv, RecvClaimsHeld, TypeOK, Procs, Window,
       ConsumerClaims
  <2>7. Cleared'
    BY <1>0, <1>D, <2>1 DEF IndInv, Cleared, Acquired, TypeOK, Procs,
       ProducerClaims, ConsumerClaims, Window
  <2>8. PoisonedFirst'
    BY <1>0, <1>D, <2>1 DEF IndInv, PoisonedFirst, TypeOK, Procs,
       ProducerClaims, Window
  <2>9. VerdictWithGuard'
    BY <1>0, <1>D, <2>1 DEF IndInv, VerdictWithGuard, TypeOK, Procs
  <2>10. PoisonReported'
    BY <1>0, <1>D, <2>1 DEF IndInv, PoisonReported, Acquired, TypeOK, Procs,
       VerdictWithGuard, PoisonedFirst, Cleared, ProducerClaims
  <2> QED
    BY <1>T, <2>2, <2>3, <2>4, <2>5, <2>6, <2>7, <2>8, <2>9, <2>10 DEF IndInv
<1>13. ASSUME NEW c \in Consumers, PopRetractFails(c) PROVE IndInv'
  <2>1. Published' = Published /\ Received' = Received
    BY <1>13 DEF PopRetractFails, Published, Received, control
  <2> QED
    BY <1>T, <1>D, <1>13, <2>1 DEF IndInv, Window, ProducerClaims,
       ConsumerClaims, SendClaimsHeld, RecvClaimsHeld, Cleared, PoisonedFirst,
       VerdictWithGuard, PoisonReported, Acquired, PopRetractFails, At, Goto,
       control, TypeOK
<1>14. ASSUME NEW c \in Consumers, PopVerdict(c) PROVE IndInv'
  <2>1. Published' = Published /\ Received' = Received
    BY <1>14 DEF PopVerdict, Published, Received, control
  <2>2. Window'
    BY <1>14, <1>0, <1>D, <2>1, WordFacts DEF IndInv, Window, PopVerdict, At,
       Goto, control, Acquired, TypeOK, Procs, ProducerClaims, ConsumerClaims,
       Cleared
  <2>3. ProducerClaims'
    BY <1>14, <1>0, <1>D, <2>1 DEF IndInv, ProducerClaims, PopVerdict, At,
       Goto, control, TypeOK, Procs, Window
  <2>4. ConsumerClaims'
    BY <1>14, <1>0, <1>D, <2>1 DEF IndInv, ConsumerClaims, PopVerdict, At,
       Goto, control, TypeOK, Procs, Window
  <2>5. SendClaimsHeld'
    BY <1>14, <1>0, <1>D, <2>1 DEF IndInv, SendClaimsHeld, PopVerdict, At,
       Goto, control, TypeOK, Procs, Window, ProducerClaims
  <2>6. RecvClaimsHeld'
    BY <1>14, <1>0, <1>D, <2>1 DEF IndInv, RecvClaimsHeld, PopVerdict, At,
       Goto, control, TypeOK, Procs, Window, ConsumerClaims
  <2>7. Cleared'
    BY <1>14, <1>0, <1>D, <2>1 DEF IndInv, Cleared, PopVerdict, At, Goto,
       control, Acquired, TypeOK, Procs, ProducerClaims, ConsumerClaims,
       Window
  <2>8. PoisonedFirst'
    BY <1>14, <1>0, <1>D, <2>1 DEF IndInv, PoisonedFirst, PopVerdict, At,
       Goto, control, TypeOK, Procs, ProducerClaims, Window
  <2>9. VerdictWithGuard'
    BY <1>14, <1>0, <1>D, <2>1 DEF IndInv, VerdictWithGuard, PopVerdict, At,
       Goto, control, TypeOK, Procs
  <2>10. PoisonReported'
    BY <1>14, <1>0, <1>D, <2>1 DEF IndInv, PoisonReported, PopVerdict, At,
       Goto, control, Acquired, TypeOK, Procs, VerdictWithGuard,
       PoisonedFirst, Cleared, ProducerClaims
  <2> QED
    BY <1>T, <2>2, <2>3, <2>4, <2>5, <2>6, <2>7, <2>8, <2>9, <2>10 DEF IndInv
<1>15. ASSUME NEW c \in Consumers, NEW b \in BOOLEAN, PopDrop(c, b) PROVE IndInv'
  <2>1. Published' = Published /\ Received' = Received
    BY <1>15 DEF PopDrop, Published, Received, control
  <2>2. Window'
    BY <1>15, <1>0, <1>D, <2>1, WordFacts DEF IndInv, Window, PopDrop, At,
       Goto, control, Acquired, TypeOK, Procs, ProducerClaims, ConsumerClaims,
       Cleared
  <2>3. ProducerClaims'
    BY <1>15, <1>0, <1>D, <2>1 DEF IndInv, ProducerClaims, PopDrop, At, Goto,
       control, TypeOK, Procs, Window
  <2>4. ConsumerClaims'
    BY <1>15, <1>0, <1>D, <2>1 DEF IndInv, ConsumerClaims, PopDrop, At, Goto,
       control, TypeOK, Procs, Window
  <2>5. SendClaimsHeld'
    BY <1>15, <1>0, <1>D, <2>1 DEF IndInv, SendClaimsHeld, PopDrop, At, Goto,
       control, TypeOK, Procs, Window, ProducerClaims
  <2>6. RecvClaimsHeld'
    BY <1>15, <1>0, <1>D, <2>1 DEF IndInv, RecvClaimsHeld, PopDrop, At, Goto,
       control, TypeOK, Procs, Window, ConsumerClaims
  <2>7. Cleared'
    BY <1>15, <1>0, <1>D, <2>1 DEF IndInv, Cleared, PopDrop, At, Goto,
       control, Acquired, TypeOK, Procs, ProducerClaims, ConsumerClaims,
       Window
  <2>8. PoisonedFirst'
    BY <1>15, <1>0, <1>D, <2>1 DEF IndInv, PoisonedFirst, PopDrop, At, Goto,
       control, TypeOK, Procs, ProducerClaims, Window
  <2>9. VerdictWithGuard'
    BY <1>15, <1>0, <1>D, <2>1 DEF IndInv, VerdictWithGuard, PopDrop, At,
       Goto, control, TypeOK, Procs
  <2>10. PoisonReported'
    BY <1>15, <1>0, <1>D, <2>1 DEF IndInv, PoisonReported, PopDrop, At, Goto,
       control, Acquired, TypeOK, Procs, VerdictWithGuard, PoisonedFirst,
       Cleared, ProducerClaims
  <2> QED
    BY <1>T, <2>2, <2>3, <2>4, <2>5, <2>6, <2>7, <2>8, <2>9, <2>10 DEF IndInv
<1>16. ASSUME NEW c \in Consumers, PopPoison(c) PROVE IndInv'
  <2>1. Published' = Published /\ Received' = Received
    BY <1>16 DEF PopPoison, Published, Received, control
  <2>2. Window'
    BY <1>16, <1>0, <1>D, <2>1, WordFacts DEF IndInv, Window, PopPoison, At,
       Goto, control, Acquired, TypeOK, Procs, ProducerClaims, ConsumerClaims,
       Cleared
  <2>3. ProducerClaims'
    BY <1>16, <1>0, <1>D, <2>1 DEF IndInv, ProducerClaims, PopPoison, At,
       Goto, control, TypeOK, Procs, Window
  <2>4. ConsumerClaims'
    BY <1>16, <1>0, <1>D, <2>1 DEF IndInv, ConsumerClaims, PopPoison, At,
       Goto, control, TypeOK, Procs, Window
  <2>5. SendClaimsHeld'
    BY <1>16, <1>0, <1>D, <2>1 DEF IndInv, SendClaimsHeld, PopPoison, At,
       Goto, control, TypeOK, Procs, Window, ProducerClaims
  <2>6. RecvClaimsHeld'
    BY <1>16, <1>0, <1>D, <2>1 DEF IndInv, RecvClaimsHeld, PopPoison, At,
       Goto, control, TypeOK, Procs, Window, ConsumerClaims
  <2>7. Cleared'
    BY <1>16, <1>0, <1>D, <2>1 DEF IndInv, Cleared, PopPoison, At, Goto,
       control, Acquired, TypeOK, Procs, ProducerClaims, ConsumerClaims,
       Window
  <2>8. PoisonedFirst'
    BY <1>16, <1>0, <1>D, <2>1 DEF IndInv, PoisonedFirst, PopPoison, At, Goto,
       control, TypeOK, Procs, ProducerClaims, Window
  <2>9. VerdictWithGuard'
    BY <1>16, <1>0, <1>D, <2>1 DEF IndInv, VerdictWithGuard, PopPoison, At,
       Goto, control, TypeOK, Procs
  <2>10. PoisonReported'
    BY <1>16, <1>0, <1>D, <2>1 DEF IndInv, PoisonReported, PopPoison, At,
       Goto, control, Acquired, TypeOK, Procs, VerdictWithGuard,
       PoisonedFirst, Cleared, ProducerClaims
  <2> QED
    BY <1>T, <2>2, <2>3, <2>4, <2>5, <2>6, <2>7, <2>8, <2>9, <2>10 DEF IndInv
<1>17. ASSUME NEW c \in Consumers, PopPublish(c) PROVE IndInv'
  <2>0. idx[c] \in Usize /\ idx[c] # UsizeMax /\ last_recvd_index \in Usize
    BY <1>17, <1>0, WordFacts
    DEF NoWrap, PopPublish, At, Usize, UsizeMax, Procs, IndInv, TypeOK
  <2>1. /\ Received = idx[c] /\ Received' = Received + 1
        /\ Published' = Published
        /\ next_send_index' = next_send_index
        /\ next_recv_index' = next_recv_index
        /\ pc[c] = "publish" /\ pc' = [pc EXCEPT ![c] = "idle"]
        /\ idx' = [idx EXCEPT ![c] = 0]
        /\ poison' = poison /\ torn' = torn \ {idx[c]}
        /\ verdict' = [verdict EXCEPT ![c] = "none"]
    BY <1>17, <2>0, Adjacent DEF PopPublish, At, Goto, Published, Received
  <2>2. Window'
    BY <1>0, <1>D, <2>1, WordFacts DEF IndInv, Window, Acquired, TypeOK,
       Procs, ProducerClaims, ConsumerClaims, Cleared
  <2>3. ProducerClaims'
    BY <1>0, <1>D, <2>1 DEF IndInv, ProducerClaims, TypeOK, Procs, Window
  <2>4. ConsumerClaims'
    BY <1>0, <1>D, <2>1 DEF IndInv, ConsumerClaims, TypeOK, Procs, Window
  <2>5. SendClaimsHeld'
    <3>1. \A q \in Producers : pc'[q] = pc[q] /\ idx'[q] = idx[q]
      BY <1>D, <2>1 DEF IndInv, TypeOK, Procs
    <3> QED
      BY <2>1, <3>1 DEF IndInv, SendClaimsHeld
  <2>6. RecvClaimsHeld'
    BY <1>0, <1>D, <2>1 DEF IndInv, RecvClaimsHeld, TypeOK, Procs, Window,
       ConsumerClaims
  <2>7. Cleared'
    BY <1>0, <1>D, <2>1, WordFacts DEF IndInv, Cleared, Acquired, TypeOK,
       Procs, ProducerClaims, ConsumerClaims, Window
  <2>8. PoisonedFirst'
    BY <1>0, <1>D, <2>1 DEF IndInv, PoisonedFirst, TypeOK, Procs,
       ProducerClaims, Window
  <2>9. VerdictWithGuard'
    BY <1>0, <1>D, <2>1 DEF IndInv, VerdictWithGuard, TypeOK, Procs
  <2>10. PoisonReported'
    BY <1>0, <1>D, <2>1 DEF IndInv, PoisonReported, Acquired, TypeOK, Procs,
       VerdictWithGuard, PoisonedFirst, Cleared, ProducerClaims
  <2> QED
    BY <1>T, <2>2, <2>3, <2>4, <2>5, <2>6, <2>7, <2>8, <2>9, <2>10 DEF IndInv
<1>18. ASSUME NEW x \in Procs, Kill(x) PROVE IndInv'
  <2>1. Published' = Published /\ Received' = Received
    BY <1>18 DEF Kill, Published, Received, control
  <2> QED
    BY <1>T, <1>D, <1>18, <2>1 DEF IndInv, Window, ProducerClaims,
       ConsumerClaims, SendClaimsHeld, RecvClaimsHeld, Cleared, PoisonedFirst,
       VerdictWithGuard, PoisonReported, Acquired, Kill, At, Goto, control,
       TypeOK
<1>19. ASSUME UNCHANGED vars PROVE IndInv'
  <2>1. Published' = Published /\ Received' = Received
    BY <1>19 DEF vars, control, Published, Received
  <2> QED
    BY <1>T, <1>19, <2>1
    DEF IndInv, Window, ProducerClaims, ConsumerClaims, SendClaimsHeld, RecvClaimsHeld, Cleared,
        PoisonedFirst, VerdictWithGuard, PoisonReported, Acquired, vars, control
<1>20. ASSUME NEW p \in Producers, PushStep(p) PROVE IndInv'
  BY <1>3, <1>4, <1>5, <1>6, <1>7, <1>8, <1>20 DEF PushStep
<1>21. ASSUME NEW c \in Consumers, PopStep(c) PROVE IndInv'
  BY <1>11, <1>12, <1>13, <1>14, <1>15, <1>16, <1>17, <1>21 DEF PopStep
<1> QED
  BY <1>1, <1>2, <1>9, <1>10, <1>18, <1>19, <1>20, <1>21 DEF Next
-----------------------------------------------------------------------------
(***************************************************************************)
(* The theorems                                                            *)
(***************************************************************************)

\* The invariant holds in every state of a queue whose counters do not wrap.
LEMMA Invariance == ASSUME NoWrap PROVE Spec => []IndInv
<1>1. Init => IndInv
  BY IndInvInit
<1>2. IndInv /\ [Next]_vars => IndInv'
  BY IndInvNext
<1> QED
  BY <1>1, <1>2, PTL DEF Spec

\* Everyone who holds an item is within the window of item_count indices that
\* starts at the oldest unread message, so no two of them hold the same item.
LEMMA HoldersApart == IndInv => SlotExclusive
<1> SUFFICES ASSUME IndInv, NEW x \in Procs, NEW y \in Procs,
                    x # y, Acquired(x), Acquired(y)
             PROVE  Slot(idx[x]) # Slot(idx[y])
  BY DEF SlotExclusive
<1>1. /\ Published \in Nat /\ Received \in Nat
      /\ idx[x] \in Nat /\ idx[y] \in Nat
  BY IndInvTypes
<1>2. \A z \in Procs : Acquired(z) =>
        Received <= idx[z] /\ idx[z] < Received + ItemCount
  BY <1>1, IndInvTypes, WordFacts
  DEF IndInv, Window, ProducerClaims, ConsumerClaims, Cleared, Acquired, Procs
<1>3. idx[x] # idx[y]
  BY <1>1
  DEF IndInv, Window, ProducerClaims, ConsumerClaims, Cleared, Acquired, Procs
<1>4. CASE idx[x] < idx[y]
  BY <1>1, <1>2, <1>4, SlotsDiffer, WordFacts
<1>5. CASE idx[y] < idx[x]
  BY <1>1, <1>2, <1>5, SlotsDiffer, WordFacts
<1> QED
  BY <1>1, <1>3, <1>4, <1>5

\* The slices of two live guards never overlap, whatever the interleaving of
\* fetch_adds and compare_exchanges, the panics and the kills: the safety claim
\* of the unsafe code that builds PushGuard and PopGuard.
THEOREM SlotExclusiveHolds == ASSUME NoWrap PROVE Spec => []SlotExclusive
BY Invariance, HoldersApart, PTL

\* The fullness check of try_push never grants the item of an unread message.
THEOREM NoOverwriteHolds == ASSUME NoWrap PROVE Spec => []NoOverwrite
<1>1. IndInv => NoOverwrite
  BY IndInvTypes, WordFacts
  DEF IndInv, Window, ProducerClaims, Cleared, NoOverwrite, Acquired,
      WrappingSub, Procs
<1> QED
  BY <1>1, Invariance, PTL

\* Putting an index back never leaves a hole: every index between a side's two
\* counters belongs to a call or to a guard.
THEOREM ClaimsHeldHolds == ASSUME NoWrap PROVE Spec => []ClaimsHeld
<1>1. IndInv => ClaimsHeld
  BY IndInvTypes DEF IndInv, SendClaimsHeld, RecvClaimsHeld, ClaimsHeld
<1> QED
  BY <1>1, Invariance, PTL

\* The message of a producer that panicked is only ever received as poisoned.
THEOREM PoisonReportedHolds == ASSUME NoWrap PROVE Spec => []PoisonReported
<1>1. IndInv => PoisonReported
  BY DEF IndInv
<1> QED
  BY <1>1, Invariance, PTL

\* The counters that the other side's checks load never decrease.
THEOREM NeverDecreaseHolds == ASSUME NoWrap PROVE Spec => NeverDecrease
<1>1. ASSUME IndInv, [Next]_vars
      PROVE  [Published' >= Published /\ Received' >= Received]_vars
  <2>1. CASE \E p \in Producers : PushPublish(p)
    <3>1. PICK p \in Producers : PushPublish(p)
      BY <2>1
    <3>2. idx[p] <= MaxIndex
      BY <3>1, <1>1, IndInvTypes DEF PushPublish, At
    <3>3. idx[p] \in Usize /\ last_sent_index \in Usize
      BY <1>1 DEF Procs, IndInv, TypeOK
    <3>4. idx[p] # UsizeMax
      BY <3>2, <3>3, WordFacts DEF NoWrap, Usize, UsizeMax
    <3> QED
      BY <1>1, <3>1, <3>3, <3>4, Adjacent, IndInvTypes
      DEF PushPublish, Published, Received
  <2>2. CASE \E c \in Consumers : PopPublish(c)
    <3>1. PICK c \in Consumers : PopPublish(c)
      BY <2>2
    <3>2. idx[c] <= MaxIndex
      BY <3>1, <1>1, IndInvTypes DEF PopPublish, At
    <3>3. idx[c] \in Usize /\ last_recvd_index \in Usize
      BY <1>1 DEF Procs, IndInv, TypeOK
    <3>4. idx[c] # UsizeMax
      BY <3>2, <3>3, WordFacts DEF NoWrap, Usize, UsizeMax
    <3> QED
      BY <1>1, <3>1, <3>3, <3>4, Adjacent, IndInvTypes
      DEF PopPublish, Published, Received
  <2>3. CASE UNCHANGED <<last_sent_index, last_recvd_index>>
    BY <1>1, <2>3, IndInvTypes DEF Published, Received
  <2> QED
    BY <1>1, <2>1, <2>2, <2>3
    DEF Next, PushStep, PopStep, vars, control, PushClaim, PushWrite, PushCheck,
        PushRetract, PushRetractFails, PushDrop, PushPoison, PopClaim, PopRead,
        PopCheck, PopRetract, PopRetractFails, PopVerdict, PopDrop, PopPoison,
        Kill
<1> QED
  BY <1>1, Invariance, PTL DEF Spec, NeverDecrease
-----------------------------------------------------------------------------
(***************************************************************************)
(* The queue implements the bounded FIFO                                   *)
(***************************************************************************)

\* The refinement mapping of Fifo: the unread messages, oldest first, and the
\* place in them of the message each consumer's guard points to.
Buffer == [k \in 1 .. WrappingSub(Published, Received) |->
             slots[Slot(WrappingAdd(Received, k - 1))]]
Borrowed == [c \in Consumers |->
               IF Acquired(c) THEN WrappingSub(idx[c], Received) + 1 ELSE 0]

\* The same without wrapping: n messages from index r on, in the items s.
Content(s, r, n) == [k \in 1 .. n |-> s[Slot(r + k - 1)]]

\* Below isize::MAX the wrapping operations of the mapping are plain ones.
LEMMA PlainIndices ==
  ASSUME NoWrap, NEW r \in Nat, NEW i \in Nat, r <= i, i <= MaxIndex
  PROVE  /\ WrappingSub(i, r) = i - r
         /\ \A k \in 1 .. i - r : WrappingAdd(r, k - 1) = r + k - 1
BY WordFacts DEF NoWrap, WrappingSub, WrappingAdd

\* What the mapping is in a state of the invariant.
LEMMA Mapping ==
  ASSUME NoWrap
  PROVE  IndInv =>
           /\ Buffer = Content(slots, Received, Published - Received)
           /\ Borrowed = [c \in Consumers |->
                            IF Acquired(c) THEN idx[c] - Received + 1 ELSE 0]
<1> SUFFICES ASSUME IndInv
             PROVE  /\ Buffer = Content(slots, Received, Published - Received)
                    /\ Borrowed = [c \in Consumers |->
                            IF Acquired(c) THEN idx[c] - Received + 1 ELSE 0]
  OBVIOUS
<1>1. /\ Published \in Nat /\ Received \in Nat /\ Received <= Published
      /\ Published <= MaxIndex
      /\ \A c \in Consumers : Acquired(c) =>
           idx[c] \in Nat /\ Received <= idx[c] /\ idx[c] <= MaxIndex
  BY IndInvTypes DEF IndInv, Window, ConsumerClaims, Acquired, Procs
<1>2. Buffer = Content(slots, Received, Published - Received)
  BY <1>1, PlainIndices DEF Buffer, Content
<1>3. \A c \in Consumers : Acquired(c) => WrappingSub(idx[c], Received) = idx[c] - Received
  BY <1>1, PlainIndices
<1> QED
  BY <1>2, <1>3 DEF Borrowed

\* The messages are a sequence, which a message behind them extends and from
\* which the front one leaves.
LEMMA ContentFacts ==
  ASSUME NEW s \in [0 .. ItemCount - 1 -> Values \cup {Blank}],
         NEW r \in Nat, NEW n \in Nat
  PROVE  /\ Content(s, r, n) \in Seq(Values \cup {Blank}) /\ Len(Content(s, r, n)) = n
         /\ Append(Content(s, r, n), s[Slot(r + n)]) = Content(s, r, n + 1)
         /\ n > 0 => Tail(Content(s, r, n)) = Content(s, r + 1, n - 1)
<1>1. \A i \in Nat : Slot(i) \in 0 .. ItemCount - 1
  BY DivMod, WordFacts DEF Slot
<1>2. \A m \in Nat, q \in Nat : Content(s, q, m) \in Seq(Values \cup {Blank}) /\ Len(Content(s, q, m)) = m
  <2> SUFFICES ASSUME NEW m \in Nat, NEW q \in Nat
               PROVE  Content(s, q, m) \in Seq(Values \cup {Blank}) /\ Len(Content(s, q, m)) = m
    OBVIOUS
  <2>1. \A k \in 1 .. m : q + k - 1 \in Nat
    OBVIOUS
  <2>2. Content(s, q, m) \in [1 .. m -> Values \cup {Blank}]
    BY <1>1, <2>1 DEF Content
  <2> QED
    BY <2>2
<1>3. Append(Content(s, r, n), s[Slot(r + n)]) = Content(s, r, n + 1)
  <2>1. s[Slot(r + n)] \in Values \cup {Blank}
    BY <1>1
  <2>2. Len(Append(Content(s, r, n), s[Slot(r + n)])) = n + 1
    BY <1>2, <2>1
  <2>3. ASSUME NEW k \in 1 .. n + 1
        PROVE  Append(Content(s, r, n), s[Slot(r + n)])[k] = Content(s, r, n + 1)[k]
    BY <1>2, <2>1 DEF Content
  <2>4. Append(Content(s, r, n), s[Slot(r + n)]) \in Seq(Values \cup {Blank})
    BY <1>2, <2>1
  <2> QED
    BY <1>2, <2>2, <2>3, <2>4 DEF Content
<1>4. ASSUME n > 0 PROVE Tail(Content(s, r, n)) = Content(s, r + 1, n - 1)
  <2>1. Tail(Content(s, r, n)) \in Seq(Values \cup {Blank}) /\ Len(Tail(Content(s, r, n))) = n - 1
    BY <1>2, <1>4
  <2>2. ASSUME NEW k \in 1 .. n - 1
        PROVE  Tail(Content(s, r, n))[k] = Content(s, r + 1, n - 1)[k]
    <3>1. Tail(Content(s, r, n))[k] = Content(s, r, n)[k + 1]
      BY <1>2, <1>4
    <3>2. r + (k + 1) - 1 = (r + 1) + k - 1
      OBVIOUS
    <3> QED
      BY <3>1, <3>2 DEF Content
  <2>3. Content(s, r + 1, n - 1) \in Seq(Values \cup {Blank}) /\ Len(Content(s, r + 1, n - 1)) = n - 1
    BY <1>2, <1>4
  <2> QED
    BY <2>1, <2>2, <2>3
<1> QED
  BY <1>2, <1>3, <1>4

\* The same of the items of the queue.
LEMMA MessagesAre ==
  ASSUME TypeOK, NEW r \in Nat, NEW n \in Nat
  PROVE  /\ Len(Content(slots, r, n)) = n
         /\ Append(Content(slots, r, n), slots[Slot(r + n)]) = Content(slots, r, n + 1)
         /\ n > 0 => Tail(Content(slots, r, n)) = Content(slots, r + 1, n - 1)
<1>1. slots \in [0 .. ItemCount - 1 -> Values \cup {Blank}]
  BY DEF TypeOK
<1> QED
  BY <1>1, ContentFacts

\* A fresh queue is an empty FIFO.
LEMMA InitMaps == ASSUME NoWrap PROVE Init => Fifo!Init
<1> SUFFICES ASSUME Init PROVE Fifo!Init
  OBVIOUS
<1>1. Published = 0 /\ Received = 0
  BY WordFacts DEF Init, Published, Received, WrappingAdd, UsizeMax
<1>2. Buffer = << >>
  BY <1>1 DEF Buffer, WrappingSub
<1>3. Borrowed = [c \in Consumers |-> 0]
  BY DEF Init, Borrowed, Acquired, Procs
<1> QED
  BY <1>2, <1>3 DEF Init, Fifo!Init, Buffer, Borrowed

\* A step of a caller sends, borrows, reads or returns a message of the FIFO, or
\* leaves it as it is.
LEMMA StepMaps ==
  ASSUME NoWrap, IndInv, IndInv', [Next]_vars,
         (IndInv => /\ Buffer = Content(slots, Received, Published - Received)
                    /\ Borrowed = [c \in Consumers |->
                         IF Acquired(c) THEN idx[c] - Received + 1 ELSE 0])'
  PROVE  [Fifo!Next]_(Fifo!vars)
<1> DEFINE n == Published - Received
<1>T. TypeOK
  BY DEF IndInv
<1>D. \A p \in Producers, c \in Consumers : p # c
  BY QueueAssumption
<1>0. /\ Published \in Nat /\ Received \in Nat /\ n \in Nat
      /\ \A x \in Procs : idx[x] \in Nat
      /\ \A p \in Producers : pc[p] # "idle" => idx[p] <= MaxIndex
      /\ \A c \in Consumers : pc[c] # "idle" => idx[c] <= MaxIndex
  BY IndInvTypes DEF IndInv, Window
<1>B. /\ Buffer = Content(slots, Received, n)
      /\ Borrowed = [c \in Consumers |->
                       IF Acquired(c) THEN idx[c] - Received + 1 ELSE 0]
  BY Mapping
<1>P. /\ Buffer' = Content(slots', Received', Published' - Received')
      /\ Borrowed' = [c \in Consumers |->
                        IF Acquired(c)' THEN idx'[c] - Received' + 1 ELSE 0]
  OBVIOUS
<1>C. /\ Len(Content(slots, Received, n)) = n
      /\ Append(Content(slots, Received, n), slots[Slot(Received + n)])
           = Content(slots, Received, n + 1)
      /\ n > 0 => Tail(Content(slots, Received, n)) = Content(slots, Received + 1, n - 1)
  BY <1>0, <1>T, MessagesAre
<1>L. Len(Buffer) = n
  BY <1>B, <1>C
<1>S. ASSUME Buffer' = Buffer, Borrowed' = Borrowed, got' = got
      PROVE  [Fifo!Next]_(Fifo!vars)
  BY <1>S DEF Fifo!vars, Buffer, Borrowed
\* Most steps touch neither the messages nor what a consumer has acquired.
<1>Q. ASSUME UNCHANGED <<last_sent_index, last_recvd_index, slots, got>>,
             \A c \in Consumers : /\ Acquired(c)' = Acquired(c)
                                  /\ Acquired(c) => idx'[c] = idx[c]
      PROVE  [Fifo!Next]_(Fifo!vars)
  <2>1. Published' = Published /\ Received' = Received
    BY <1>Q DEF Published, Received
  <2>2. Buffer' = Buffer
    BY <1>Q, <2>1 DEF Buffer
  <2>3. Borrowed' = Borrowed
    BY <1>Q, <2>1 DEF Borrowed
  <2> QED
    BY <1>Q, <1>S, <2>2, <2>3
<1> USE DEF At, Goto, control, Procs, TypeOK, Acquired
<1>1. ASSUME NEW p \in Producers, PushClaim(p) PROVE [Fifo!Next]_(Fifo!vars)
  BY <1>1, <1>Q, <1>T, <1>D DEF PushClaim
<1>3. ASSUME NEW p \in Producers, PushCheck(p) PROVE [Fifo!Next]_(Fifo!vars)
  BY <1>3, <1>Q, <1>T, <1>D DEF PushCheck
<1>4. ASSUME NEW p \in Producers, PushRetract(p) PROVE [Fifo!Next]_(Fifo!vars)
  BY <1>4, <1>Q, <1>T, <1>D DEF PushRetract
<1>5. ASSUME NEW p \in Producers, PushRetractFails(p) PROVE [Fifo!Next]_(Fifo!vars)
  BY <1>5, <1>Q, <1>T, <1>D DEF PushRetractFails
<1>6. ASSUME NEW p \in Producers, NEW b \in BOOLEAN, PushDrop(p, b)
      PROVE  [Fifo!Next]_(Fifo!vars)
  BY <1>6, <1>Q, <1>T, <1>D DEF PushDrop
<1>7. ASSUME NEW p \in Producers, PushPoison(p) PROVE [Fifo!Next]_(Fifo!vars)
  BY <1>7, <1>Q, <1>T, <1>D DEF PushPoison
<1>9. ASSUME NEW c \in Consumers, PopClaim(c) PROVE [Fifo!Next]_(Fifo!vars)
  BY <1>9, <1>Q, <1>T DEF PopClaim
<1>12. ASSUME NEW c \in Consumers, PopRetract(c) PROVE [Fifo!Next]_(Fifo!vars)
  BY <1>12, <1>Q, <1>T DEF PopRetract
<1>13. ASSUME NEW c \in Consumers, PopRetractFails(c) PROVE [Fifo!Next]_(Fifo!vars)
  BY <1>13, <1>Q, <1>T DEF PopRetractFails
<1>14. ASSUME NEW c \in Consumers, PopVerdict(c) PROVE [Fifo!Next]_(Fifo!vars)
  BY <1>14, <1>Q, <1>T DEF PopVerdict
<1>15. ASSUME NEW c \in Consumers, NEW b \in BOOLEAN, PopDrop(c, b)
       PROVE  [Fifo!Next]_(Fifo!vars)
  BY <1>15, <1>Q, <1>T DEF PopDrop
<1>16. ASSUME NEW c \in Consumers, PopPoison(c) PROVE [Fifo!Next]_(Fifo!vars)
  BY <1>16, <1>Q, <1>T DEF PopPoison
<1>18. ASSUME NEW x \in Procs, Kill(x) PROVE [Fifo!Next]_(Fifo!vars)
  BY <1>18, <1>Q DEF Kill
<1>19. ASSUME UNCHANGED vars PROVE [Fifo!Next]_(Fifo!vars)
  BY <1>19, <1>Q DEF vars
<1> HIDE DEF At, Goto, control, Procs, TypeOK, Acquired
\* The item a producer writes is outside the window of the unread messages.
<1>2. ASSUME NEW p \in Producers, NEW v \in Values, PushWrite(p, v)
      PROVE  [Fifo!Next]_(Fifo!vars)
  <2>1. /\ Published' = Published /\ Received' = Received
        /\ slots' = [slots EXCEPT ![Slot(idx[p])] = v]
        /\ got' = got /\ pc' = pc /\ idx' = idx
        /\ Acquired(p) /\ pc[p] # "idle"
    BY <1>2 DEF PushWrite, Published, Received, control, At, Acquired
  <2>2. /\ idx[p] \in Nat /\ Published <= idx[p]
        /\ idx[p] < Received + ItemCount
    BY <1>0, <2>1 DEF IndInv, ProducerClaims, Cleared, Procs
  <2>3. ASSUME NEW k \in 1 .. n
        PROVE  slots'[Slot(Received + k - 1)] = slots[Slot(Received + k - 1)]
    <3>1. /\ Received + k - 1 \in Nat
          /\ Received + k - 1 < idx[p] /\ idx[p] < Received + k - 1 + ItemCount
      BY <1>0, <2>2, WordFacts
    <3>2. Slot(Received + k - 1) # Slot(idx[p])
      BY <2>2, <3>1, SlotsDiffer
    <3>3. Slot(Received + k - 1) \in 0 .. ItemCount - 1
      BY <3>1, DivMod, WordFacts DEF Slot
    <3> QED
      BY <1>T, <2>1, <3>2, <3>3 DEF TypeOK
  <2>4. Buffer' = Buffer
    BY <1>B, <1>P, <2>1, <2>3 DEF Content
  <2>5. Borrowed' = Borrowed
    BY <2>1 DEF Borrowed, Acquired
  <2> QED
    BY <2>1, <2>4, <2>5, <1>S
\* Publishing an index appends the message its producer wrote.
<1>8. ASSUME NEW p \in Producers, PushPublish(p) PROVE [Fifo!Next]_(Fifo!vars)
  <2>1. idx[p] \in Usize /\ idx[p] # UsizeMax /\ last_sent_index \in Usize
    <3>1. idx[p] \in Usize /\ last_sent_index \in Usize
      BY <1>T DEF TypeOK, Procs
    <3>2. idx[p] <= MaxIndex
      BY <1>8, <1>0 DEF PushPublish, At
    <3> QED
      BY <3>1, <3>2, WordFacts DEF NoWrap, Usize, UsizeMax
  <2>2. /\ Published = idx[p] /\ Published' = Published + 1
        /\ Received' = Received /\ slots' = slots /\ got' = got
        /\ pc[p] = "publish" /\ pc' = [pc EXCEPT ![p] = "idle"]
        /\ idx' = [idx EXCEPT ![p] = 0]
    BY <1>8, <2>1, Adjacent DEF PushPublish, At, Goto, Published, Received
  <2>3. n < ItemCount
    BY <1>0, <2>2, WordFacts DEF IndInv, Cleared, Acquired, Procs
  <2>4. Buffer' = Append(Buffer, slots[Slot(Received + n)])
    <3>1. Published' - Received' = n + 1
      BY <1>0, <2>2
    <3> QED
      BY <1>B, <1>C, <1>P, <2>2, <3>1
  <2>5. Borrowed' = Borrowed
    BY <1>D, <1>T, <2>2 DEF Borrowed, Acquired, TypeOK, Procs
  <2>6. slots[Slot(Received + n)] \in Values \cup {Blank}
    BY <1>0, <1>T, DivMod, WordFacts DEF TypeOK, Slot
  <2>7. Fifo!Push(slots[Slot(Received + n)])
    BY <1>L, <2>2, <2>3, <2>4, <2>5 DEF Fifo!Push, Buffer, Borrowed
  <2> QED
    BY <2>6, <2>7 DEF Fifo!Next
\* Passing the check borrows a message that no other consumer has.
<1>11. ASSUME NEW c \in Consumers, PopCheck(c) PROVE [Fifo!Next]_(Fifo!vars)
  <2>1. CASE RecvClear(idx[c], last_sent_index)
    <3> DEFINE k == idx[c] - Received + 1
    <3>1. /\ pc[c] = "check" /\ pc' = [pc EXCEPT ![c] = "verdict"]
          /\ idx' = idx /\ slots' = slots /\ got' = got
          /\ Published' = Published /\ Received' = Received
      BY <1>11, <2>1 DEF PopCheck, At, Goto, control, Published, Received
    <3>2. /\ idx[c] \in Nat /\ Received <= idx[c] /\ idx[c] < Published
      <4>1. idx[c] < Published
        BY <1>0, <1>T, <2>1, <3>1, RecvClearMeans, IndInvTypes
        DEF Published, TypeOK, Procs
      <4> QED
        BY <1>0, <3>1, <4>1 DEF IndInv, ConsumerClaims, Procs
    <3>3. k \in 1 .. n
      BY <1>0, <3>2
    <3>4. Buffer' = Buffer
      BY <3>1 DEF Buffer
    <3>5. Borrowed[c] = 0
      BY <1>B, <3>1 DEF Acquired
    <3>6. \A d \in Consumers : Borrowed[d] # k
      <4> SUFFICES ASSUME NEW d \in Consumers, Borrowed[d] = k PROVE FALSE
        OBVIOUS
      <4>1. Acquired(d) /\ idx[d] - Received + 1 = k
        BY <1>B, <3>3
      <4>2. d # c /\ pc[d] # "idle" /\ idx[d] = idx[c]
        BY <1>0, <3>1, <4>1 DEF Acquired, Procs
      <4> QED
        BY <3>1, <4>2 DEF IndInv, ConsumerClaims
    <3>7. Borrowed' = [Borrowed EXCEPT ![c] = k]
      BY <1>B, <1>P, <1>T, <3>1 DEF Acquired, TypeOK, Procs
    <3>8. Fifo!Borrow(c, k)
      BY <3>1, <3>4, <3>5, <3>6, <3>7 DEF Fifo!Borrow, Buffer, Borrowed
    <3>9. k \in 1 .. Len(Buffer)
      BY <1>L, <3>3
    <3> QED
      BY <3>8, <3>9 DEF Fifo!Next, Buffer
  <2>2. CASE ~RecvClear(idx[c], last_sent_index)
    BY <1>11, <2>2, <1>Q, <1>T DEF PopCheck, At, Goto, control, Procs, TypeOK, Acquired
  <2> QED
    BY <2>1, <2>2
\* A guard's owner reads the message it has borrowed.
<1>10. ASSUME NEW c \in Consumers, PopRead(c) PROVE [Fifo!Next]_(Fifo!vars)
  <2>1. /\ Acquired(c) /\ pc[c] # "idle" /\ UNCHANGED <<control, slots, pc, idx>>
        /\ got' = [got EXCEPT ![c] = slots[Slot(idx[c])]]
    BY <1>10 DEF PopRead, At, Acquired
  <2>2. Buffer' = Buffer /\ Borrowed' = Borrowed
    BY <2>1 DEF Buffer, Borrowed, Published, Received, control, Acquired
  <2>3. /\ idx[c] \in Nat /\ Received <= idx[c] /\ idx[c] < Published
    BY <1>0, <2>1 DEF IndInv, ConsumerClaims, Cleared, Procs
  <2>4. Borrowed[c] = idx[c] - Received + 1 /\ Borrowed[c] \in 1 .. n
    BY <1>0, <1>B, <2>1, <2>3
  <2>5. Buffer[Borrowed[c]] = slots[Slot(idx[c])]
    <3>1. Received + Borrowed[c] - 1 = idx[c]
      BY <1>0, <2>3, <2>4
    <3> QED
      BY <1>B, <2>4, <3>1 DEF Content
  <2>6. Borrowed[c] > 0
    BY <2>4
  <2>7. Fifo!Read(c)
    BY <2>1, <2>2, <2>5, <2>6 DEF Fifo!Read, Buffer, Borrowed
  <2> QED
    BY <2>7 DEF Fifo!Next
\* Publishing a receive returns the message at the front.
<1>17. ASSUME NEW c \in Consumers, PopPublish(c) PROVE [Fifo!Next]_(Fifo!vars)
  <2>1. idx[c] \in Usize /\ idx[c] # UsizeMax /\ last_recvd_index \in Usize
    <3>1. idx[c] \in Usize /\ last_recvd_index \in Usize
      BY <1>T DEF TypeOK, Procs
    <3>2. idx[c] <= MaxIndex
      BY <1>17, <1>0 DEF PopPublish, At
    <3> QED
      BY <3>1, <3>2, WordFacts DEF NoWrap, Usize, UsizeMax
  <2>2. /\ Received = idx[c] /\ Received' = Received + 1
        /\ Published' = Published /\ slots' = slots
        /\ pc[c] = "publish" /\ pc' = [pc EXCEPT ![c] = "idle"]
        /\ idx' = [idx EXCEPT ![c] = 0]
        /\ got' = [got EXCEPT ![c] = Nothing]
    BY <1>17, <2>1, Adjacent DEF PopPublish, At, Goto, Published, Received
  <2>3. Acquired(c) /\ n > 0
    BY <1>0, <2>2 DEF IndInv, Cleared, Acquired, Procs
  <2>4. Borrowed[c] = 1
    BY <1>0, <1>B, <2>2, <2>3
  <2>5. Buffer' = Tail(Buffer)
    <3>1. Published' - Received' = n - 1
      BY <1>0, <2>2
    <3> QED
      BY <1>B, <1>C, <1>P, <2>2, <2>3, <3>1
  <2>6. ASSUME NEW d \in Consumers
        PROVE  Borrowed'[d] = IF Borrowed[d] = 0 THEN 0 ELSE Borrowed[d] - 1
    <3>1. CASE d = c
      BY <1>P, <1>T, <2>2, <2>4, <3>1 DEF Acquired, TypeOK, Procs
    <3>2. CASE d # c /\ Acquired(d)
      <4>1. Acquired(d)' /\ idx'[d] = idx[d] /\ idx[d] \in Nat /\ Received <= idx[d]
        BY <1>0, <1>T, <2>2, <3>2 DEF Acquired, TypeOK, Procs, IndInv, ConsumerClaims
      <4>2. Borrowed[d] = idx[d] - Received + 1 /\ Borrowed'[d] = idx[d] - (Received + 1) + 1
        BY <1>B, <1>P, <2>2, <3>2, <4>1
      <4> QED
        BY <1>0, <4>1, <4>2
    <3>3. CASE d # c /\ ~Acquired(d)
      <4>1. ~Acquired(d)'
        BY <1>T, <2>2, <3>3 DEF Acquired, TypeOK, Procs
      <4> QED
        BY <1>B, <1>P, <3>3, <4>1
    <3> QED
      BY <3>1, <3>2, <3>3
  <2>7. Borrowed' = [d \in Consumers |->
                       IF Borrowed[d] = 0 THEN 0 ELSE Borrowed[d] - 1]
    BY <1>P, <2>6
  <2>8. Fifo!Return(c)
    BY <2>2, <2>4, <2>5, <2>7 DEF Fifo!Return, Buffer, Borrowed
  <2> QED
    BY <2>8 DEF Fifo!Next
<1>20. ASSUME NEW p \in Producers, PushStep(p) PROVE [Fifo!Next]_(Fifo!vars)
  BY <1>3, <1>4, <1>5, <1>6, <1>7, <1>8, <1>20 DEF PushStep
<1>21. ASSUME NEW c \in Consumers, PopStep(c) PROVE [Fifo!Next]_(Fifo!vars)
  BY <1>11, <1>12, <1>13, <1>14, <1>15, <1>16, <1>17, <1>21 DEF PopStep
<1> QED
  BY <1>1, <1>2, <1>9, <1>10, <1>18, <1>19, <1>20, <1>21 DEF Next

\* The lock-free queue is a bounded FIFO of its messages: whoever is preempted,
\* panics or is killed, a consumer borrows a message nobody else has, finds in it
\* what its producer wrote, and messages leave in the order they were sent.
THEOREM FifoImplemented == ASSUME NoWrap PROVE Spec => ImplementsFifo
<1>1. Init => Fifo!Init
  BY InitMaps
<1>2. IndInv =>
        /\ Buffer = Content(slots, Received, Published - Received)
        /\ Borrowed = [c \in Consumers |->
                         IF Acquired(c) THEN idx[c] - Received + 1 ELSE 0]
  BY Mapping
<1>3. (IndInv => /\ Buffer = Content(slots, Received, Published - Received)
                 /\ Borrowed = [c \in Consumers |->
                      IF Acquired(c) THEN idx[c] - Received + 1 ELSE 0])'
  BY <1>2, PTL
<1>4. IndInv /\ IndInv' /\ [Next]_vars => [Fifo!Next]_(Fifo!vars)
  BY <1>3, StepMaps
<1> QED
  BY <1>1, <1>4, Invariance, PTL DEF Spec, ImplementsFifo, Fifo!Spec
=============================================================================
