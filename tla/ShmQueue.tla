------------------------------ MODULE ShmQueue ------------------------------
(***************************************************************************)
(* The lock-free queue in shared memory (src/src/shm/queue.rs).            *)
(*                                                                         *)
(* Any number of threads, in any number of processes, map the same item    *)
(* memory and the same control block of four counters and a poison flag.   *)
(* Every atomic operation of the code is one step here, so all the         *)
(* interleavings of loads, fetch_adds and compare_exchanges are behaviours.*)
(* All of them are SeqCst in the code.                                     *)
(*                                                                         *)
(* A member of Producers is one try_push call and the PushGuard it returns,*)
(* a member of Consumers one try_pop call and its PopGuard; when the guard *)
(* has been dropped the same member makes the next call.                   *)
(***************************************************************************)
EXTENDS Integers, FiniteSets

CONSTANTS
  Producers,    \* the callers of try_push
  Consumers,    \* the callers of try_pop
  Values,       \* what a producer may write into an item
  Blank,        \* what the item memory holds before the first write
  Nothing,      \* a consumer's "no value read yet"
  ItemCount,    \* item_count
  Word,         \* the number of values of a usize: usize::MAX + 1
  MaxIndex,     \* bound: indices handed out to producers
  MaxCrashes    \* bound: callers killed at an arbitrary point

Procs == Producers \cup Consumers

ASSUME QueueAssumption ==
  /\ Producers \cap Consumers = {}
  /\ Blank \notin Values
  /\ Nothing \notin Values \cup {Blank}
  /\ ItemCount \in Nat \ {0}
  /\ Word \in Nat /\ Word % 2 = 0
  /\ ItemCount < Word \div 2 - 1        \* the assertion in required_size
  /\ MaxIndex \in 1 .. Word
  /\ MaxCrashes \in Nat

VARIABLES
  next_send_index, last_sent_index,     \* the control block
  next_recv_index, last_recvd_index,
  poison,
  slots,      \* the item memory
  pc,         \* where each caller is in try_push / try_pop / its guard
  idx,        \* send_index or recv_index of the call in progress
  verdict,    \* what try_pop returned with the guard: "ok" or "poisoned"
  got,        \* what a consumer read from its guard
  alive,      \* callers that have not been killed
  torn        \* history: indices in the queue whose producer panicked

control == <<next_send_index, last_sent_index, next_recv_index, last_recvd_index>>
vars == <<control, poison, slots, pc, idx, verdict, got, alive, torn>>

(***************************************************************************)
(* usize arithmetic.                                                       *)
(***************************************************************************)
UsizeMax == Word - 1
Usize == 0 .. UsizeMax

\* Mutant: the addition does not wrap.
PlainAdd(a, b) == a + b

WrappingAdd(a, b) == IF a + b < Word THEN a + b ELSE a + b - Word
WrappingSub(a, b) == IF a >= b THEN a - b ELSE a - b + Word

\* Mutant: the difference of two indices is compared as an unsigned number.
AsUsize(a) == a

AsIsize(a) == IF a < Word \div 2 THEN a ELSE a - Word

Slot(i) == i % ItemCount

\* Mutant: one item too many.
SendClearOffByOne(i, last_recvd) ==
  AsIsize(WrappingSub(i, WrappingAdd(last_recvd, 1))) <= ItemCount

\* send_index.wrapping_sub(last_recvd_index.wrapping_add(1)) as isize < item_count
SendClear(i, last_recvd) ==
  AsIsize(WrappingSub(i, WrappingAdd(last_recvd, 1))) < ItemCount

\* Mutant: the last message is taken for no message.
RecvClearOffByOne(i, last_sent) == AsIsize(WrappingSub(last_sent, i)) > 0

\* last_sent_index.wrapping_sub(recv_index) as isize >= 0
RecvClear(i, last_sent) == AsIsize(WrappingSub(last_sent, i)) >= 0

PcStates == {"idle", "check", "retract", "verdict", "guard", "poison", "publish"}

\* The control block as new_with_memory writes it.
Init ==
  /\ next_send_index = 0
  /\ last_sent_index = UsizeMax
  /\ next_recv_index = 0
  /\ last_recvd_index = UsizeMax
  /\ poison = FALSE
  /\ slots = [s \in 0 .. ItemCount - 1 |-> Blank]
  /\ pc = [x \in Procs |-> "idle"]
  /\ idx = [x \in Procs |-> 0]
  /\ verdict = [c \in Consumers |-> "none"]
  /\ got = [c \in Consumers |-> Nothing]
  /\ alive = Procs
  /\ torn = {}

At(x, state) == x \in alive /\ pc[x] = state
Goto(x, state) == pc' = [pc EXCEPT ![x] = state]
-----------------------------------------------------------------------------
(***************************************************************************)
(* try_push                                                                *)
(***************************************************************************)

\* fetch_add on next_send_index.  The index usize::MAX makes the call panic
\* ("unimplemented"), after the counter has already wrapped.
PushClaim(p) ==
  /\ At(p, "idle")
  /\ next_send_index < MaxIndex
  /\ next_send_index' = WrappingAdd(next_send_index, 1)
  /\ \/ /\ next_send_index = UsizeMax
        /\ UNCHANGED <<pc, idx>>
     \/ /\ next_send_index # UsizeMax
        /\ Goto(p, "check")
        /\ idx' = [idx EXCEPT ![p] = next_send_index]
  /\ UNCHANGED <<last_sent_index, next_recv_index, last_recvd_index,
                 poison, slots, verdict, got, alive, torn>>

\* Mutant: room is made by claiming a message instead of by releasing it.
PushCheckClaimed(p) ==
  /\ At(p, "check")
  /\ Goto(p, IF SendClear(idx[p], WrappingSub(next_recv_index, 1))
             THEN "guard" ELSE "retract")
  /\ UNCHANGED <<control, poison, slots, idx, verdict, got, alive, torn>>

\* One load of last_recvd_index: the item is free, or the queue is full.
PushCheck(p) ==
  /\ At(p, "check")
  /\ Goto(p, IF SendClear(idx[p], last_recvd_index) THEN "guard" ELSE "retract")
  /\ UNCHANGED <<control, poison, slots, idx, verdict, got, alive, torn>>

\* Mutant: the index is given back with a store.
PushRetractStore(p) ==
  /\ At(p, "retract")
  /\ next_send_index' = idx[p]
  /\ Goto(p, "idle")
  /\ idx' = [idx EXCEPT ![p] = 0]
  /\ UNCHANGED <<last_sent_index, next_recv_index, last_recvd_index,
                 poison, slots, verdict, got, alive, torn>>

\* The compare_exchange_weak that gives the index back succeeds: None.
PushRetract(p) ==
  /\ At(p, "retract")
  /\ next_send_index = WrappingAdd(idx[p], 1)
  /\ next_send_index' = idx[p]
  /\ Goto(p, "idle")
  /\ idx' = [idx EXCEPT ![p] = 0]
  /\ UNCHANGED <<last_sent_index, next_recv_index, last_recvd_index,
                 poison, slots, verdict, got, alive, torn>>

\* It fails, because a later index is out or (weak) for no reason: look again.
PushRetractFails(p) ==
  /\ At(p, "retract")
  /\ Goto(p, "check")
  /\ UNCHANGED <<control, poison, slots, idx, verdict, got, alive, torn>>

(***************************************************************************)
(* PushGuard                                                               *)
(***************************************************************************)

\* The owner of the guard writes (a piece of) the item.
PushWrite(p, v) ==
  /\ At(p, "guard")
  /\ slots' = [slots EXCEPT ![Slot(idx[p])] = v]
  /\ UNCHANGED <<control, poison, pc, idx, verdict, got, alive, torn>>

\* Mutant: a panic does not poison the queue.
PushDropQuiet(p, panicking) ==
  /\ At(p, "guard")
  /\ Goto(p, "publish")
  /\ torn' = IF panicking THEN torn \cup {idx[p]} ELSE torn
  /\ UNCHANGED <<control, poison, slots, idx, verdict, got, alive>>

\* The guard is dropped, at the end of its scope or by a panic's unwinding.
PushDrop(p, panicking) ==
  /\ At(p, "guard")
  /\ Goto(p, IF panicking THEN "poison" ELSE "publish")
  /\ torn' = IF panicking THEN torn \cup {idx[p]} ELSE torn
  /\ UNCHANGED <<control, poison, slots, idx, verdict, got, alive>>

PushPoison(p) ==
  /\ At(p, "poison")
  /\ poison' = TRUE
  /\ Goto(p, "publish")
  /\ UNCHANGED <<control, slots, idx, verdict, got, alive, torn>>

\* Mutant: the drop does not wait for the earlier sends.
PushPublishStore(p) ==
  /\ At(p, "publish")
  /\ last_sent_index' = idx[p]
  /\ Goto(p, "idle")
  /\ idx' = [idx EXCEPT ![p] = 0]
  /\ UNCHANGED <<next_send_index, next_recv_index, last_recvd_index,
                 poison, slots, verdict, got, alive, torn>>

\* Mutant: the compare_exchange expects the index itself.
PushPublishOffByOne(p) ==
  /\ At(p, "publish")
  /\ last_sent_index = idx[p]
  /\ Goto(p, "idle")
  /\ idx' = [idx EXCEPT ![p] = 0]
  /\ UNCHANGED <<control, poison, slots, verdict, got, alive, torn>>

\* The compare_exchange on last_sent_index; while it fails the drop spins.
PushPublish(p) ==
  /\ At(p, "publish")
  /\ last_sent_index = WrappingSub(idx[p], 1)
  /\ last_sent_index' = idx[p]
  /\ Goto(p, "idle")
  /\ idx' = [idx EXCEPT ![p] = 0]
  /\ UNCHANGED <<next_send_index, next_recv_index, last_recvd_index,
                 poison, slots, verdict, got, alive, torn>>
-----------------------------------------------------------------------------
(***************************************************************************)
(* try_pop                                                                 *)
(***************************************************************************)
PopClaim(c) ==
  /\ At(c, "idle")
  /\ next_recv_index <= MaxIndex
  /\ next_recv_index' = WrappingAdd(next_recv_index, 1)
  /\ \/ /\ next_recv_index = UsizeMax
        /\ UNCHANGED <<pc, idx>>
     \/ /\ next_recv_index # UsizeMax
        /\ Goto(c, "check")
        /\ idx' = [idx EXCEPT ![c] = next_recv_index]
  /\ UNCHANGED <<next_send_index, last_sent_index, last_recvd_index,
                 poison, slots, verdict, got, alive, torn>>

PopCheck(c) ==
  /\ At(c, "check")
  /\ Goto(c, IF RecvClear(idx[c], last_sent_index) THEN "verdict" ELSE "retract")
  /\ UNCHANGED <<control, poison, slots, idx, verdict, got, alive, torn>>

\* Mutant: the compare_exchange expects the index itself.
PopRetractOffByOne(c) ==
  /\ At(c, "retract")
  /\ next_recv_index = idx[c]
  /\ next_recv_index' = idx[c]
  /\ Goto(c, "idle")
  /\ idx' = [idx EXCEPT ![c] = 0]
  /\ UNCHANGED <<next_send_index, last_sent_index, last_recvd_index,
                 poison, slots, verdict, got, alive, torn>>

PopRetract(c) ==
  /\ At(c, "retract")
  /\ next_recv_index = WrappingAdd(idx[c], 1)
  /\ next_recv_index' = idx[c]
  /\ Goto(c, "idle")
  /\ idx' = [idx EXCEPT ![c] = 0]
  /\ UNCHANGED <<next_send_index, last_sent_index, last_recvd_index,
                 poison, slots, verdict, got, alive, torn>>

PopRetractFails(c) ==
  /\ At(c, "retract")
  /\ Goto(c, "check")
  /\ UNCHANGED <<control, poison, slots, idx, verdict, got, alive, torn>>

\* The load of the poison flag decides between Ok(guard) and Err(guard).
PopVerdict(c) ==
  /\ At(c, "verdict")
  /\ verdict' = [verdict EXCEPT ![c] = IF poison THEN "poisoned" ELSE "ok"]
  /\ Goto(c, "guard")
  /\ UNCHANGED <<control, poison, slots, idx, got, alive, torn>>

(***************************************************************************)
(* PopGuard                                                                *)
(***************************************************************************)
PopRead(c) ==
  /\ At(c, "guard")
  /\ got' = [got EXCEPT ![c] = slots[Slot(idx[c])]]
  /\ UNCHANGED <<control, poison, slots, pc, idx, verdict, alive, torn>>

PopDrop(c, panicking) ==
  /\ At(c, "guard")
  /\ Goto(c, IF panicking THEN "poison" ELSE "publish")
  /\ UNCHANGED <<control, poison, slots, idx, verdict, got, alive, torn>>

PopPoison(c) ==
  /\ At(c, "poison")
  /\ poison' = TRUE
  /\ Goto(c, "publish")
  /\ UNCHANGED <<control, slots, idx, verdict, got, alive, torn>>

\* Mutant: the drop does not wait for the earlier receives.
PopPublishStore(c) ==
  /\ At(c, "publish")
  /\ last_recvd_index' = idx[c]
  /\ Goto(c, "idle")
  /\ idx' = [idx EXCEPT ![c] = 0]
  /\ verdict' = [verdict EXCEPT ![c] = "none"]
  /\ got' = [got EXCEPT ![c] = Nothing]
  /\ torn' = torn \ {idx[c]}
  /\ UNCHANGED <<next_send_index, last_sent_index, next_recv_index,
                 poison, slots, alive>>

PopPublish(c) ==
  /\ At(c, "publish")
  /\ last_recvd_index = WrappingSub(idx[c], 1)
  /\ last_recvd_index' = idx[c]
  /\ Goto(c, "idle")
  /\ idx' = [idx EXCEPT ![c] = 0]
  /\ verdict' = [verdict EXCEPT ![c] = "none"]
  /\ got' = [got EXCEPT ![c] = Nothing]
  /\ torn' = torn \ {idx[c]}
  /\ UNCHANGED <<next_send_index, last_sent_index, next_recv_index,
                 poison, slots, alive>>
-----------------------------------------------------------------------------
\* A process is killed between two of its steps: no destructor runs.
Kill(x) ==
  /\ x \in alive
  /\ pc[x] # "idle"
  /\ Cardinality(Procs \ alive) < MaxCrashes
  /\ alive' = alive \ {x}
  /\ UNCHANGED <<control, poison, slots, pc, idx, verdict, got, torn>>

PushStep(p) ==
  \/ PushCheck(p) \/ PushRetract(p) \/ PushRetractFails(p)
  \/ (\E panicking \in BOOLEAN : PushDrop(p, panicking))
  \/ PushPoison(p) \/ PushPublish(p)

PopStep(c) ==
  \/ PopCheck(c) \/ PopRetract(c) \/ PopRetractFails(c)
  \/ PopVerdict(c)
  \/ (\E panicking \in BOOLEAN : PopDrop(c, panicking))
  \/ PopPoison(c) \/ PopPublish(c)

Next ==
  \/ \E p \in Producers :
       \/ PushClaim(p)
       \/ \E v \in Values : PushWrite(p, v)
       \/ PushStep(p)
  \/ \E c \in Consumers :
       \/ PopClaim(c)
       \/ PopRead(c)
       \/ PopStep(c)
  \/ \E x \in Procs : Kill(x)

Spec == Init /\ [][Next]_vars

(***************************************************************************)
(* Every running thread keeps taking steps and the guards' owners drop     *)
(* them.  A compare_exchange_weak that would succeed again and again does  *)
(* not fail spuriously for ever, hence strong fairness of the retractions. *)
(* Nothing makes an application call try_push or try_pop.                  *)
(***************************************************************************)
Fairness ==
  /\ \A p \in Producers : WF_vars(PushStep(p)) /\ SF_vars(PushRetract(p))
  /\ \A c \in Consumers : WF_vars(PopStep(c)) /\ SF_vars(PopRetract(c))

FairSpec == Spec /\ Fairness
-----------------------------------------------------------------------------
(***************************************************************************)
(* Properties                                                              *)
(***************************************************************************)

\* The index of the next item to become visible, and of the next to be freed.
Published == WrappingAdd(last_sent_index, 1)
Received == WrappingAdd(last_recvd_index, 1)

InLoop(x) == pc[x] \in {"check", "retract"}
Acquired(x) == pc[x] \in {"verdict", "guard", "poison", "publish"}

\* Every counter, index and program counter has a value the code can give it.
TypeOK ==
  /\ next_send_index \in Usize /\ last_sent_index \in Usize
  /\ next_recv_index \in Usize /\ last_recvd_index \in Usize
  /\ poison \in BOOLEAN
  /\ slots \in [0 .. ItemCount - 1 -> Values \cup {Blank}]
  /\ pc \in [Procs -> PcStates]
  /\ idx \in [Procs -> Usize]
  /\ verdict \in [Consumers -> {"none", "ok", "poisoned"}]
  /\ got \in [Consumers -> Values \cup {Blank, Nothing}]
  /\ alive \subseteq Procs
  /\ torn \subseteq Usize

\* The slices two guards point to never overlap: neither two producers, nor two
\* consumers, nor a producer and a consumer, ever have the same item.
SlotExclusive ==
  \A x, y \in Procs :
    (x # y /\ Acquired(x) /\ Acquired(y)) => Slot(idx[x]) # Slot(idx[y])

\* No producer holds the item of a message that was sent and not yet received:
\* the fullness check never lets an unread message be overwritten.
NoOverwrite ==
  \A p \in Producers : Acquired(p) =>
    /\ WrappingSub(idx[p], Received) < ItemCount
    /\ WrappingSub(idx[p], Published) < ItemCount

\* "Any holes will be filled": every index handed out to a producer and not yet
\* published belongs to a call that is still in try_push or to its guard, so
\* the producers spinning on the earlier index in PushGuard::drop wait for
\* someone; and the same for consumers.
ClaimsHeld ==
  /\ \A i \in Published .. next_send_index - 1 :
       \E p \in Producers : pc[p] # "idle" /\ idx[p] = i
  /\ \A i \in Received .. next_recv_index - 1 :
       \E c \in Consumers : pc[c] # "idle" /\ idx[c] = i

\* A consumer never gets Ok for an item whose producer panicked while it held
\* the guard: PushGuard::drop stores the poison before it publishes.
PoisonReported ==
  \A c \in Consumers :
    (verdict[c] # "none" /\ idx[c] \in torn) => verdict[c] = "poisoned"

\* The comments in try_push and try_pop: the index a caller loads may be out of
\* date, "it will never decrease (except in a wrap-around situation)".
NeverDecrease == [][Published' >= Published /\ Received' >= Received]_vars

\* What the queue promises: a FIFO in which a borrowed item is stable.
Fifo == INSTANCE BoundedFifo WITH
  Capacity <- ItemCount,
  Values   <- Values \cup {Blank},
  buffer   <- [k \in 1 .. WrappingSub(Published, Received) |->
                 slots[Slot(WrappingAdd(Received, k - 1))]],
  borrowed <- [c \in Consumers |->
                 IF Acquired(c) THEN WrappingSub(idx[c], Received) + 1 ELSE 0]

\* Every step of the atomic operations is a step of the FIFO or invisible to its
\* users, whoever is preempted, panics or is killed in between.
ImplementsFifo == Fifo!Spec

\* The comment in try_push: "At least one of the producers is guaranteed to make
\* progress", and the same in try_pop.  Callers do not put their indices back
\* and forth for ever: unless the loops empty out for good, calls leave them.
LoopProgress ==
  \A Side \in {Producers, Consumers} :
    \/ <>[](\A x \in Side : ~InLoop(x))
    \/ []<><<\E x \in Side : InLoop(x) /\ ~InLoop(x)'>>_vars

\* A dropped guard does not spin for ever on an index nobody will publish.
DropCompletes == \A x \in Procs : pc[x] = "publish" ~> pc[x] = "idle"

\* With consumers that keep polling, every message sent is received: the
\* spurious "empty" answers of try_pop never starve a waiting message.
PollingSpec == FairSpec /\ \A c \in Consumers : WF_vars(PopClaim(c))
MessagesDrain ==
  \A i \in 0 .. MaxIndex - 1 : (Published > i) ~> (Received > i)

\* The comment in try_push: "The queue is full, put back this index".  A call
\* finds no room only when every item holds an unread message, is held by a
\* producer's guard, or is wanted by a producer that is about to look.
FullWhenRefused ==
  [][\A p \in Producers :
       (PushCheck(p) /\ pc'[p] = "retract") =>
         WrappingSub(Published, Received)
           + Cardinality({q \in Producers \ {p} : Acquired(q) \/ pc[q] = "check"})
             >= ItemCount]_vars
=============================================================================
