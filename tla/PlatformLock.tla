----------------------------- MODULE PlatformLock -----------------------------
(***************************************************************************)
(* What platform::Mutex promises sync.rs on every platform: at most one    *)
(* thread, in any process, has the lock.  A thread that is killed while it *)
(* has the lock never gives it back.                                       *)
(***************************************************************************)
CONSTANTS
  Threads,   \* the threads of all the processes that map the mutex
  NoThread   \* the holder of a free mutex

VARIABLE holder

Init == holder = NoThread

Acquire(t) == holder = NoThread /\ holder' = t
Release(t) == holder = t /\ holder' = NoThread

Next == \E t \in Threads : Acquire(t) \/ Release(t)

Spec == Init /\ [][Next]_holder
=============================================================================
