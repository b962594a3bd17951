------------------------------- MODULE WinMutex -------------------------------
(***************************************************************************)
(* The Windows mutex (src/src/windows/sync.rs): a counter in shared memory *)
(* that every thread increments on lock and decrements on unlock, and a    *)
(* semaphore of at most one permit, on which the threads that did not find *)
(* the counter at zero wait.                                               *)
(*                                                                         *)
(* The counter is a natural number: a usize cannot count up to its maximum *)
(* before there are that many threads.                                     *)
(***************************************************************************)
EXTENDS Naturals, FiniteSets

CONSTANTS
  Threads,       \* the threads of all the processes that have the mutex
  NoThread,      \* no thread holds the mutex
  MayDie,        \* the points of the code where a thread may be killed
  MaxDeaths,     \* bound: threads that are killed
  MaxFailures    \* bound: waits that fail

PcStates == {"idle", "waiting", "held", "signal", "failed"}

ASSUME WinMutexAssumption ==
  /\ IsFiniteSet(Threads)
  /\ NoThread \notin Threads
  /\ MayDie \subseteq PcStates
  /\ MaxDeaths \in Nat
  /\ MaxFailures \in Nat

VARIABLES
  atomic,     \* the counter
  semaphore,  \* the permits of the semaphore
  pc,         \* where each thread is in lock, with its guard, or in its drop
  alive,      \* threads that have not been killed
  failures    \* waits that failed

vars == <<atomic, semaphore, pc, alive, failures>>

At(t, state) == t \in alive /\ pc[t] = state
Goto(t, state) == pc' = [pc EXCEPT ![t] = state]

\* The counter and the semaphore as new_with_memory leaves them.
Init ==
  /\ atomic = 0
  /\ semaphore = 0
  /\ pc = [t \in Threads |-> "idle"]
  /\ alive = Threads
  /\ failures = 0

\* lock: fetch_add on the counter.
Lock(t) ==
  /\ At(t, "idle")
  /\ atomic' = atomic + 1
  /\ Goto(t, IF atomic = 0 THEN "held" ELSE "waiting")
  /\ UNCHANGED <<semaphore, alive, failures>>

\* Mutant: a woken thread leaves the permit to the next one.
WakeKeepsPermit(t) ==
  /\ At(t, "waiting")
  /\ semaphore > 0
  /\ Goto(t, "held")
  /\ UNCHANGED <<atomic, semaphore, alive, failures>>

\* lock: WaitForSingleObject returns WAIT_OBJECT_0.
Wake(t) ==
  /\ At(t, "waiting")
  /\ semaphore > 0
  /\ semaphore' = semaphore - 1
  /\ Goto(t, "held")
  /\ UNCHANGED <<atomic, alive, failures>>

\* lock: WaitForSingleObject fails and the thread panics; its increment stays.
WaitFails(t) ==
  /\ At(t, "waiting")
  /\ failures < MaxFailures
  /\ failures' = failures + 1
  /\ Goto(t, "idle")
  /\ UNCHANGED <<atomic, semaphore, alive>>

\* Mutant: the count after the fetch_sub decides, as sub_and_fetch would return it.
UnlockSubFetch(t) ==
  /\ At(t, "held")
  /\ atomic' = atomic - 1
  /\ Goto(t, IF atomic - 1 <= 1 THEN "idle" ELSE "signal")
  /\ UNCHANGED <<semaphore, alive, failures>>

\* Mutant: every unlock releases the semaphore.
UnlockAlwaysSignals(t) ==
  /\ At(t, "held")
  /\ atomic' = atomic - 1
  /\ Goto(t, "signal")
  /\ UNCHANGED <<semaphore, alive, failures>>

\* MutexGuard::drop: fetch_sub on the counter.  A counter of zero would wrap, and
\* the thread panic; the model ends there.
Unlock(t) ==
  /\ At(t, "held")
  /\ atomic' = IF atomic = 0 THEN 0 ELSE atomic - 1
  /\ Goto(t, IF atomic = 0 THEN "failed"
             ELSE IF atomic = 1 THEN "idle" ELSE "signal")
  /\ UNCHANGED <<semaphore, alive, failures>>

\* MutexGuard::drop: ReleaseSemaphore, which fails at the semaphore's maximum.
Signal(t) ==
  /\ At(t, "signal")
  /\ semaphore' = IF semaphore = 0 THEN 1 ELSE semaphore
  /\ Goto(t, IF semaphore = 0 THEN "idle" ELSE "failed")
  /\ UNCHANGED <<atomic, alive, failures>>

\* The thread's process is killed; its increment of the counter stays.
Kill(t) ==
  /\ t \in alive
  /\ pc[t] \in MayDie
  /\ Cardinality(Threads \ alive) < MaxDeaths
  /\ alive' = alive \ {t}
  /\ UNCHANGED <<atomic, semaphore, pc, failures>>

Next ==
  \E t \in Threads :
    Lock(t) \/ Wake(t) \/ WaitFails(t) \/ Unlock(t) \/ Signal(t) \/ Kill(t)

Spec == Init /\ [][Next]_vars

(***************************************************************************)
(* Running threads finish lock, drop their guards and finish the drop.     *)
(* Windows serves the waiters of a semaphore in the order they came, so a  *)
(* waiter that finds a permit again and again is not passed over for ever. *)
(***************************************************************************)
Fairness ==
  \A t \in Threads :
    /\ WF_vars(Unlock(t)) /\ WF_vars(Signal(t))
    /\ SF_vars(Wake(t))

FairSpec == Spec /\ Fairness
-----------------------------------------------------------------------------
(***************************************************************************)
(* Properties                                                              *)
(***************************************************************************)

\* The program counters, the counter and the semaphore have values of the code.
TypeOK ==
  /\ atomic \in Nat
  /\ semaphore \in {0, 1}
  /\ pc \in [Threads -> PcStates]
  /\ alive \subseteq Threads
  /\ failures \in Nat

\* Two threads never have a guard at once.
MutualExclusion ==
  \A t, u \in Threads : pc[t] = "held" /\ pc[u] = "held" => t = u

\* Whoever holds, hands over or has left the mutex's permit in the semaphore.
Permits ==
  Cardinality({t \in Threads : pc[t] \in {"held", "signal"}}) + semaphore

\* The two panics of MutexGuard::drop are unreachable: the counter is never zero
\* under a guard ("mutex shared memory in invalid state"), and ReleaseSemaphore
\* never finds the semaphore full, whoever died or failed to wait before.
NeverFails == \A t \in Threads : pc[t] # "failed"

\* No wakeup is lost and none is made up: while anybody waits there is exactly
\* one permit, with a thread that holds the mutex, with one that is about to
\* release the semaphore, or in the semaphore.
OnePermit ==
  (\E t \in Threads : pc[t] = "waiting") => Permits = 1

\* The mutex is a lock: it implements what sync.rs relies on.
Holder ==
  IF \E t \in Threads : pc[t] = "held"
  THEN CHOOSE t \in Threads : pc[t] = "held"
  ELSE NoThread
Promise == INSTANCE PlatformLock WITH holder <- Holder
ImplementsLock == Promise!Spec

\* Everyone who waits gets the mutex, even if other waiters were killed or their
\* wait failed and left the counter too high.  Only a thread that is killed with
\* the permit, as the holder or before it releases the semaphore, ends that.
PermitLost == \E t \in Threads \ alive : pc[t] \in {"held", "signal"}
WaitersServed ==
  \A t \in Threads :
    pc[t] = "waiting" ~> (pc[t] # "waiting" \/ t \notin alive \/ PermitLost)
=============================================================================
