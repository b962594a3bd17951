------------------------------ MODULE UnixMutex ------------------------------
(***************************************************************************)
(* The mutex of src/src/sync.rs on a unix system (src/src/unix/sync.rs).   *)
(* In shared memory there are a count of the instances that refer to the   *)
(* mutex, a pthread mutex, which the last instance to be dropped destroys, *)
(* and a flag that says whether a holder has panicked.  A MutexHandle on   *)
(* its way to another process is not counted.                              *)
(*                                                                         *)
(* An instance is used by one thread: the first came from new_with_memory, *)
(* the others are made from a handle.                                      *)
(***************************************************************************)
EXTENDS Naturals, FiniteSets

CONSTANTS
  Instances,     \* possible instances of the mutex, in any process
  First,         \* the instance new_with_memory returns
  NoInstance,    \* the holder of a free pthread mutex
  AttachLate,    \* may from_handle be called when no instance is left?
  MaxDeaths      \* bound: processes killed

ASSUME UnixMutexAssumption ==
  /\ IsFiniteSet(Instances)
  /\ First \in Instances
  /\ NoInstance \notin Instances
  /\ AttachLate \in BOOLEAN
  /\ MaxDeaths \in Nat

VARIABLES
  refcount,      \* the count in shared memory
  pthread_mutex, \* "ready" or "destroyed"
  poison,        \* the flag
  holder,        \* who has locked the pthread mutex
  pc,            \* what the user of each instance is doing
  verdict,       \* what lock returned with the guard: "ok" or "poisoned"
  dead,          \* instances whose process was killed
  used,          \* history: somebody has locked the mutex
  reset,         \* history: somebody attached after that
  broken         \* history: somebody panicked with a guard

history == <<used, reset, broken>>
vars == <<refcount, pthread_mutex, poison, holder, pc, verdict, dead, history>>

\* A user that has an instance, from the count's increment to its decrement.
Using == {"idle", "check", "guard", "poison", "unlock", "undefined"}
PcStates == Using \cup {"absent", "attach", "destroy"}

At(i, state) == i \notin dead /\ pc[i] = state
Goto(i, state) == pc' = [pc EXCEPT ![i] = state]
Live == {i \in Instances : pc[i] \in Using}

\* new_with_memory has stored false in the flag and 1 in the count, and has
\* initialised the pthread mutex.
Init ==
  /\ refcount = 1
  /\ pthread_mutex = "ready"
  /\ poison = FALSE
  /\ holder = NoInstance
  /\ pc = [i \in Instances |-> IF i = First THEN "idle" ELSE "absent"]
  /\ verdict = [i \in Instances |-> "none"]
  /\ dead = {}
  /\ used = FALSE /\ reset = FALSE /\ broken = FALSE

\* from_handle: with_inner stores false in the flag of the existing mutex.
WithInner(i) ==
  /\ At(i, "absent")
  /\ AttachLate \/ Live # {}
  /\ poison' = FALSE
  /\ reset' = (reset \/ used)
  /\ Goto(i, "attach")
  /\ UNCHANGED <<refcount, pthread_mutex, holder, verdict, dead, used, broken>>

\* Mutant: an instance made from a handle is not counted.
FromHandleUncounted(i) ==
  /\ At(i, "attach")
  /\ Goto(i, "idle")
  /\ UNCHANGED <<refcount, pthread_mutex, poison, holder, verdict, dead, history>>

\* from_handle of the platform: fetch_add on the count, whatever it is.
FromHandle(i) ==
  /\ At(i, "attach")
  /\ refcount' = refcount + 1
  /\ Goto(i, "idle")
  /\ UNCHANGED <<pthread_mutex, poison, holder, verdict, dead, history>>

\* lock: pthread_mutex_lock returns.  Locking a destroyed mutex is undefined.
Lock(i) ==
  /\ At(i, "idle")
  /\ holder = NoInstance \/ pthread_mutex = "destroyed"
  /\ Goto(i, IF pthread_mutex = "ready" THEN "check" ELSE "undefined")
  /\ holder' = IF pthread_mutex = "ready" THEN i ELSE holder
  /\ used' = TRUE
  /\ UNCHANGED <<refcount, pthread_mutex, poison, verdict, dead, reset, broken>>

\* lock: the flag decides between Ok(guard) and Err(guard).
CheckPoison(i) ==
  /\ At(i, "check")
  /\ verdict' = [verdict EXCEPT ![i] = IF poison THEN "poisoned" ELSE "ok"]
  /\ Goto(i, "guard")
  /\ UNCHANGED <<refcount, pthread_mutex, poison, holder, dead, history>>

\* Mutant: the pthread mutex is unlocked before the flag is stored.
DropGuardUnlocksFirst(i, panicking) ==
  /\ At(i, "guard")
  /\ broken' = (broken \/ panicking)
  /\ holder' = NoInstance
  /\ Goto(i, IF panicking THEN "poison" ELSE "unlock")
  /\ UNCHANGED <<refcount, pthread_mutex, poison, verdict, dead, used, reset>>

\* The guard is dropped, by a panic's unwinding or not.
DropGuard(i, panicking) ==
  /\ At(i, "guard")
  /\ broken' = (broken \/ panicking)
  /\ Goto(i, IF panicking THEN "poison" ELSE "unlock")
  /\ UNCHANGED <<refcount, pthread_mutex, poison, holder, verdict, dead, used, reset>>

\* MutexGuard::drop, when panicking.
StorePoison(i) ==
  /\ At(i, "poison")
  /\ poison' = TRUE
  /\ Goto(i, "unlock")
  /\ UNCHANGED <<refcount, pthread_mutex, holder, verdict, dead, history>>

\* Then the field _inner is dropped: pthread_mutex_unlock.
Unlock(i) ==
  /\ At(i, "unlock")
  /\ holder' = NoInstance
  /\ verdict' = [verdict EXCEPT ![i] = "none"]
  /\ Goto(i, "idle")
  /\ UNCHANGED <<refcount, pthread_mutex, poison, dead, history>>

\* Unless a handle may come late, users keep the last instance for those that
\* are attaching.
Needed(i) ==
  ~AttachLate /\ Live = {i} /\ \E j \in Instances : At(j, "attach")

\* Mutant: the result of fetch_sub is taken for the new count.
DropInstanceEarly(i) ==
  /\ At(i, "idle")
  /\ ~Needed(i)
  /\ refcount' = refcount - 1
  /\ Goto(i, IF refcount - 1 = 1 THEN "destroy" ELSE "absent")
  /\ UNCHANGED <<pthread_mutex, poison, holder, verdict, dead, history>>

\* Mutex::drop: fetch_sub on the count.  A guard borrows its mutex, so an
\* instance is never dropped under one.
DropInstance(i) ==
  /\ At(i, "idle")
  /\ ~Needed(i)
  /\ refcount' = refcount - 1
  /\ Goto(i, IF refcount = 1 THEN "destroy" ELSE "absent")
  /\ UNCHANGED <<pthread_mutex, poison, holder, verdict, dead, history>>

\* Mutex::drop: the last one destroys the pthread mutex.
Destroy(i) ==
  /\ At(i, "destroy")
  /\ pthread_mutex' = "destroyed"
  /\ Goto(i, "absent")
  /\ UNCHANGED <<refcount, poison, holder, verdict, dead, history>>

\* A process is killed: its instance stays counted, its lock stays locked.
Kill(i) ==
  /\ i \notin dead
  /\ pc[i] # "absent"
  /\ Cardinality(dead) < MaxDeaths
  /\ dead' = dead \cup {i}
  /\ UNCHANGED <<refcount, pthread_mutex, poison, holder, pc, verdict, history>>

Next ==
  \E i \in Instances :
    \/ WithInner(i) \/ FromHandle(i) \/ Lock(i) \/ CheckPoison(i)
    \/ \E panicking \in BOOLEAN : DropGuard(i, panicking)
    \/ StorePoison(i) \/ Unlock(i)
    \/ DropInstance(i) \/ Destroy(i) \/ Kill(i)

Spec == Init /\ [][Next]_vars
-----------------------------------------------------------------------------
(***************************************************************************)
(* Properties                                                              *)
(***************************************************************************)

\* Every variable has a value the code can give it; the count never goes below
\* zero, where a usize would wrap.
TypeOK ==
  /\ refcount \in Nat
  /\ pthread_mutex \in {"ready", "destroyed"}
  /\ holder \in Instances \cup {NoInstance}
  /\ pc \in [Instances -> PcStates]
  /\ verdict \in [Instances -> {"none", "ok", "poisoned"}]
  /\ dead \subseteq Instances
  /\ {poison, used, reset, broken} \subseteq BOOLEAN

\* Every instance refers to a working mutex: the pthread mutex is not destroyed
\* while an instance made by new_with_memory or from_handle exists.
InstancesWork == Live # {} => pthread_mutex = "ready"

\* Somebody is about to destroy the pthread mutex only when nobody else refers
\* to it or has it locked, and only one thread ever is.
DestroyedAlone ==
  \A i \in Instances : pc[i] = "destroy" =>
    /\ Live = {} /\ holder = NoInstance
    /\ \A j \in Instances \ {i} : pc[j] # "destroy"

\* MutexGuard::drop tells of a panic "both to this instance and possible other
\* instances in different processes": nobody gets Ok from lock once the data
\* under the mutex may be broken.
PanicReported ==
  \A i \in Instances : (pc[i] = "guard" /\ broken) => verdict[i] = "poisoned"

\* That holds as long as nobody attached to the mutex while it was in use.
PanicKept == ~reset => PanicReported
=============================================================================
