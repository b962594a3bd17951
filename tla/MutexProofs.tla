----------------------------- MODULE MutexProofs -----------------------------
(***************************************************************************)
(* Proofs about the Windows mutex, for every number of threads, deaths and *)
(* failed waits.                                                           *)
(***************************************************************************)
EXTENDS WinMutex, FiniteSetTheorems, TLAPS

\* A thread that holds the mutex or is about to release the semaphore.
HasPermit(t) == pc[t] \in {"held", "signal"}

\* There is one permit: with one thread, or in the semaphore.
Unique ==
  /\ \A t, u \in Threads : HasPermit(t) /\ HasPermit(u) => t = u
  /\ \A t \in Threads : HasPermit(t) => semaphore = 0

\* A counter of zero means that the permit is nowhere: the mutex is free.
FreeAtZero ==
  (semaphore = 1 \/ \E t \in Threads : HasPermit(t)) => atomic > 0

\* A counter above zero means that the permit is somewhere.
PermitExists ==
  atomic > 0 => (semaphore = 1 \/ \E t \in Threads : HasPermit(t))

\* The counter counts at least the threads that incremented it and did not
\* decrement it again; deaths and failed waits only make it larger.
Counted == {t \in Threads : pc[t] \in {"waiting", "held"}}
CountsAll == Cardinality(Counted) <= atomic

IndInv ==
  TypeOK /\ NeverFails /\ Unique /\ FreeAtZero /\ PermitExists /\ CountsAll
-----------------------------------------------------------------------------
\* Every step keeps the variables within their types.
LEMMA TypeNext == ASSUME TypeOK, [Next]_vars PROVE TypeOK'
<1> USE DEF TypeOK, At, Goto, PcStates
<1>1. ASSUME NEW t \in Threads, Lock(t) PROVE TypeOK'
  BY <1>1 DEF Lock
<1>2. ASSUME NEW t \in Threads, Wake(t) PROVE TypeOK'
  BY <1>2 DEF Wake
<1>3. ASSUME NEW t \in Threads, WaitFails(t) PROVE TypeOK'
  BY <1>3 DEF WaitFails
<1>4. ASSUME NEW t \in Threads, Unlock(t) PROVE TypeOK'
  BY <1>4 DEF Unlock
<1>5. ASSUME NEW t \in Threads, Signal(t) PROVE TypeOK'
  BY <1>5 DEF Signal
<1>6. ASSUME NEW t \in Threads, Kill(t) PROVE TypeOK'
  BY <1>6 DEF Kill
<1>7. ASSUME UNCHANGED vars PROVE TypeOK'
  BY <1>7 DEF vars
<1> HIDE DEF TypeOK, At, Goto, PcStates
<1> QED
  BY <1>1, <1>2, <1>3, <1>4, <1>5, <1>6, <1>7 DEF Next

\* The counted threads are finitely many, and adding or removing one changes
\* their number by one.
LEMMA CountedFinite ==
  /\ IsFiniteSet(Counted) /\ Cardinality(Counted) \in Nat
  /\ \A t \in Threads \ Counted :
       Cardinality(Counted \cup {t}) = Cardinality(Counted) + 1
  /\ \A t \in Counted : Cardinality(Counted \ {t}) = Cardinality(Counted) - 1
<1>1. IsFiniteSet(Counted)
  BY WinMutexAssumption, FS_Subset DEF Counted
<1> QED
  BY <1>1, FS_CardinalityType, FS_AddElement, FS_RemoveElement

\* A thread that holds the mutex while another waits is not the only one counted.
LEMMA TwoCounted ==
  ASSUME NEW t \in Counted, NEW u \in Counted, t # u
  PROVE  Cardinality(Counted) >= 2
<1>1. IsFiniteSet(Counted) /\ Cardinality(Counted \ {t}) = Cardinality(Counted) - 1
  BY CountedFinite
<1>2. u \in Counted \ {t} /\ IsFiniteSet(Counted \ {t})
  BY <1>1, FS_Subset
<1>3. Cardinality(Counted \ {t}) # 0 /\ Cardinality(Counted \ {t}) \in Nat
  BY <1>2, FS_EmptySet, FS_CardinalityType
<1> QED
  BY <1>1, <1>3, CountedFinite

\* The initial state satisfies the invariant.
LEMMA IndInvInit == ASSUME Init PROVE IndInv
<1>1. Counted = {}
  BY DEF Init, Counted
<1>2. Cardinality(Counted) = 0
  BY <1>1, FS_EmptySet
<1> QED
  BY <1>2
  DEF Init, IndInv, TypeOK, PcStates, NeverFails, Unique, FreeAtZero,
      PermitExists, CountsAll, HasPermit

\* Every step preserves the invariant.
LEMMA IndInvNext == ASSUME IndInv, [Next]_vars PROVE IndInv'
<1>T. TypeOK'
  BY TypeNext DEF IndInv
<1>C. /\ Cardinality(Counted) \in Nat
      /\ \A t \in Threads \ Counted :
           Cardinality(Counted \cup {t}) = Cardinality(Counted) + 1
      /\ \A t \in Counted : Cardinality(Counted \ {t}) = Cardinality(Counted) - 1
  BY CountedFinite
<1> USE DEF IndInv, HasPermit
<1>1. ASSUME NEW t \in Threads, Lock(t) PROVE IndInv'
  <2>1. t \notin Counted /\ Counted' = Counted \cup {t}
    BY <1>1 DEF Lock, At, Goto, Counted, TypeOK
  <2>2. CountsAll'
    BY <1>1, <1>C, <2>1 DEF Lock, CountsAll, TypeOK
  <2>3. Unique' /\ FreeAtZero' /\ PermitExists' /\ NeverFails'
    BY <1>1
    DEF Lock, At, Goto, TypeOK, Unique, FreeAtZero, PermitExists, NeverFails
  <2> QED
    BY <1>T, <2>2, <2>3
<1>2. ASSUME NEW t \in Threads, Wake(t) PROVE IndInv'
  <2>1. Counted' = Counted
    BY <1>2 DEF Wake, At, Goto, Counted, TypeOK
  <2>2. CountsAll'
    BY <1>2, <2>1 DEF Wake, CountsAll
  <2>3. Unique' /\ FreeAtZero' /\ PermitExists' /\ NeverFails'
    BY <1>2
    DEF Wake, At, Goto, TypeOK, Unique, FreeAtZero, PermitExists, NeverFails
  <2> QED
    BY <1>T, <2>2, <2>3
<1>3. ASSUME NEW t \in Threads, WaitFails(t) PROVE IndInv'
  <2>1. t \in Counted /\ Counted' = Counted \ {t}
    BY <1>3 DEF WaitFails, At, Goto, Counted, TypeOK
  <2>2. CountsAll'
    BY <1>3, <1>C, <2>1 DEF WaitFails, CountsAll, TypeOK
  <2>3. Unique' /\ FreeAtZero' /\ PermitExists' /\ NeverFails'
    BY <1>3
    DEF WaitFails, At, Goto, TypeOK, Unique, FreeAtZero, PermitExists, NeverFails
  <2> QED
    BY <1>T, <2>2, <2>3
<1>4. ASSUME NEW t \in Threads, Unlock(t) PROVE IndInv'
  <2>1. t \in Counted /\ Counted' = Counted \ {t}
    BY <1>4 DEF Unlock, At, Goto, Counted, TypeOK
  <2>2. atomic > 0
    BY <1>4 DEF Unlock, At, FreeAtZero
  <2>3. CountsAll'
    BY <1>4, <1>C, <2>1, <2>2 DEF Unlock, CountsAll, TypeOK
  <2>4. Unique' /\ NeverFails'
    BY <1>4, <2>2 DEF Unlock, At, Goto, TypeOK, Unique, NeverFails
  <2>5. FreeAtZero' /\ PermitExists'
    BY <1>4, <2>2
    DEF Unlock, At, Goto, TypeOK, Unique, FreeAtZero, PermitExists
  <2> QED
    BY <1>T, <2>3, <2>4, <2>5
<1>5. ASSUME NEW t \in Threads, Signal(t) PROVE IndInv'
  <2>1. Counted' = Counted
    BY <1>5 DEF Signal, At, Goto, Counted, TypeOK, Unique
  <2>2. CountsAll'
    BY <1>5, <2>1 DEF Signal, CountsAll
  <2>3. Unique' /\ FreeAtZero' /\ PermitExists' /\ NeverFails'
    BY <1>5
    DEF Signal, At, Goto, TypeOK, Unique, FreeAtZero, PermitExists, NeverFails
  <2> QED
    BY <1>T, <2>2, <2>3
<1>6. ASSUME NEW t \in Threads, Kill(t) PROVE IndInv'
  BY <1>6, <1>T
  DEF Kill, Counted, CountsAll, Unique, FreeAtZero, PermitExists, NeverFails
<1>7. ASSUME UNCHANGED vars PROVE IndInv'
  BY <1>7, <1>T
  DEF vars, Counted, CountsAll, Unique, FreeAtZero, PermitExists, NeverFails
<1> HIDE DEF IndInv
<1> QED
  BY <1>1, <1>2, <1>3, <1>4, <1>5, <1>6, <1>7 DEF Next

\* The invariant holds in every state.
LEMMA Invariance == Spec => []IndInv
<1>1. Init => IndInv
  BY IndInvInit
<1>2. IndInv /\ [Next]_vars => IndInv'
  BY IndInvNext
<1> QED
  BY <1>1, <1>2, PTL DEF Spec
-----------------------------------------------------------------------------
\* No two threads, of any number of processes, ever have a guard of the Windows
\* mutex at once, whoever is killed or fails to wait.
THEOREM MutualExclusionHolds == Spec => []MutualExclusion
<1>1. IndInv => MutualExclusion
  BY DEF IndInv, Unique, HasPermit, MutualExclusion
<1> QED
  BY <1>1, Invariance, PTL

\* The two panics in MutexGuard::drop cannot happen.
THEOREM NeverFailsHolds == Spec => []NeverFails
<1>1. IndInv => NeverFails
  BY DEF IndInv
<1> QED
  BY <1>1, Invariance, PTL

\* A thread that waits is counted, so the counter is not zero.
LEMMA WaiterCounted ==
  ASSUME IndInv, NEW t \in Threads, pc[t] = "waiting"
  PROVE  atomic > 0
<1>1. Counted # {} /\ IsFiniteSet(Counted)
  BY CountedFinite DEF Counted
<1>2. Cardinality(Counted) # 0 /\ Cardinality(Counted) \in Nat
  BY <1>1, FS_EmptySet, CountedFinite
<1> QED
  BY <1>2 DEF IndInv, CountsAll, TypeOK

\* No wakeup of the Windows mutex is lost or made up, for any number of threads:
\* while a thread waits the one permit is with a thread or in the semaphore.
THEOREM OnePermitHolds == Spec => []OnePermit
<1>1. ASSUME IndInv, NEW w \in Threads, pc[w] = "waiting" PROVE Permits = 1
  <2> DEFINE Owners == {t \in Threads : pc[t] \in {"held", "signal"}}
  <2>1. semaphore = 1 \/ \E t \in Threads : HasPermit(t)
    BY <1>1, WaiterCounted DEF IndInv, PermitExists
  <2>2. CASE \E t \in Threads : HasPermit(t)
    <3>1. PICK t \in Threads : HasPermit(t)
      BY <2>2
    <3>2. Owners = {t} /\ semaphore = 0
      BY <1>1, <3>1 DEF IndInv, Unique, HasPermit
    <3>3. Cardinality(Owners) = 1
      BY <3>2, FS_Singleton
    <3> QED
      BY <3>2, <3>3 DEF Permits
  <2>3. CASE ~ \E t \in Threads : HasPermit(t)
    <3>1. Owners = {} /\ semaphore = 1
      BY <2>1, <2>3 DEF HasPermit
    <3>2. Cardinality(Owners) = 0
      BY <3>1, FS_EmptySet
    <3> QED
      BY <3>1, <3>2 DEF Permits
  <2> QED
    BY <2>2, <2>3
<1>2. IndInv => OnePermit
  BY <1>1 DEF OnePermit
<1> QED
  BY <1>2, Invariance, PTL
-----------------------------------------------------------------------------
\* The lock's holder is the thread that has the guard, or nobody.
LEMMA HolderIs ==
  ASSUME IndInv
  PROVE  /\ \A t \in Threads : pc[t] = "held" => Holder = t
         /\ (\A t \in Threads : pc[t] # "held") => Holder = NoThread
BY DEF IndInv, Unique, HasPermit, Holder

\* A step of a thread takes the lock, gives it back or leaves the holder alone.
LEMMA StepImplements ==
  ASSUME IndInv, IndInv', [Next]_vars
  PROVE  [Promise!Next]_Holder
<1>H. /\ \A t \in Threads : pc[t] = "held" => Holder = t
      /\ (\A t \in Threads : pc[t] # "held") => Holder = NoThread
  BY HolderIs
<1>P. /\ \A t \in Threads : pc'[t] = "held" => Holder' = t
      /\ (\A t \in Threads : pc'[t] # "held") => Holder' = NoThread
  BY DEF IndInv, Unique, HasPermit, Holder
<1>S. ASSUME \A t \in Threads : (pc[t] = "held") <=> (pc'[t] = "held")
      PROVE  Holder' = Holder
  BY <1>S, <1>H, <1>P
<1>A. ASSUME NEW t \in Threads, pc'[t] = "held",
             \A u \in Threads : pc[u] # "held"
      PROVE  Promise!Next
  BY <1>A, <1>H, <1>P DEF Promise!Next, Promise!Acquire
<1> USE DEF At, Goto
<1>1. ASSUME NEW t \in Threads, Lock(t) PROVE [Promise!Next]_Holder
  <2>1. CASE atomic = 0
    <3>1. \A u \in Threads : pc[u] # "held"
      BY <2>1 DEF IndInv, FreeAtZero, HasPermit
    <3> QED
      BY <1>1, <2>1, <3>1, <1>A DEF Lock, IndInv, TypeOK
  <2>2. CASE atomic # 0
    BY <1>1, <2>2, <1>S DEF Lock, IndInv, TypeOK
  <2> QED
    BY <2>1, <2>2
<1>2. ASSUME NEW t \in Threads, Wake(t) PROVE [Promise!Next]_Holder
  <2>1. \A u \in Threads : pc[u] # "held"
    BY <1>2 DEF Wake, IndInv, Unique, HasPermit
  <2> QED
    BY <1>2, <2>1, <1>A DEF Wake, IndInv, TypeOK
<1>3. ASSUME NEW t \in Threads, WaitFails(t) PROVE [Promise!Next]_Holder
  BY <1>3, <1>S DEF WaitFails, IndInv, TypeOK
<1>4. ASSUME NEW t \in Threads, Unlock(t) PROVE [Promise!Next]_Holder
  <2>1. \A u \in Threads : pc'[u] # "held"
    BY <1>4 DEF Unlock, IndInv, TypeOK, Unique, HasPermit
  <2> QED
    BY <1>4, <2>1, <1>H, <1>P DEF Unlock, Promise!Next, Promise!Release
<1>5. ASSUME NEW t \in Threads, Signal(t) PROVE [Promise!Next]_Holder
  BY <1>5, <1>S DEF Signal, IndInv, TypeOK
<1>6. ASSUME NEW t \in Threads, Kill(t) PROVE [Promise!Next]_Holder
  BY <1>6, <1>S DEF Kill
<1>7. ASSUME UNCHANGED vars PROVE [Promise!Next]_Holder
  BY <1>7, <1>S DEF vars
<1> QED
  BY <1>1, <1>2, <1>3, <1>4, <1>5, <1>6, <1>7 DEF Next

\* The Windows mutex is the lock sync.rs relies on: whatever its threads do, a
\* guard is only handed out when nobody has one.
THEOREM LockImplemented == Spec => ImplementsLock
<1>1. Init => Promise!Init
  BY DEF Init, Promise!Init, Holder
<1>2. IndInv /\ IndInv' /\ [Next]_vars => [Promise!Next]_Holder
  BY StepImplements
<1> QED
  BY <1>1, <1>2, Invariance, PTL DEF Spec, ImplementsLock, Promise!Spec
=============================================================================
