--------------------------- MODULE UnixMutexProofs ---------------------------
(***************************************************************************)
(* Proofs about the unix mutex and its poison flag, for any number of      *)
(* instances and of killed processes.  What concerns the panic flag holds  *)
(* whenever handles are used; what concerns the destruction of the pthread *)
(* mutex supposes that no handle is used after the last instance is gone.  *)
(***************************************************************************)
EXTENDS UnixMutex, FiniteSetTheorems, TLAPS

\* From pthread_mutex_lock's return to pthread_mutex_unlock.
Locked == {"check", "guard", "poison", "unlock"}

\* The count is the number of instances.
CountsLive == refcount = Cardinality(Live)

\* The holder is the instance whose user is between lock and unlock.
HolderLocked == \A i \in Instances : pc[i] \in Locked <=> holder = i

\* Nobody panics or holds the mutex before it was first locked.
UsedFirst ==
  /\ broken => used
  /\ \A i \in Instances : pc[i] \in Locked => used

\* A panic is in the flag, or the one who panicked still has the mutex and is
\* about to store it, unless somebody attached after the first lock.
PanicStored ==
  (broken /\ ~reset) => (poison \/ \E i \in Instances : pc[i] = "poison")

IndInv ==
  TypeOK /\ CountsLive /\ HolderLocked /\ UsedFirst /\ PanicStored /\ PanicKept

\* Somebody who attaches finds the instance the others keep for him.
KeptForAttacher ==
  (\E j \in Instances : At(j, "attach")) => Live # {}

\* After the last instance is gone nobody comes back.
DestroyInv == KeptForAttacher /\ DestroyedAlone /\ InstancesWork
-----------------------------------------------------------------------------
\* The instances are finitely many, and one more or one less changes their
\* number by one; the only one is the only one.
LEMMA LiveCount ==
  /\ IsFiniteSet(Live) /\ Cardinality(Live) \in Nat
  /\ \A i \in Instances \ Live : Cardinality(Live \cup {i}) = Cardinality(Live) + 1
  /\ \A i \in Live : Cardinality(Live \ {i}) = Cardinality(Live) - 1
  /\ \A i \in Live : Cardinality(Live) # 0
  /\ \A i \in Live : Cardinality(Live) = 1 => Live = {i}
<1>1. IsFiniteSet(Live)
  BY UnixMutexAssumption, FS_Subset DEF Live
<1>2. Cardinality(Live) = 1 => \E x : Live = {x}
  BY <1>1, FS_Singleton
<1>3. Cardinality(Live) = 0 <=> Live = {}
  BY <1>1, FS_EmptySet
<1>4. /\ Cardinality(Live) \in Nat
      /\ \A i \in Instances \ Live : Cardinality(Live \cup {i}) = Cardinality(Live) + 1
      /\ \A i \in Live : Cardinality(Live \ {i}) = Cardinality(Live) - 1
  BY <1>1, FS_CardinalityType, FS_AddElement, FS_RemoveElement
<1> QED
  BY <1>1, <1>2, <1>3, <1>4

\* How a user's move changes the set of instances.
LEMMA LiveMove ==
  ASSUME TypeOK, NEW i \in Instances, NEW state \in PcStates, Goto(i, state)
  PROVE  /\ state \in Using => Live' = Live \cup {i}
         /\ state \notin Using => Live' = Live \ {i}
BY DEF TypeOK, Goto, Live

\* The initial state satisfies the invariant.
LEMMA IndInvInit == ASSUME Init PROVE IndInv
<1>1. Live = {First}
  BY UnixMutexAssumption DEF Init, Live, Using
<1>2. CountsLive
  BY <1>1, FS_Singleton DEF Init, CountsLive
<1>3. TypeOK
  BY UnixMutexAssumption DEF Init, TypeOK, PcStates, Using
<1> QED
  BY <1>2, <1>3, UnixMutexAssumption
  DEF Init, IndInv, HolderLocked, UsedFirst, PanicStored, PanicKept,
      PanicReported, Locked

\* Every step preserves the invariant.
LEMMA IndInvNext == ASSUME IndInv, [Next]_vars PROVE IndInv'
<1> USE DEF IndInv
<1>C. /\ Cardinality(Live) \in Nat
      /\ \A i \in Instances \ Live : Cardinality(Live \cup {i}) = Cardinality(Live) + 1
      /\ \A i \in Live : Cardinality(Live \ {i}) = Cardinality(Live) - 1
      /\ \A i \in Live : Cardinality(Live) # 0
  BY LiveCount
<1>N. NoInstance \notin Instances
  BY UnixMutexAssumption
<1>L. ASSUME NEW i \in Instances, NEW state \in PcStates, Goto(i, state),
             pc[i] \in Using <=> state \in Using, refcount' = refcount
      PROVE  CountsLive'
  <2>1. Live' = Live
    BY <1>L, LiveMove DEF TypeOK, Live
  <2> QED
    BY <1>L, <2>1 DEF CountsLive
<1> DEFINE Rest == HolderLocked /\ UsedFirst /\ PanicStored /\ PanicKept
<1> USE DEF HolderLocked, UsedFirst, PanicStored, PanicKept, PanicReported,
            Locked, history
<1>1. ASSUME NEW i \in Instances, WithInner(i) PROVE IndInv'
  <2>1. TypeOK'
    BY <1>1 DEF WithInner, At, Goto, TypeOK, PcStates
  <2>2. CountsLive'
    BY <1>1, <1>L DEF WithInner, At, Using, PcStates
  <2>3. Rest'
    BY <1>1 DEF WithInner, At, Goto, TypeOK
  <2> QED
    BY <2>1, <2>2, <2>3
<1>2. ASSUME NEW i \in Instances, FromHandle(i) PROVE IndInv'
  <2>1. TypeOK'
    BY <1>2 DEF FromHandle, At, Goto, TypeOK, PcStates, Using
  <2>2. i \in Instances \ Live /\ Live' = Live \cup {i}
    BY <1>2, LiveMove DEF FromHandle, At, Live, Using, PcStates
  <2>3. CountsLive'
    BY <1>2, <2>2, <1>C DEF FromHandle, CountsLive
  <2>4. Rest'
    BY <1>2 DEF FromHandle, At, Goto, TypeOK
  <2> QED
    BY <2>1, <2>3, <2>4
<1>3. ASSUME NEW i \in Instances, Lock(i) PROVE IndInv'
  <2>1. TypeOK'
    BY <1>3 DEF Lock, At, Goto, TypeOK, PcStates, Using
  <2>2. CountsLive'
    BY <1>3, <1>L DEF Lock, At, Using, PcStates
  <2>3. Rest'
    BY <1>3, <1>N DEF Lock, At, Goto, TypeOK
  <2> QED
    BY <2>1, <2>2, <2>3
<1>4. ASSUME NEW i \in Instances, CheckPoison(i) PROVE IndInv'
  <2>1. TypeOK'
    BY <1>4 DEF CheckPoison, At, Goto, TypeOK, PcStates, Using
  <2>2. CountsLive'
    BY <1>4, <1>L DEF CheckPoison, At, Using, PcStates
  <2>3. Rest'
    BY <1>4 DEF CheckPoison, At, Goto, TypeOK
  <2> QED
    BY <2>1, <2>2, <2>3
<1>5. ASSUME NEW i \in Instances, NEW panicking \in BOOLEAN,
             DropGuard(i, panicking)
      PROVE  IndInv'
  <2>1. TypeOK'
    BY <1>5 DEF DropGuard, At, Goto, TypeOK, PcStates, Using
  <2>2. CountsLive'
    BY <1>5, <1>L DEF DropGuard, At, Using, PcStates
  <2>3. Rest'
    BY <1>5 DEF DropGuard, At, Goto, TypeOK
  <2> QED
    BY <2>1, <2>2, <2>3
<1>6. ASSUME NEW i \in Instances, StorePoison(i) PROVE IndInv'
  <2>1. TypeOK'
    BY <1>6 DEF StorePoison, At, Goto, TypeOK, PcStates, Using
  <2>2. CountsLive'
    BY <1>6, <1>L DEF StorePoison, At, Using, PcStates
  <2>3. Rest'
    BY <1>6 DEF StorePoison, At, Goto, TypeOK
  <2> QED
    BY <2>1, <2>2, <2>3
<1>7. ASSUME NEW i \in Instances, Unlock(i) PROVE IndInv'
  <2>1. TypeOK'
    BY <1>7 DEF Unlock, At, Goto, TypeOK, PcStates, Using
  <2>2. CountsLive'
    BY <1>7, <1>L DEF Unlock, At, Using, PcStates
  <2>3. Rest'
    BY <1>7, <1>N DEF Unlock, At, Goto, TypeOK
  <2> QED
    BY <2>1, <2>2, <2>3
<1>8. ASSUME NEW i \in Instances, DropInstance(i) PROVE IndInv'
  <2>1. i \in Live
    BY <1>8 DEF DropInstance, At, Live, Using
  <2>2. Live' = Live \ {i}
    BY <1>8, LiveMove DEF DropInstance, At, Using, PcStates
  <2>3. CountsLive'
    BY <1>8, <2>1, <2>2, <1>C DEF DropInstance, CountsLive
  <2>4. refcount' \in Nat
    BY <1>8, <2>1, <1>C DEF DropInstance, CountsLive
  <2>5. TypeOK'
    BY <1>8, <2>4 DEF DropInstance, Goto, TypeOK, PcStates
  <2>6. Rest'
    BY <1>8 DEF DropInstance, At, Goto, TypeOK
  <2> QED
    BY <2>3, <2>5, <2>6
<1>9. ASSUME NEW i \in Instances, Destroy(i) PROVE IndInv'
  <2>1. TypeOK'
    BY <1>9 DEF Destroy, At, Goto, TypeOK, PcStates
  <2>2. CountsLive'
    BY <1>9, <1>L DEF Destroy, At, Using, PcStates
  <2>3. Rest'
    BY <1>9 DEF Destroy, At, Goto, TypeOK
  <2> QED
    BY <2>1, <2>2, <2>3
<1>10. ASSUME NEW i \in Instances, Kill(i) PROVE IndInv'
  BY <1>10 DEF Kill, TypeOK, CountsLive, Live
<1>11. ASSUME UNCHANGED vars PROVE IndInv'
  BY <1>11 DEF vars, TypeOK, CountsLive, Live
<1> QED
  BY <1>1, <1>2, <1>3, <1>4, <1>5, <1>6, <1>7, <1>8, <1>9, <1>10, <1>11
  DEF Next

\* The invariant holds in every state.
LEMMA Invariance == Spec => []IndInv
<1>1. Init => IndInv
  BY IndInvInit
<1>2. IndInv /\ [Next]_vars => IndInv'
  BY IndInvNext
<1> QED
  BY <1>1, <1>2, PTL DEF Spec
-----------------------------------------------------------------------------
\* The count never goes below zero, where a usize would wrap, even when handles
\* are used after the last instance is gone.
THEOREM TypeHolds == Spec => []TypeOK
<1>1. IndInv => TypeOK
  BY DEF IndInv
<1> QED
  BY <1>1, Invariance, PTL

\* As long as nobody attached to the mutex while it was in use, nobody gets Ok
\* from lock after a holder panicked: the flag is stored before the unlock.
THEOREM PanicKeptHolds == Spec => []PanicKept
<1>1. IndInv => PanicKept
  BY DEF IndInv
<1> QED
  BY <1>1, Invariance, PTL
-----------------------------------------------------------------------------
\* The initial state has an instance and a working mutex.
LEMMA DestroyInit == ASSUME Init PROVE DestroyInv
<1>1. Live = {First}
  BY UnixMutexAssumption DEF Init, Live, Using
<1> QED
  BY <1>1 DEF Init, DestroyInv, KeptForAttacher, DestroyedAlone, InstancesWork, At

\* A move between two states with an instance, or two without one.
LEMMA SameLive ==
  ASSUME TypeOK, NEW i \in Instances, NEW state \in PcStates, Goto(i, state),
         pc[i] \in Using <=> state \in Using
  PROVE  Live' = Live
BY LiveMove DEF TypeOK, Live

\* Every step preserves it, when no handle is used late.
LEMMA DestroyNext ==
  ASSUME ~AttachLate, IndInv, DestroyInv, [Next]_vars
  PROVE  DestroyInv'
<1> USE DEF IndInv
<1>N. NoInstance \notin Instances
  BY UnixMutexAssumption
<1>T. TypeOK'
  BY IndInvNext
<1>U. \A i \in Live : pthread_mutex = "ready" /\ \A j \in Instances : pc[j] # "destroy"
  BY DEF DestroyInv, DestroyedAlone, InstancesWork
<1> USE DEF DestroyInv, KeptForAttacher, DestroyedAlone, InstancesWork
<1>1. ASSUME NEW i \in Instances, WithInner(i) PROVE DestroyInv'
  <2>1. Live' = Live /\ Live # {}
    BY <1>1, SameLive DEF WithInner, At, Using, PcStates
  <2> QED
    BY <1>1, <2>1, <1>U DEF WithInner, Goto, TypeOK
<1>2. ASSUME NEW i \in Instances, FromHandle(i) PROVE DestroyInv'
  <2>1. Live' = Live \cup {i} /\ Live # {}
    BY <1>2, LiveMove DEF FromHandle, At, Using, PcStates
  <2> QED
    BY <1>2, <2>1, <1>U DEF FromHandle, Goto, TypeOK
<1>3. ASSUME NEW i \in Instances, Lock(i) PROVE DestroyInv'
  <2>1. Live' = Live /\ Live # {}
    BY <1>3, SameLive DEF Lock, At, Live, Using, PcStates
  <2> QED
    BY <1>3, <2>1, <1>U DEF Lock, Goto, TypeOK
<1>4. ASSUME NEW i \in Instances, CheckPoison(i) PROVE DestroyInv'
  <2>1. Live' = Live /\ Live # {}
    BY <1>4, SameLive DEF CheckPoison, At, Live, Using, PcStates
  <2> QED
    BY <1>4, <2>1, <1>U DEF CheckPoison, Goto, TypeOK
<1>5. ASSUME NEW i \in Instances, NEW panicking \in BOOLEAN,
             DropGuard(i, panicking)
      PROVE  DestroyInv'
  <2>1. Live' = Live /\ Live # {}
    BY <1>5, SameLive DEF DropGuard, At, Live, Using, PcStates
  <2> QED
    BY <1>5, <2>1, <1>U DEF DropGuard, Goto, TypeOK
<1>6. ASSUME NEW i \in Instances, StorePoison(i) PROVE DestroyInv'
  <2>1. Live' = Live /\ Live # {}
    BY <1>6, SameLive DEF StorePoison, At, Live, Using, PcStates
  <2> QED
    BY <1>6, <2>1, <1>U DEF StorePoison, Goto, TypeOK
<1>7. ASSUME NEW i \in Instances, Unlock(i) PROVE DestroyInv'
  <2>1. Live' = Live /\ Live # {}
    BY <1>7, SameLive DEF Unlock, At, Live, Using, PcStates
  <2> QED
    BY <1>7, <2>1, <1>U DEF Unlock, Goto, TypeOK
<1>8. ASSUME NEW i \in Instances, DropInstance(i) PROVE DestroyInv'
  <2>1. i \in Live /\ Live' = Live \ {i}
    BY <1>8, LiveMove DEF DropInstance, At, Live, Using, PcStates
  <2>2. CASE refcount = 1
    <3>1. Live = {i} /\ Live' = {}
      BY <2>1, <2>2, LiveCount DEF CountsLive
    <3>2. \A j \in Instances : ~At(j, "attach")
      BY <1>8, <3>1 DEF DropInstance, Needed
    <3>3. \A j \in Instances : ~At(j, "attach")'
      BY <1>8, <2>2, <3>2 DEF DropInstance, Goto, At, TypeOK
    <3>4. holder = NoInstance
      BY <1>8, <3>1 DEF DropInstance, At, HolderLocked, Locked, Live, Using, TypeOK
    <3> QED
      BY <1>8, <2>1, <2>2, <3>1, <3>3, <3>4, <1>U DEF DropInstance, Goto, TypeOK
  <2>3. CASE refcount # 1
    <3>1. Live # {i}
      BY <2>3, FS_Singleton DEF CountsLive
    <3>2. Live' # {}
      BY <2>1, <3>1
    <3> QED
      BY <1>8, <2>1, <2>3, <3>2, <1>U DEF DropInstance, Goto, TypeOK
  <2> QED
    BY <2>2, <2>3
<1>9. ASSUME NEW i \in Instances, Destroy(i) PROVE DestroyInv'
  <2>1. Live' = Live /\ Live = {}
    BY <1>9, SameLive DEF Destroy, At, Using, PcStates
  <2> QED
    BY <1>9, <2>1 DEF Destroy, Goto, At, TypeOK
<1>10. ASSUME NEW i \in Instances, Kill(i) PROVE DestroyInv'
  BY <1>10 DEF Kill, Live, At
<1>11. ASSUME UNCHANGED vars PROVE DestroyInv'
  BY <1>11 DEF vars, Live, At
<1> QED
  BY <1>1, <1>2, <1>3, <1>4, <1>5, <1>6, <1>7, <1>8, <1>9, <1>10, <1>11
  DEF Next

\* It holds in every state, when no handle is used late.
LEMMA DestroyInvariance ==
  ASSUME ~AttachLate
  PROVE  Spec => []DestroyInv
<1>1. Init => DestroyInv
  BY DestroyInit
<1>2. IndInv /\ DestroyInv /\ [Next]_vars => DestroyInv'
  BY DestroyNext
<1> QED
  BY <1>1, <1>2, Invariance, PTL DEF Spec

\* The pthread mutex is not destroyed while an instance exists, however many
\* processes share it and die, if no handle is used after the last instance went.
THEOREM InstancesWorkHolds ==
  ASSUME ~AttachLate
  PROVE  Spec => []InstancesWork
<1>1. DestroyInv => InstancesWork
  BY DEF DestroyInv
<1> QED
  BY <1>1, DestroyInvariance, PTL

\* Under the same condition the one who destroys the pthread mutex is alone: the
\* mutex is not locked, nobody refers to it and nobody else destroys it.
THEOREM DestroyedAloneHolds ==
  ASSUME ~AttachLate
  PROVE  Spec => []DestroyedAlone
<1>1. DestroyInv => DestroyedAlone
  BY DEF DestroyInv
<1> QED
  BY <1>1, DestroyInvariance, PTL
=============================================================================
