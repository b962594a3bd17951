-------------------------- MODULE ChildChannelProofs --------------------------
(***************************************************************************)
(* Proofs about the channels between a process and its children, for any   *)
(* number of threads that establish one and of processes launched besides. *)
(***************************************************************************)
EXTENDS ChildChannel, TLAPS

UnixStages == {"cloexec_local", "cloexec_remote", "guard", "restore", "close_remote"}
WindowsStages == {"clone", "modify", "close_sent", "process_handle"}
Stages == UnixStages \cup WindowsStages
          \cup {"start", "launch", "wrap", "close_local", "returned", "dropped"}

Typed ==
  /\ platform \in {"unix", "windows"}
  /\ stage \in [Threads -> Stages]
  /\ result \in [Threads -> {"ok", "error"}]
  /\ held \in [Processes -> SUBSET UNION {Things(t) : t \in Threads}]
  /\ inheritable \subseteq UNION {Things(t) : t \in Threads}
  /\ child \in [Threads -> {"none", "passed", "channel", "gone"}]
  /\ alive \subseteq Processes

\* A thread is at a step of its own platform, and its call has not failed before
\* a step that only follows a success.
OnPath(t) ==
  /\ stage[t] \in UnixStages => platform = "unix"
  /\ stage[t] \in WindowsStages => platform = "windows"
  /\ stage[t] \in {"start", "cloexec_local", "cloexec_remote", "guard", "clone",
                   "modify", "launch", "process_handle", "wrap"}
       => result[t] = "ok"

\* What the parent has of a call at each of its steps.
ParentHolds(t) ==
  /\ Local(t) \in held[Parent] =>
       /\ stage[t] \notin {"start", "dropped"}
       /\ stage[t] = "returned" => result[t] = "ok"
  /\ stage[t] \notin {"start", "dropped"} /\ result[t] = "ok"
       => Local(t) \in held[Parent]
  /\ Remote(t) \in held[Parent] =>
       \/ stage[t] \in UnixStages \cup {"clone", "modify", "launch", "close_sent"}
       \/ platform = "unix" /\ stage[t] = "wrap"
  /\ Process(t) \in held[Parent] =>
       platform = "windows" /\ stage[t] \in {"modify", "launch", "close_sent"}

\* What of it can be inherited at each of its steps.
CanInherit(t) ==
  /\ Local(t) \in inheritable => stage[t] = "cloexec_local"
  /\ Remote(t) \in inheritable =>
       \/ stage[t] \in {"cloexec_local", "cloexec_remote", "launch", "restore",
                        "close_sent"}
       \/ platform = "unix" /\ stage[t] = "wrap"
  /\ Process(t) \in inheritable =>
       platform = "windows" /\ stage[t] \in {"modify", "launch", "close_sent"}
  /\ stage[t] = "launch" => Remote(t) \in inheritable
  /\ platform = "windows" /\ stage[t] \in {"modify", "launch"}
       => Process(t) \in inheritable

CallInv(t) == OnPath(t) /\ ParentHolds(t) /\ CanInherit(t)

\* A process that does not run has nothing open.
DeadHoldNothing == \A p \in Processes \ (alive \cup {Parent}) : held[p] = {}

\* The parent's end never reaches its child, and nothing of a call reaches a
\* third process unless the call is crowded.
Inherited ==
  \A t \in Threads :
    /\ Local(t) \notin held[Child(t)]
    /\ t \notin crowded =>
         \A p \in Processes \ {Parent, Child(t)} : held[p] \cap Things(t) = {}

ProcessInv == ChildConnected /\ DeadHoldNothing /\ Inherited

IndInv == Typed /\ (\A t \in Threads : CallInv(t)) /\ ProcessInv
-----------------------------------------------------------------------------
\* The processes are different from each other ...
LEMMA ProcessNames ==
  /\ Parent \in Processes
  /\ \A t \in Threads :
       /\ Child(t) \in Processes /\ Grand(t) \in Processes
       /\ Child(t) # Parent /\ Grand(t) # Parent
  /\ \A s \in Strangers : Other(s) \in Processes /\ Other(s) # Parent
  /\ \A t, u \in Threads : Child(t) # Grand(u) /\ (Child(t) = Child(u) => t = u)
  /\ \A t \in Threads, s \in Strangers : Child(t) # Other(s)
BY DEF Processes, Parent, Child, Grand, Other

\* ... and so are the things of different calls.
LEMMA ThingNames ==
  /\ \A t \in Threads : /\ Local(t) # Remote(t) /\ Local(t) # Process(t)
                        /\ Remote(t) # Process(t)
  /\ \A t, u \in Threads : t # u => Things(t) \cap Things(u) = {}
BY DEF Things, Local, Remote, Process

\* A call is not disturbed by a step that leaves its own things alone.
LEMMA Undisturbed ==
  ASSUME NEW u \in Threads, CallInv(u), UNCHANGED platform,
         stage'[u] = stage[u], result'[u] = result[u],
         held'[Parent] \cap Things(u) = held[Parent] \cap Things(u),
         inheritable' \cap Things(u) = inheritable \cap Things(u)
  PROVE  CallInv(u)'
<1>1. /\ Local(u) \in Things(u)
      /\ Remote(u) \in Things(u)
      /\ Process(u) \in Things(u)
  BY DEF Things
<1> QED
  BY <1>1 DEF CallInv, OnPath, ParentHolds, CanInherit

\* A step of a call touches the parent's things of that call and nothing else.
CallStep(t) ==
  /\ Typed'
  /\ Unlaunched
  /\ \A p \in Processes \ {Parent} : held'[p] = held[p]
  /\ \A u \in Threads \ {t} :
       /\ stage'[u] = stage[u]
       /\ result'[u] = result[u]
       /\ held'[Parent] \cap Things(u) = held[Parent] \cap Things(u)
       /\ inheritable' \cap Things(u) = inheritable \cap Things(u)

\* Such a step preserves the invariant if it does so for its own call.
LEMMA CallStepKeeps ==
  ASSUME IndInv, NEW t \in Threads, CallStep(t), CallInv(t)'
  PROVE  IndInv'
<1>1. \A u \in Threads : CallInv(u)'
  BY Undisturbed DEF IndInv, CallStep, Unlaunched
<1>2. \A u \in Threads : held'[Child(u)] = held[Child(u)]
  BY ProcessNames DEF CallStep
<1>3. ChildConnected'
  BY <1>2 DEF IndInv, ProcessInv, ChildConnected, CallStep, Unlaunched
<1>4. DeadHoldNothing' /\ Inherited'
  BY <1>2
  DEF IndInv, ProcessInv, DeadHoldNothing, Inherited, CallStep, Unlaunched
<1> QED
  BY <1>1, <1>3, <1>4 DEF IndInv, ProcessInv, CallStep

\* The system calls of a call of establish_with_child preserve the invariant.
LEMMA CallNext ==
  ASSUME IndInv, NEW t \in Threads,
         \/ SocketPair(t) \/ CloexecLocal(t) \/ CloexecRemote(t) \/ GuardNew(t)
         \/ PipePair(t) \/ CloneProcess(t) \/ ModifyPipe(t)
         \/ LaunchFails(t) \/ CloseSent(t) \/ ChildHandle(t)
         \/ Wrap(t) \/ GuardDrop(t) \/ CloseRemote(t) \/ CloseLocal(t)
         \/ DropChannel(t)
  PROVE  IndInv'
<1>N. /\ Local(t) # Remote(t) /\ Local(t) # Process(t) /\ Remote(t) # Process(t)
      /\ Local(t) \in Things(t) /\ Remote(t) \in Things(t) /\ Process(t) \in Things(t)
      /\ \A u \in Threads \ {t} : Things(t) \cap Things(u) = {}
      /\ Things(t) \subseteq UNION {Things(u) : u \in Threads}
  BY ThingNames DEF Things
<1>P. Parent \in Processes
  BY ProcessNames
<1>I. Typed /\ CallInv(t)
  BY DEF IndInv
<1> USE DEF Typed, Goto, ParentHas, SetCloexec, ClearCloexec, Unlaunched, Stages,
            UnixStages, WindowsStages
<1>1. ASSUME SocketPair(t) PROVE IndInv'
  <2>1. CallStep(t)
    BY <1>1, <1>N, <1>P, <1>I DEF SocketPair, CallStep
  <2>2. CallInv(t)'
    BY <1>1, <1>N, <1>P, <1>I
    DEF SocketPair, CallInv, OnPath, ParentHolds, CanInherit
  <2> QED
    BY <2>1, <2>2, CallStepKeeps
<1>2. ASSUME CloexecLocal(t) PROVE IndInv'
  <2>1. CallStep(t)
    BY <1>2, <1>N, <1>P, <1>I DEF CloexecLocal, CallStep
  <2>2. CallInv(t)'
    BY <1>2, <1>N, <1>P, <1>I
    DEF CloexecLocal, CallInv, OnPath, ParentHolds, CanInherit
  <2> QED
    BY <2>1, <2>2, CallStepKeeps
<1>3. ASSUME CloexecRemote(t) PROVE IndInv'
  <2>1. CallStep(t)
    BY <1>3, <1>N, <1>P, <1>I DEF CloexecRemote, CallStep
  <2>2. CallInv(t)'
    BY <1>3, <1>N, <1>P, <1>I
    DEF CloexecRemote, CallInv, OnPath, ParentHolds, CanInherit
  <2> QED
    BY <2>1, <2>2, CallStepKeeps
<1>4. ASSUME GuardNew(t) PROVE IndInv'
  <2>1. CallStep(t)
    BY <1>4, <1>N, <1>P, <1>I DEF GuardNew, CallStep
  <2>2. CallInv(t)'
    BY <1>4, <1>N, <1>P, <1>I
    DEF GuardNew, CallInv, OnPath, ParentHolds, CanInherit
  <2> QED
    BY <2>1, <2>2, CallStepKeeps
<1>5. ASSUME PipePair(t) PROVE IndInv'
  <2>1. CallStep(t)
    BY <1>5, <1>N, <1>P, <1>I DEF PipePair, CallStep
  <2>2. CallInv(t)'
    BY <1>5, <1>N, <1>P, <1>I
    DEF PipePair, CallInv, OnPath, ParentHolds, CanInherit
  <2> QED
    BY <2>1, <2>2, CallStepKeeps
<1>6. ASSUME CloneProcess(t) PROVE IndInv'
  <2>1. CallStep(t)
    BY <1>6, <1>N, <1>P, <1>I DEF CloneProcess, CallStep
  <2>2. CallInv(t)'
    BY <1>6, <1>N, <1>P, <1>I
    DEF CloneProcess, CallInv, OnPath, ParentHolds, CanInherit
  <2> QED
    BY <2>1, <2>2, CallStepKeeps
<1>7. ASSUME ModifyPipe(t) PROVE IndInv'
  <2>1. CallStep(t)
    BY <1>7, <1>N, <1>P, <1>I DEF ModifyPipe, CallStep
  <2>2. CallInv(t)'
    BY <1>7, <1>N, <1>P, <1>I
    DEF ModifyPipe, CallInv, OnPath, ParentHolds, CanInherit
  <2> QED
    BY <2>1, <2>2, CallStepKeeps
<1>8. ASSUME LaunchFails(t) PROVE IndInv'
  <2>1. CallStep(t)
    BY <1>8, <1>N, <1>P, <1>I DEF LaunchFails, CallStep
  <2>2. CallInv(t)'
    BY <1>8, <1>N, <1>P, <1>I
    DEF LaunchFails, CallInv, OnPath, ParentHolds, CanInherit
  <2> QED
    BY <2>1, <2>2, CallStepKeeps
<1>9. ASSUME CloseSent(t) PROVE IndInv'
  <2>1. CallStep(t)
    BY <1>9, <1>N, <1>P, <1>I DEF CloseSent, CallStep
  <2>2. CallInv(t)'
    BY <1>9, <1>N, <1>P, <1>I
    DEF CloseSent, CallInv, OnPath, ParentHolds, CanInherit
  <2> QED
    BY <2>1, <2>2, CallStepKeeps
<1>10. ASSUME ChildHandle(t) PROVE IndInv'
  <2>1. CallStep(t)
    BY <1>10, <1>N, <1>P, <1>I DEF ChildHandle, CallStep
  <2>2. CallInv(t)'
    BY <1>10, <1>N, <1>P, <1>I
    DEF ChildHandle, CallInv, OnPath, ParentHolds, CanInherit
  <2> QED
    BY <2>1, <2>2, CallStepKeeps
<1>11. ASSUME Wrap(t) PROVE IndInv'
  <2>1. CallStep(t)
    BY <1>11, <1>N, <1>P, <1>I DEF Wrap, CallStep
  <2>2. CallInv(t)'
    BY <1>11, <1>N, <1>P, <1>I
    DEF Wrap, CallInv, OnPath, ParentHolds, CanInherit
  <2> QED
    BY <2>1, <2>2, CallStepKeeps
<1>12. ASSUME GuardDrop(t) PROVE IndInv'
  <2>1. CallStep(t)
    BY <1>12, <1>N, <1>P, <1>I DEF GuardDrop, CallStep
  <2>2. CallInv(t)'
    BY <1>12, <1>N, <1>P, <1>I
    DEF GuardDrop, CallInv, OnPath, ParentHolds, CanInherit
  <2> QED
    BY <2>1, <2>2, CallStepKeeps
<1>13. ASSUME CloseRemote(t) PROVE IndInv'
  <2>1. CallStep(t)
    BY <1>13, <1>N, <1>P, <1>I DEF CloseRemote, CallStep
  <2>2. CallInv(t)'
    BY <1>13, <1>N, <1>P, <1>I
    DEF CloseRemote, CallInv, OnPath, ParentHolds, CanInherit
  <2> QED
    BY <2>1, <2>2, CallStepKeeps
<1>14. ASSUME CloseLocal(t) PROVE IndInv'
  <2>1. CallStep(t)
    BY <1>14, <1>N, <1>P, <1>I DEF CloseLocal, CallStep
  <2>2. CallInv(t)'
    BY <1>14, <1>N, <1>P, <1>I
    DEF CloseLocal, CallInv, OnPath, ParentHolds, CanInherit
  <2> QED
    BY <2>1, <2>2, CallStepKeeps
<1>15. ASSUME DropChannel(t) PROVE IndInv'
  <2>1. CallStep(t)
    BY <1>15, <1>N, <1>P, <1>I DEF DropChannel, CallStep
  <2>2. CallInv(t)'
    BY <1>15, <1>N, <1>P, <1>I
    DEF DropChannel, CallInv, OnPath, ParentHolds, CanInherit
  <2> QED
    BY <2>1, <2>2, CallStepKeeps
<1> QED
  BY <1>1, <1>2, <1>3, <1>4, <1>5, <1>6, <1>7, <1>8,
     <1>9, <1>10, <1>11, <1>12, <1>13, <1>14, <1>15

\* The child's launch, which passes it the ends that are inheritable, preserves
\* the invariant.
LEMMA LaunchNext ==
  ASSUME IndInv, NEW t \in Threads, Launch(t)
  PROVE  IndInv'
<1>N. /\ Local(t) # Remote(t) /\ Local(t) # Process(t) /\ Remote(t) # Process(t)
      /\ Child(t) \in Processes /\ Child(t) # Parent /\ Parent \in Processes
  BY ThingNames, ProcessNames
<1>1. /\ held' = [held EXCEPT ![Child(t)] = inheritable]
      /\ alive' = alive \cup {Child(t)}
      /\ crowded' = crowded \cup {u \in Threads \ {t} : Establishing(u)}
      /\ child' = [child EXCEPT ![t] = "passed"]
      /\ stage[t] = "launch"
      /\ stage' = [stage EXCEPT ![t] = IF platform = "unix" THEN "wrap" ELSE "close_sent"]
      /\ UNCHANGED <<platform, result, inheritable>>
  BY DEF Launch, Launched, Goto
<1>2. Typed'
  BY <1>1, <1>N DEF IndInv, Typed, Stages, UnixStages, WindowsStages
<1>3. \A u \in Threads \ {t} : CallInv(u)'
  BY <1>1, <1>N, Undisturbed DEF IndInv, Typed
<1>4. CallInv(t)'
  BY <1>1, <1>N
  DEF IndInv, Typed, CallInv, OnPath, ParentHolds, CanInherit, UnixStages, WindowsStages
<1>5. \A u \in Threads : inheritable \cap Things(u) # {} => Establishing(u)
  BY DEF IndInv, CallInv, CanInherit, Things, Establishing
<1>6. inheritable \cap Things(t) =
        IF platform = "unix" THEN {Remote(t)} ELSE {Remote(t), Process(t)}
  BY <1>1, <1>N DEF IndInv, Typed, CallInv, CanInherit, Things
<1>7. held'[Child(t)] = inheritable
      /\ \A p \in Processes \ {Child(t)} : held'[p] = held[p]
  BY <1>1, <1>N DEF IndInv, Typed
<1>8. \A u \in Threads \ {t} : Child(u) \in Processes \ {Child(t)}
  BY ProcessNames
<1>9. ChildConnected'
  BY <1>1, <1>6, <1>7, <1>8 DEF IndInv, Typed, ProcessInv, ChildConnected
<1>10. DeadHoldNothing'
  BY <1>1, <1>7 DEF IndInv, ProcessInv, DeadHoldNothing
<1>11. Inherited'
  <2>1. ASSUME NEW u \in Threads PROVE Local(u) \notin held'[Child(u)]
    BY <2>1, <1>1, <1>7, <1>8
    DEF IndInv, ProcessInv, Inherited, CallInv, CanInherit
  <2>2. ASSUME NEW u \in Threads, u \notin crowded',
               NEW p \in Processes \ {Parent, Child(u)}
        PROVE  held'[p] \cap Things(u) = {}
    <3>1. held[p] \cap Things(u) = {}
      BY <2>2, <1>1 DEF IndInv, ProcessInv, Inherited
    <3>2. p = Child(t) => inheritable \cap Things(u) = {}
      BY <2>2, <1>1, <1>5
    <3> QED
      BY <3>1, <3>2, <1>7
  <2> QED
    BY <2>1, <2>2 DEF Inherited
<1> QED
  BY <1>2, <1>3, <1>4, <1>9, <1>10, <1>11 DEF IndInv, ProcessInv

\* What the other processes do leaves the parent's calls alone.
LEMMA ProcessStepKeeps ==
  ASSUME IndInv, Unestablished, Typed', held'[Parent] = held[Parent], ProcessInv'
  PROVE  IndInv'
<1>1. \A u \in Threads : CallInv(u)'
  BY Undisturbed DEF IndInv, Unestablished
<1> QED
  BY <1>1 DEF IndInv

\* The steps of the other processes preserve the invariant.
LEMMA ProcessNext ==
  ASSUME IndInv,
         \/ \E t \in Threads : LaunchGrand(t) \/ IntoChannel(t) \/ ChildDrops(t)
         \/ \E s \in Strangers : LaunchOther(s)
         \/ \E p \in Processes : Exit(p)
  PROVE  IndInv'
<1>P. Parent \in Processes
  BY ProcessNames
<1>U. \A u \in Threads : Child(u) \in Processes /\ Child(u) # Parent
  BY ProcessNames
<1>1. ASSUME NEW t \in Threads, LaunchGrand(t) PROVE IndInv'
  <2>1. /\ held' = [held EXCEPT ![Grand(t)] = held[Child(t)]]
        /\ alive' = alive \cup {Grand(t)}
        /\ crowded' = crowded \cup {u \in Threads : Things(u) \cap held[Child(t)] # {}}
        /\ UNCHANGED child /\ Unestablished
    BY <1>1 DEF LaunchGrand, Launched
  <2>2. /\ Grand(t) \in Processes /\ Grand(t) # Parent
        /\ \A u \in Threads : Child(u) # Grand(t)
    BY ProcessNames
  <2>3. Typed' /\ held'[Parent] = held[Parent]
    BY <2>1, <2>2, <1>P, <1>U DEF IndInv, Typed, Unestablished
  <2>4. /\ held'[Grand(t)] = held[Child(t)]
        /\ \A p \in Processes \ {Grand(t)} : held'[p] = held[p]
        /\ \A u \in Threads : held'[Child(u)] = held[Child(u)]
    BY <2>1, <2>2, <1>U DEF IndInv, Typed
  <2>5. ChildConnected'
    BY <2>1, <2>2, <2>4 DEF IndInv, ProcessInv, ChildConnected, Unestablished
  <2>6. DeadHoldNothing'
    BY <2>1, <2>4 DEF IndInv, ProcessInv, DeadHoldNothing
  <2>7. ASSUME NEW u \in Threads, u \notin crowded',
               NEW p \in Processes \ {Parent, Child(u)}
        PROVE  held'[p] \cap Things(u) = {}
    <3>1. held[p] \cap Things(u) = {} /\ Things(u) \cap held[Child(t)] = {}
      BY <2>1, <2>7 DEF IndInv, ProcessInv, Inherited
    <3> QED
      BY <2>4, <3>1
  <2>8. Inherited'
    BY <2>4, <2>7 DEF IndInv, ProcessInv, Inherited
  <2> QED
    BY <2>1, <2>3, <2>5, <2>6, <2>8, ProcessStepKeeps DEF ProcessInv
<1>2. ASSUME NEW s \in Strangers, LaunchOther(s) PROVE IndInv'
  <2>1. /\ held' = [held EXCEPT ![Other(s)] = inheritable]
        /\ alive' = alive \cup {Other(s)}
        /\ crowded' = crowded \cup {u \in Threads : Establishing(u)}
        /\ UNCHANGED child /\ Unestablished
    BY <1>2 DEF LaunchOther, Launched
  <2>2. /\ Other(s) \in Processes /\ Other(s) # Parent
        /\ \A u \in Threads : Child(u) # Other(s)
    BY ProcessNames
  <2>3. Typed' /\ held'[Parent] = held[Parent]
    BY <2>1, <2>2, <1>P DEF IndInv, Typed, Unestablished
  <2>4. /\ held'[Other(s)] = inheritable
        /\ \A p \in Processes \ {Other(s)} : held'[p] = held[p]
        /\ \A u \in Threads : held'[Child(u)] = held[Child(u)]
    BY <2>1, <2>2, <1>U DEF IndInv, Typed
  <2>5. ChildConnected'
    BY <2>1, <2>2, <2>4 DEF IndInv, ProcessInv, ChildConnected, Unestablished
  <2>6. DeadHoldNothing'
    BY <2>1, <2>4 DEF IndInv, ProcessInv, DeadHoldNothing
  <2>7. \A u \in Threads : inheritable \cap Things(u) # {} => Establishing(u)
    BY DEF IndInv, CallInv, CanInherit, Things, Establishing
  <2>8. ASSUME NEW u \in Threads, u \notin crowded',
               NEW p \in Processes \ {Parent, Child(u)}
        PROVE  held'[p] \cap Things(u) = {}
    <3>1. held[p] \cap Things(u) = {} /\ inheritable \cap Things(u) = {}
      BY <2>1, <2>7, <2>8 DEF IndInv, ProcessInv, Inherited
    <3> QED
      BY <2>4, <3>1
  <2>9. Inherited'
    BY <2>4, <2>8 DEF IndInv, ProcessInv, Inherited
  <2> QED
    BY <2>1, <2>3, <2>5, <2>6, <2>9, ProcessStepKeeps DEF ProcessInv
<1>S. ASSUME Unestablished, UNCHANGED crowded, alive' \subseteq alive,
             NEW p \in Processes \ {Parent}, NEW S \in SUBSET held[p],
             held' = [held EXCEPT ![p] = S],
             p \in alive \ alive' => S = {},
             alive \ alive' \subseteq {p},
             child' \in [Threads -> {"none", "passed", "channel", "gone"}],
             ChildConnected'
      PROVE  IndInv'
  <2>1. \A q \in Processes : held'[q] \subseteq held[q]
    BY <1>S DEF IndInv, Typed
  <2>2. Typed' /\ held'[Parent] = held[Parent]
    BY <1>S, <1>P DEF IndInv, Typed, Unestablished
  <2>3. DeadHoldNothing'
    BY <1>S, <2>1 DEF IndInv, Typed, ProcessInv, DeadHoldNothing
  <2>4. Inherited'
    BY <1>S, <1>U, <2>1 DEF IndInv, ProcessInv, Inherited
  <2> QED
    BY <1>S, <2>2, <2>3, <2>4, ProcessStepKeeps DEF ProcessInv
<1>3. ASSUME NEW t \in Threads, IntoChannel(t) \/ ChildDrops(t) PROVE IndInv'
  <2>1. PICK S \in SUBSET held[Child(t)] : held' = [held EXCEPT ![Child(t)] = S]
    <3>1. held' = held \/ held' = [held EXCEPT ![Child(t)] = @ \ {Remote(t), Process(t)}]
      BY <1>3 DEF IntoChannel, ChildDrops
    <3>2. held = [held EXCEPT ![Child(t)] = held[Child(t)]]
      BY <1>U DEF IndInv, Typed
    <3> QED
      BY <3>1, <3>2
  <2>2. /\ child[t] \in {"passed", "channel"} /\ UNCHANGED <<alive, crowded>>
        /\ child' \in [Threads -> {"none", "passed", "channel", "gone"}]
        /\ Unestablished
        /\ \A u \in Threads \ {t} : child'[u] = child[u]
        /\ child'[t] = "gone" \/ UNCHANGED held
    BY <1>3 DEF IntoChannel, ChildDrops, IndInv, Typed
  <2>3. \A u \in Threads \ {t} : held'[Child(u)] = held[Child(u)]
    BY <2>1, ProcessNames DEF IndInv, Typed
  <2>4. ChildConnected'
    BY <2>2, <2>3 DEF IndInv, ProcessInv, ChildConnected, Unestablished
  <2> QED
    BY <2>1, <2>2, <2>4, <1>S, <1>U
<1>4. ASSUME NEW p \in Processes, Exit(p) PROVE IndInv'
  <2>1. /\ held' = [held EXCEPT ![p] = {}] /\ p # Parent
        /\ alive' = alive \ {p}
        /\ UNCHANGED <<child, crowded>> /\ Unestablished
    BY <1>4 DEF Exit
  <2>2. ChildConnected'
    BY <2>1, <1>U DEF IndInv, Typed, ProcessInv, ChildConnected, Unestablished
  <2>3. child' \in [Threads -> {"none", "passed", "channel", "gone"}]
    BY <2>1 DEF IndInv, Typed
  <2> QED
    BY <2>1, <2>2, <2>3, <1>S
<1> QED
  BY <1>1, <1>2, <1>3, <1>4

\* Nothing is open at first.
LEMMA IndInvInit == ASSUME Init PROVE IndInv
<1>1. Parent \in Processes /\ \A t \in Threads : Child(t) \in Processes /\ Child(t) # Parent
  BY ProcessNames
<1>2. Typed
  BY <1>1, ChildAssumption DEF Init, Typed, Stages
<1>3. \A t \in Threads : CallInv(t)
  BY <1>1
  DEF Init, CallInv, OnPath, ParentHolds, CanInherit, UnixStages, WindowsStages
<1>4. ProcessInv
  BY <1>1 DEF Init, ProcessInv, ChildConnected, DeadHoldNothing, Inherited
<1> QED
  BY <1>2, <1>3, <1>4 DEF IndInv

\* Every step preserves the invariant.
LEMMA IndInvNext == ASSUME IndInv, [Next]_vars PROVE IndInv'
<1>1. ASSUME UNCHANGED vars PROVE IndInv'
  BY <1>1
  DEF vars, IndInv, Typed, CallInv, OnPath, ParentHolds, CanInherit, ProcessInv,
      ChildConnected, DeadHoldNothing, Inherited
<1> QED
  BY <1>1, CallNext, LaunchNext, ProcessNext DEF Next

\* The invariant holds in every state.
LEMMA Invariance == Spec => []IndInv
<1>1. Init => IndInv
  BY IndInvInit
<1>2. IndInv /\ [Next]_vars => IndInv'
  BY IndInvNext
<1> QED
  BY <1>1, <1>2, PTL DEF Spec
-----------------------------------------------------------------------------
\* However a call ends, and whatever other threads do, the parent is left with
\* its own end or with nothing, and nothing of the call can be inherited later.
THEOREM NothingLeftBehindHolds == Spec => []NothingLeftBehind
<1>1. ASSUME IndInv, NEW t \in Threads, ~Establishing(t)
      PROVE  /\ held[Parent] \cap Things(t) =
                  IF stage[t] = "returned" /\ result[t] = "ok" THEN {Local(t)} ELSE {}
             /\ inheritable \cap Things(t) = {}
  BY <1>1
  DEF IndInv, Typed, CallInv, ParentHolds, CanInherit, Establishing, Things,
      UnixStages
<1>2. IndInv => NothingLeftBehind
  BY <1>1 DEF NothingLeftBehind
<1> QED
  BY <1>2, Invariance, PTL

\* A child that was launched and kept its end has it, whatever the other threads
\* did to their descriptors in the meantime.
THEOREM ChildConnectedHolds == Spec => []ChildConnected
<1>1. IndInv => ChildConnected
  BY DEF IndInv, ProcessInv
<1> QED
  BY <1>1, Invariance, PTL

\* Both sides see the other's hang-up: nobody keeps an end by accident, unless a
\* process was launched in the middle of the call or by the child.
THEOREM HangUpSeenHolds == Spec => []HangUpSeen
<1>1. ASSUME IndInv, NEW t \in Threads \ crowded,
             stage[t] = "dropped" \/ (stage[t] = "returned" /\ result[t] = "error"),
             NEW p \in Processes
      PROVE  Local(t) \notin held[p]
  BY <1>1
  DEF IndInv, CallInv, ParentHolds, ProcessInv, Inherited, Things
<1>2. ASSUME IndInv, NEW t \in Threads \ crowded,
             stage[t] \in {"returned", "dropped"}, Child(t) \notin alive,
             NEW p \in Processes
      PROVE  Remote(t) \notin held[p]
  <2>1. Remote(t) \notin held[Parent]
    BY <1>2 DEF IndInv, CallInv, ParentHolds, UnixStages
  <2>2. held[Child(t)] = {}
    BY <1>2, ProcessNames DEF IndInv, ProcessInv, DeadHoldNothing
  <2> QED
    BY <1>2, <2>1, <2>2 DEF IndInv, ProcessInv, Inherited, Things
<1>3. IndInv => HangUpSeen
  BY <1>1, <1>2 DEF HangUpSeen
<1> QED
  BY <1>3, Invariance, PTL
===============================================================================
