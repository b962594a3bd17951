----------------------------- MODULE ChildChannel -----------------------------
(***************************************************************************)
(* Channels between a process and the children it launches:                *)
(* establish_with_child, establish_with_child_custom and CloexecGuard of   *)
(* src/src/unix/channel.rs, their counterparts in                          *)
(* src/src/windows/channel.rs, and into_channel in the child.              *)
(*                                                                         *)
(* A child gets its end by inheritance, and so does every process that is  *)
(* launched while the end can be inherited.  Each thread of the parent     *)
(* establishes one channel; meanwhile the parent launches other processes, *)
(* and the children launch some of their own.  A step is one system call.  *)
(***************************************************************************)
EXTENDS FiniteSets

CONSTANTS
  Threads,    \* the threads of the parent that establish a channel
  Strangers,  \* the processes that the parent launches besides
  Platforms   \* a subset of {"unix", "windows"}

ASSUME ChildAssumption == Platforms \subseteq {"unix", "windows"}

Parent    == <<"parent">>
Child(t)  == <<"child", t>>
Grand(t)  == <<"grandchild", t>>
Other(s)  == <<"other", s>>
Processes == {Parent} \cup {Child(t) : t \in Threads}
             \cup {Grand(t) : t \in Threads} \cup {Other(s) : s \in Strangers}

\* What a thread makes: the two ends, and on Windows the handle of the parent
\* by which the child duplicates handles into it.
Local(t)   == <<t, "local">>
Remote(t)  == <<t, "remote">>
Process(t) == <<t, "process">>
Things(t)  == {Local(t), Remote(t), Process(t)}

VARIABLES
  platform,     \* the system, chosen at first
  stage,        \* stage[t]: the system call that t makes next, or "returned",
                \* or "dropped" once the channel is
  result,       \* result[t]: what establish_with_child returns, so far
  held,         \* held[p]: what process p has open; copies count once
  inheritable,  \* what processes launched by the parent get a copy of
  alive,        \* the processes that run
  child,        \* child[t]: has the child its end as it was "passed", made a
                \* "channel" of it, or let it be "gone"?
  crowded       \* history: threads during whose call another one launched,
                \* or whose child launched a process itself

vars == <<platform, stage, result, held, inheritable, alive, child, crowded>>

\* t is between the system call that makes the ends and its return.
Establishing(t) == stage[t] \notin {"start", "returned", "dropped"}

Init ==
  /\ platform \in Platforms
  /\ stage = [t \in Threads |-> "start"]
  /\ result = [t \in Threads |-> "ok"]
  /\ held = [p \in Processes |-> {}]
  /\ inheritable = {}
  /\ alive = {Parent}
  /\ child = [t \in Threads |-> "none"]
  /\ crowded = {}
-----------------------------------------------------------------------------
(***************************************************************************)
(* The steps of a call                                                     *)
(***************************************************************************)
Goto(t, from, to) ==
  /\ stage[t] = from
  /\ stage' = [stage EXCEPT ![t] = to]

\* The parent opens and closes things, and changes what is inheritable.
ParentHas(opened, closed) ==
  held' = [held EXCEPT ![Parent] = (@ \cup opened) \ closed]

\* set_cloexec and clear_cloexec on a descriptor
SetCloexec(thing)   == inheritable' = inheritable \ {thing}
ClearCloexec(thing) == inheritable' = inheritable \cup {thing}

Unlaunched == UNCHANGED <<platform, alive, child, crowded>>

\* Process p starts with a copy of what the launching process passes on; the
\* calls of other threads in progress are crowded by it.
Launched(p, copies, threads) ==
  /\ alive' = alive \cup {p}
  /\ held' = [held EXCEPT ![p] = copies]
  /\ crowded' = crowded \cup threads

\* raw_socketpair: socketpair, whose descriptors are inheritable ...
SocketPair(t) ==
  /\ platform = "unix"
  /\ Goto(t, "start", "cloexec_local")
  /\ ParentHas({Local(t), Remote(t)}, {})
  /\ inheritable' = inheritable \cup {Local(t), Remote(t)}
  /\ UNCHANGED result /\ Unlaunched

\* Mutant: the loop leaves the first socket out.
CloexecLocalSkipped(t) ==
  /\ Goto(t, "cloexec_local", "cloexec_remote")
  /\ UNCHANGED <<result, held, inheritable>> /\ Unlaunched

\* ... and set_cloexec for one after the other.
CloexecLocal(t) ==
  /\ Goto(t, "cloexec_local", "cloexec_remote")
  /\ SetCloexec(Local(t))
  /\ UNCHANGED <<result, held>> /\ Unlaunched

CloexecRemote(t) ==
  /\ Goto(t, "cloexec_remote", "guard")
  /\ SetCloexec(Remote(t))
  /\ UNCHANGED <<result, held>> /\ Unlaunched

\* Mutant: the flag stays set, as when the guard is made of the other socket.
GuardNewOther(t) ==
  /\ Goto(t, "guard", "launch")
  /\ UNCHANGED <<result, held, inheritable>> /\ Unlaunched

\* CloexecGuard::new
GuardNew(t) ==
  /\ Goto(t, "guard", "launch")
  /\ ClearCloexec(Remote(t))
  /\ UNCHANGED <<result, held>> /\ Unlaunched

\* raw_pipe_pair: both pipes are created with bInheritHandle FALSE.
PipePair(t) ==
  /\ platform = "windows"
  /\ Goto(t, "start", "clone")
  /\ ParentHas({Local(t), Remote(t)}, {})
  /\ UNCHANGED <<result, inheritable>> /\ Unlaunched

\* clone_ex(true, ...): an inheritable handle of this process, or an error.
CloneProcess(t) ==
  /\ \/ /\ Goto(t, "clone", "modify")
        /\ ParentHas({Process(t)}, {})
        /\ inheritable' = inheritable \cup {Process(t)}
        /\ UNCHANGED result
     \/ /\ Goto(t, "clone", "close_sent")
        /\ result' = [result EXCEPT ![t] = "error"]
        /\ UNCHANGED <<held, inheritable>>
  /\ Unlaunched

\* modify(true, ...) of the client pipe, or an error.
ModifyPipe(t) ==
  /\ \/ /\ Goto(t, "modify", "launch")
        /\ inheritable' = inheritable \cup {Remote(t)}
        /\ UNCHANGED result
     \/ /\ Goto(t, "modify", "close_sent")
        /\ result' = [result EXCEPT ![t] = "error"]
        /\ UNCHANGED inheritable
  /\ UNCHANGED held /\ Unlaunched

\* transmit_and_launch: the closure launches the child.
Launch(t) ==
  /\ Goto(t, "launch", IF platform = "unix" THEN "wrap" ELSE "close_sent")
  /\ Launched(Child(t), inheritable, {u \in Threads \ {t} : Establishing(u)})
  /\ child' = [child EXCEPT ![t] = "passed"]
  /\ UNCHANGED <<platform, result, inheritable>>

\* Mutant: the error returns with the guard forgotten and the ends leaked.
LaunchFailsLeaks(t) ==
  /\ Goto(t, "launch", "returned")
  /\ result' = [result EXCEPT ![t] = "error"]
  /\ UNCHANGED <<held, inheritable>> /\ Unlaunched

\* transmit_and_launch returns an error.
LaunchFails(t) ==
  /\ Goto(t, "launch", IF platform = "unix" THEN "restore" ELSE "close_sent")
  /\ result' = [result EXCEPT ![t] = "error"]
  /\ UNCHANGED <<held, inheritable>> /\ Unlaunched

\* Windows: the ChildMessageChannel is dropped, at the end of the closure that
\* had it or on the way out.  It closes two handles; a process that is launched
\* between the two gets nothing that it would not have got before.
CloseSent(t) ==
  /\ Goto(t, "close_sent", IF result[t] = "ok" THEN "process_handle" ELSE "close_local")
  /\ ParentHas({}, {Remote(t), Process(t)})
  /\ inheritable' = inheritable \ {Remote(t), Process(t)}
  /\ UNCHANGED result /\ Unlaunched

\* from_windows_handle for the child
ChildHandle(t) ==
  /\ \/ Goto(t, "process_handle", "wrap") /\ UNCHANGED result
     \/ /\ Goto(t, "process_handle", "close_local")
        /\ result' = [result EXCEPT ![t] = "error"]
  /\ UNCHANGED <<held, inheritable>> /\ Unlaunched

\* PollEvented::new_with_handle takes the local end, and drops it on an error.
Wrap(t) ==
  /\ Goto(t, "wrap", IF platform = "unix" THEN "restore" ELSE "returned")
  /\ \/ UNCHANGED <<result, held>>
     \/ /\ result' = [result EXCEPT ![t] = "error"]
        /\ ParentHas({}, {Local(t)})
  /\ UNCHANGED inheritable /\ Unlaunched

\* Unix, on the way out: the guard is dropped, then the remote end ...
GuardDrop(t) ==
  /\ Goto(t, "restore", "close_remote")
  /\ SetCloexec(Remote(t))
  /\ UNCHANGED <<result, held>> /\ Unlaunched

CloseRemote(t) ==
  /\ Goto(t, "close_remote", "close_local")
  /\ ParentHas({}, {Remote(t)})
  /\ UNCHANGED <<result, inheritable>> /\ Unlaunched

\* ... and the local end, unless a channel was made of it.
CloseLocal(t) ==
  /\ Goto(t, "close_local", "returned")
  /\ ParentHas({}, IF result[t] = "ok" THEN {} ELSE {Local(t)})
  /\ UNCHANGED <<result, inheritable>> /\ Unlaunched

\* The channel is dropped by the parent.
DropChannel(t) ==
  /\ Goto(t, "returned", "dropped")
  /\ ParentHas({}, {Local(t)})
  /\ UNCHANGED <<result, inheritable>> /\ Unlaunched
-----------------------------------------------------------------------------
(***************************************************************************)
(* The other processes                                                     *)
(***************************************************************************)
Unestablished == UNCHANGED <<platform, stage, result, inheritable>>

\* Another thread of the parent launches a process.
LaunchOther(s) ==
  /\ Other(s) \notin alive
  /\ held[Other(s)] = {}
  /\ Launched(Other(s), inheritable, {t \in Threads : Establishing(t)})
  /\ UNCHANGED child /\ Unestablished

\* The child launches a process: what it was passed is inheritable, and
\* into_channel leaves it so.
LaunchGrand(t) ==
  /\ Child(t) \in alive
  /\ Grand(t) \notin alive /\ held[Grand(t)] = {}
  /\ Launched(Grand(t), held[Child(t)], {u \in Threads : Things(u) \cap held[Child(t)] # {}})
  /\ UNCHANGED child /\ Unestablished

\* into_channel in the child, which drops what it took on an error.
IntoChannel(t) ==
  /\ Child(t) \in alive
  /\ child[t] = "passed"
  /\ \/ child' = [child EXCEPT ![t] = "channel"] /\ UNCHANGED held
     \/ /\ child' = [child EXCEPT ![t] = "gone"]
        /\ held' = [held EXCEPT ![Child(t)] = @ \ {Remote(t), Process(t)}]
  /\ UNCHANGED <<alive, crowded>> /\ Unestablished

\* The child drops its channel, or the ChildMessageChannel: on unix that is a
\* number and closes nothing.
ChildDrops(t) ==
  /\ Child(t) \in alive
  /\ child[t] \in {"passed", "channel"}
  /\ child' = [child EXCEPT ![t] = "gone"]
  /\ held' = IF platform = "unix" /\ child[t] = "passed" THEN held
             ELSE [held EXCEPT ![Child(t)] = @ \ {Remote(t), Process(t)}]
  /\ UNCHANGED <<alive, crowded>> /\ Unestablished

\* A process other than the parent exits, and the system closes what it has.
Exit(p) ==
  /\ p \in alive \ {Parent}
  /\ alive' = alive \ {p}
  /\ held' = [held EXCEPT ![p] = {}]
  /\ UNCHANGED <<child, crowded>> /\ Unestablished

Next ==
  \/ \E t \in Threads :
       \/ SocketPair(t) \/ CloexecLocal(t) \/ CloexecRemote(t) \/ GuardNew(t)
       \/ PipePair(t) \/ CloneProcess(t) \/ ModifyPipe(t)
       \/ Launch(t) \/ LaunchFails(t) \/ CloseSent(t) \/ ChildHandle(t)
       \/ Wrap(t) \/ GuardDrop(t) \/ CloseRemote(t) \/ CloseLocal(t)
       \/ DropChannel(t) \/ LaunchGrand(t) \/ IntoChannel(t) \/ ChildDrops(t)
  \/ \E s \in Strangers : LaunchOther(s)
  \/ \E p \in Processes : Exit(p)

Spec == Init /\ [][Next]_vars
-----------------------------------------------------------------------------
(***************************************************************************)
(* Properties                                                              *)
(***************************************************************************)

\* Once the parent has let go of its end, because the call failed or because it
\* dropped the channel, the child reads the end of the stream: nobody else has
\* that end.  Once the child has gone the parent does.  Both hold whatever the
\* order of the calls of several threads, unless some process was launched
\* during the call, or by the child: it has inherited the end.
HangUpSeen ==
  \A t \in Threads \ crowded :
    /\ stage[t] = "dropped" \/ (stage[t] = "returned" /\ result[t] = "error")
         => \A p \in Processes : Local(t) \notin held[p]
    /\ stage[t] \in {"returned", "dropped"} /\ Child(t) \notin alive
         => \A p \in Processes : Remote(t) \notin held[p]

\* A call leaves the parent with the local end if it succeeds and with nothing
\* if it fails, at whichever step, and nothing of it can be inherited any more:
\* the child's end and the handle of the parent do not reach later processes.
NothingLeftBehind ==
  \A t \in Threads : ~Establishing(t) =>
    /\ held[Parent] \cap Things(t) =
         IF stage[t] = "returned" /\ result[t] = "ok" THEN {Local(t)} ELSE {}
    /\ inheritable \cap Things(t) = {}

\* If the call succeeds the channel is complete: a child that was launched and
\* has not given up its end has it, and on Windows the parent's handle too,
\* whatever the other threads did to their descriptors meanwhile.
ChildConnected ==
  \A t \in Threads : Child(t) \in alive /\ child[t] \in {"passed", "channel"} =>
    held[Child(t)] \cap Things(t) =
      IF platform = "unix" THEN {Remote(t)} ELSE {Remote(t), Process(t)}

\* As HangUpSeen, with nothing said of other launches.
AlwaysHangUpSeen ==
  \A t \in Threads :
    stage[t] \in {"returned", "dropped"} /\ Child(t) \notin alive
      => \A p \in Processes : Remote(t) \notin held[p]
=============================================================================
