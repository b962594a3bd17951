----------------------------- MODULE NamedChannel -----------------------------
(***************************************************************************)
(* NamedMessageChannel: a process makes a name and accepts one connection, *)
(* others connect to the name (src/src/unix/channel.rs,                    *)
(* src/src/windows/channel.rs).  On unix the name is that of a listening   *)
(* socket and timeouts are not used; on Windows it is that of a pipe with  *)
(* one instance, and a connection also needs the handle of the process at  *)
(* the other side.  Connecting, accepting, dropping, timeouts and the end  *)
(* of a process come in any order.                                         *)
(***************************************************************************)
EXTENDS Integers, Sequences

CONSTANTS
  Clients,        \* the processes that connect, once each
  Platforms,      \* a subset of {"unix", "windows"}
  Backlog,        \* connections the kernel queues for the listener
  Durations,      \* the timeouts that users give, in units of time
  UnitsPerMilli,  \* units of time in a millisecond
  MillisPerSec,   \* milliseconds in a second
  Word,           \* number of values of a DWORD
  DefaultWait     \* milliseconds that a wait of 0 for a pipe takes

Server    == "server"
Stranger  == "stranger"      \* a process that was given the id of another one
Nobody    == "nobody"
NoTimeout == -1

ASSUME NamedAssumption ==
  /\ Clients \cap {Server, Stranger, Nobody} = {}
  /\ Platforms \subseteq {"unix", "windows"}
  /\ {Backlog, UnitsPerMilli, MillisPerSec} \subseteq Nat \ {0}
  /\ Word \in Nat \ {0, 1}
  /\ Durations \subseteq Nat /\ DefaultWait \in Nat

Processes == Clients \cup {Server}

VARIABLES
  platform,  \* the system, chosen at first
  server,    \* what the owner of the name does: "listening" until it calls
             \* accept, "accepting", "taken" once there is a connection,
             \* "failing" before and "failed" after the return of an error,
             \* "open" with the channel, or "gone"
  client,    \* client[c]: "idle" until it calls connect, "waiting", on Windows
             \* "creating" its end and "identifying" the server, "open" with
             \* the channel, "failed" or "gone"
  pending,   \* the connections that have not been accepted
  peer,      \* the client whose connection was accepted
  target,    \* target[p]: the process that p duplicates handles into
  alive,     \* the processes that run
  asked,     \* asked[p]: the timeout that p gave
  waited,    \* waited[p]: the milliseconds that p has waited, counted until
             \* its time is up
  expired    \* history: the processes whose wait timed out

vars == <<platform, server, client, pending, peer, target, alive, asked, waited, expired>>
timing == <<asked, waited, expired>>

\* NamedMessageChannel::new has returned.
Init ==
  /\ platform \in Platforms
  /\ server = "listening"
  /\ client = [c \in Clients |-> "idle"]
  /\ pending = <<>>
  /\ peer = Nobody
  /\ target = [p \in Processes |-> Nobody]
  /\ alive = Processes
  /\ asked = [p \in Processes |-> NoTimeout]
  /\ waited = [p \in Processes |-> 0]
  /\ expired = {}
-----------------------------------------------------------------------------
(***************************************************************************)
(* Waiting                                                                 *)
(***************************************************************************)
UnitsPerSec == UnitsPerMilli * MillisPerSec

\* Mutant: the seconds are left out.
MillisNoSeconds(d) == ((d % UnitsPerSec) \div UnitsPerMilli) % Word

\* A Duration in milliseconds, as ULONG: its seconds and its subsec_nanos.
Millis(d) ==
  ((d \div UnitsPerSec) * MillisPerSec + (d % UnitsPerSec) \div UnitsPerMilli) % Word

\* INFINITE and NMPWAIT_WAIT_FOREVER
Forever == Word - 1

Wait(p) == IF asked[p] = NoTimeout THEN Forever ELSE Millis(asked[p])

\* WaitNamedPipeW takes 0 for the default of the pipe.
WaitTime(p) == IF p # Server /\ Wait(p) = 0 THEN DefaultWait ELSE Wait(p)

\* The wait of p may time out now.
TimeIsUp(p) == WaitTime(p) # Forever /\ waited[p] >= WaitTime(p)

\* p waits and its time is not up.
Counting(p) ==
  /\ platform = "windows"
  /\ IF p = Server THEN server = "accepting" ELSE client[p] = "waiting"
  /\ WaitTime(p) # Forever /\ waited[p] < WaitTime(p)

\* A millisecond passes.
Tick ==
  /\ \E p \in Processes : Counting(p)
  /\ waited' = [p \in Processes |-> IF Counting(p) THEN waited[p] + 1 ELSE waited[p]]
  /\ UNCHANGED <<platform, server, client, pending, peer, target, alive, asked, expired>>

\* p begins to wait.  Unix does not look at the timeout.
Ask(p, d) ==
  /\ asked' = [asked EXCEPT ![p] = IF platform = "unix" THEN NoTimeout ELSE d]
  /\ UNCHANGED <<waited, expired>>

Expire(p) == expired' = expired \cup {p} /\ UNCHANGED <<asked, waited>>
-----------------------------------------------------------------------------
(***************************************************************************)
(* accept                                                                  *)
(***************************************************************************)
ServerGoes(from, to) == server = from /\ server' = to

Accept(d) ==
  /\ ServerGoes("listening", "accepting")
  /\ Ask(Server, d)
  /\ UNCHANGED <<platform, client, pending, peer, target, alive>>

\* accept(2) returns the first connection, or GetOverlappedResultEx finds that
\* a client has opened the pipe.
AcceptTakes ==
  /\ ServerGoes("accepting", "taken")
  /\ pending # <<>>
  /\ peer' = Head(pending)
  /\ pending' = Tail(pending)
  /\ UNCHANGED <<platform, client, target, alive, timing>>

\* GetOverlappedResultEx times out.
AcceptTimesOut ==
  /\ ServerGoes("accepting", "failing")
  /\ platform = "windows" /\ pending = <<>> /\ TimeIsUp(Server)
  /\ Expire(Server)
  /\ UNCHANGED <<platform, client, pending, peer, target, alive>>

\* The system refuses: EINTR or ECONNABORTED on unix, an APC that ends the
\* alertable wait on Windows; the client's process cannot be opened; or the
\* channel cannot be registered.
AcceptFails ==
  /\ server \in {"accepting", "taken"}
  /\ server' = "failing"
  /\ UNCHANGED <<platform, client, pending, peer, target, alive, timing>>

\* OpenProcess with the id of p: if p has exited it fails, or the id is that of
\* another process by now.
OpenProcess(p) == IF p \in alive THEN p ELSE Stranger

\* Mutant: the id of the wrong side of the pipe.
AcceptReturnsSelf ==
  /\ ServerGoes("taken", "open")
  /\ target' = [target EXCEPT ![Server] = IF platform = "unix" THEN Nobody ELSE Server]
  /\ pending' = <<>>
  /\ UNCHANGED <<platform, client, peer, alive, timing>>

\* On Windows GetNamedPipeClientProcessId and OpenProcess give the target; then
\* accept returns the channel and drops the listener, with what it queues.
AcceptReturns ==
  /\ ServerGoes("taken", "open")
  /\ target' = [target EXCEPT ![Server] =
                  IF platform = "unix" THEN Nobody ELSE OpenProcess(peer)]
  /\ pending' = <<>>
  /\ UNCHANGED <<platform, client, peer, alive, timing>>

\* Mutant: a failed accept keeps the name, and the pipe or the socket with it.
AcceptErrorKeeps ==
  /\ ServerGoes("failing", "failed")
  /\ UNCHANGED <<platform, client, pending, peer, target, alive, timing>>

\* accept returns an error; everything that it had is dropped.
AcceptError ==
  /\ ServerGoes("failing", "failed")
  /\ pending' = <<>>
  /\ peer' = Nobody
  /\ UNCHANGED <<platform, client, target, alive, timing>>

\* The NamedMessageChannel, or the channel made of it, is dropped.
DropServer ==
  /\ server \in {"listening", "open"}
  /\ server' = "gone"
  /\ pending' = <<>>
  /\ peer' = Nobody
  /\ UNCHANGED <<platform, client, target, alive, timing>>

-----------------------------------------------------------------------------
(***************************************************************************)
(* connect                                                                 *)
(***************************************************************************)
ClientGoes(c, from, to) ==
  client[c] = from /\ client' = [client EXCEPT ![c] = to]

Connect(c, d) ==
  /\ ClientGoes(c, "idle", "waiting")
  /\ Ask(c, d)
  /\ UNCHANGED <<platform, server, pending, peer, target, alive>>

\* The listening socket, or the server's end of a pipe that has no client.
Listening ==
  IF platform = "unix" THEN server \in {"listening", "accepting", "taken", "failing"}
  ELSE server \in {"listening", "accepting", "failing"} /\ pending = <<>> /\ peer = Nobody

\* connect(2) waits for a place in the queue and returns before accept is called.
ConnectUnix(c) ==
  /\ platform = "unix"
  /\ Listening /\ Len(pending) < Backlog
  /\ ClientGoes(c, "waiting", "open")
  /\ pending' = Append(pending, c)
  /\ UNCHANGED <<platform, server, peer, target, alive, timing>>

\* WaitNamedPipeW finds the pipe free ...
PipeFree(c) ==
  /\ platform = "windows"
  /\ Listening
  /\ ClientGoes(c, "waiting", "creating")
  /\ UNCHANGED <<platform, server, pending, peer, target, alive, timing>>

\* ... or gives up ...
WaitTimesOut(c) ==
  /\ platform = "windows" /\ ~Listening /\ TimeIsUp(c)
  /\ ClientGoes(c, "waiting", "failed")
  /\ Expire(c)
  /\ UNCHANGED <<platform, server, pending, peer, target, alive>>

\* ... and CreateFileW opens it unless another client was faster.
CreateFile(c) ==
  /\ Listening
  /\ ClientGoes(c, "creating", "identifying")
  /\ pending' = <<c>>
  /\ UNCHANGED <<platform, server, peer, target, alive, timing>>

\* GetNamedPipeServerProcessId and OpenProcess; connect returns the channel.
ConnectReturns(c) ==
  /\ ClientGoes(c, "identifying", "open")
  /\ target' = [target EXCEPT ![c] = OpenProcess(Server)]
  /\ UNCHANGED <<platform, server, pending, peer, alive, timing>>

\* No client has an end of the pipe, and the server has none.
PipeGone ==
  /\ server \in {"failed", "gone"}
  /\ \A c \in Clients : client[c] \notin {"identifying", "open"}

\* The name stands for nothing any more, or the pipe is busy.
ConnectRefused(c) ==
  /\ CASE client[c] = "waiting" -> IF platform = "unix" THEN ~Listening ELSE PipeGone
       [] client[c] = "creating" -> ~Listening
       [] OTHER -> FALSE
  /\ client' = [client EXCEPT ![c] = "failed"]
  /\ UNCHANGED <<platform, server, pending, peer, target, alive, timing>>

\* A system call or the registration of the channel fails; what c has is closed.
ConnectFails(c) ==
  /\ client[c] \in {"waiting", "creating", "identifying"}
  /\ client' = [client EXCEPT ![c] = "failed"]
  /\ UNCHANGED <<platform, server, pending, peer, target, alive, timing>>

\* The channel is dropped.
DropClient(c) ==
  /\ ClientGoes(c, "open", "gone")
  /\ UNCHANGED <<platform, server, pending, peer, target, alive, timing>>
-----------------------------------------------------------------------------
\* A process exits, at any time.
ExitClient(c) ==
  /\ c \in alive
  /\ alive' = alive \ {c}
  /\ client' = [client EXCEPT ![c] = "gone"]
  /\ UNCHANGED <<platform, server, pending, peer, target, timing>>

ExitServer ==
  /\ Server \in alive
  /\ alive' = alive \ {Server}
  /\ server' = "gone"
  /\ pending' = <<>>
  /\ peer' = Nobody
  /\ UNCHANGED <<platform, client, target, timing>>

\* What the calls in progress do by themselves.
ServerStep == AcceptTakes \/ AcceptTimesOut \/ AcceptReturns \/ AcceptError

ClientStep(c) ==
  \/ ConnectUnix(c) \/ PipeFree(c) \/ WaitTimesOut(c)
  \/ CreateFile(c) \/ ConnectReturns(c) \/ ConnectRefused(c)

Next ==
  \/ \E d \in Durations \cup {NoTimeout} :
       Accept(d) \/ \E c \in Clients : Connect(c, d)
  \/ ServerStep \/ AcceptFails \/ DropServer \/ ExitServer
  \/ \E c \in Clients :
       ClientStep(c) \/ ConnectFails(c) \/ DropClient(c) \/ ExitClient(c)
  \/ Tick

Spec == Init /\ [][Next]_vars

\* Calls in progress go on and time passes.  The owner of the name calls accept
\* some day, or drops it.
Fairness ==
  /\ WF_vars(Tick) /\ WF_vars(ServerStep)
  /\ \A c \in Clients : WF_vars(ClientStep(c))
  /\ WF_vars(server = "listening" /\
       (DropServer \/ \E d \in Durations \cup {NoTimeout} : Accept(d)))

FairSpec == Spec /\ Fairness
-----------------------------------------------------------------------------
(***************************************************************************)
(* Properties                                                              *)
(***************************************************************************)

\* The server's end of c's connection is still there.
Connected(c) == c = peer \/ \E i \in DOMAIN pending : pending[i] = c

\* The channel that accept returns belongs to one client, and the handles it
\* sends go to that client's process, as those that a client sends go to the
\* server's.  Nobody else is left connected.  Only a process that has exited may
\* have been mistaken for another, which was given its id.
Paired ==
  server = "open" =>
    /\ \A c \in Clients : Connected(c) => c = peer
    /\ client[peer] # "idle" /\ client[peer] # "waiting"
    /\ platform = "windows" =>
         /\ target[Server] = peer \/ (target[Server] = Stranger /\ peer \notin alive)
         /\ client[peer] = "open" => target[peer] = Server

\* A wait times out no more than a fraction of a millisecond before the time
\* that its user gave, and never when no time was given, for times below
\* 0xFFFFFFFF milliseconds.
TimesOutOnTime ==
  \A p \in expired :
    /\ asked[p] # NoTimeout
    /\ asked[p] < Forever * UnitsPerMilli
         => (waited[p] + 1) * UnitsPerMilli > asked[p]

\* Every connect returns, unless it waits without a limit for a pipe that
\* somebody has, and every client that got a channel comes to be served, or
\* finds it hung up: none is left with a channel that nobody will ever accept.
EverybodyAnswered ==
  \A c \in Clients :
    /\ client[c] \in {"waiting", "creating", "identifying"}
         ~> \/ client[c] \in {"open", "failed", "gone"}
            \/ platform = "windows" /\ Wait(c) = Forever /\ ~Listening /\ ~PipeGone
    /\ client[c] = "open"
         ~> client[c] = "gone" \/ ~Connected(c) \/ (server = "open" /\ peer = c)

\* As TimesOutOnTime, for all times.
AlwaysTimesOutOnTime ==
  \A p \in expired : (waited[p] + 1) * UnitsPerMilli > asked[p]
=============================================================================
