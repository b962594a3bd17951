------------------------------ MODULE WinChannel ------------------------------
(***************************************************************************)
(* A MessageChannel on Windows: the framing of src/src/ser.rs over a       *)
(* message pipe, and the handle passing of src/src/windows/mod.rs and      *)
(* src/src/windows/channel.rs.                                             *)
(*                                                                         *)
(* Nothing but bytes travels in the pipe.  To send a handle the sender     *)
(* duplicates it into the receiver's handle table while it serializes, and *)
(* the message has the number it got there; the duplicates have no owner   *)
(* until the receiver deserializes the message.  A call that returns       *)
(* NotReady or an error before it changed anything is a stuttering step.   *)
(***************************************************************************)
EXTENDS Integers, Sequences, FiniteSets

CONSTANTS
  Home,            \* Home[e]: the process that has end e
  SealedEnds,      \* the ends made with into_sealed_channel
  Passes,          \* times bincode walks a value it serializes
  HandleLimit,     \* size of the handle table of a process
  Files,           \* Files[p]: number of files and sockets p has at first
  Sockets,         \* the numbers of those that are sockets
  MaxFiles,        \* bound: files and sockets in one message
  Sizes,           \* the serialized lengths of messages
  MaxMessageSize,  \* max_message_size
  QueueLimit       \* messages the pipe takes before it blocks

Ends == {"a", "b"}
Peer(e) == CHOOSE f \in Ends : f # e
Processes == {Home[e] : e \in Ends}

ASSUME WinChannelAssumption ==
  /\ DOMAIN Home = Ends
  /\ SealedEnds \subseteq Ends
  /\ Passes \in Nat \ {0} /\ QueueLimit \in Nat \ {0}
  /\ {HandleLimit, MaxFiles, MaxMessageSize} \subseteq Nat
  /\ Files \in [Processes -> 0 .. HandleLimit] /\ Sockets \subseteq Nat
  /\ Sizes \subseteq Nat

VARIABLES
  table,     \* table[p]: the handle table of process p
  owned,     \* owned[p]: the handles that Files and sockets in p will close
  buffered,  \* buffered[e]: buffered_send, a message or NoMessage
  wire,      \* wire[e]: the messages in the pipe for the reader of e
  closed,    \* closed[e]: e was dropped
  outcome    \* history: what the last poll of each end returned

vars == <<table, owned, buffered, wire, closed, outcome>>

Handles == 1 .. HandleLimit

\* What a handle refers to: <<p, n>> was handle n of process p at first.
NotOpen == <<"none", 0>>
IsSocket(res) == res[2] \in Sockets

Least(x, y) == IF x < y THEN x ELSE y

FreeHandles(t) == {h \in Handles : t[h] = NotOpen}

\* DuplicateHandle takes free entries, another one each time.
Allocate(t, k) ==
  CHOOSE hs \in [1 .. k -> FreeHandles(t)] :
    \A i, j \in 1 .. k : hs[i] = hs[j] => i = j

\* Table t with entry hs[i] referring to res[i].
Install(t, hs, res) ==
  [h \in Handles |->
    IF \E i \in DOMAIN hs : hs[i] = h
    THEN res[CHOOSE i \in DOMAIN hs : hs[i] = h]
    ELSE t[h]]

CloseAll(t, hs) == [h \in Handles |-> IF h \in hs THEN NotOpen ELSE t[h]]

SeqSet(s) == {s[i] : i \in DOMAIN s}

NoMessage == [size |-> -1, handles |-> <<>>, want |-> <<>>]

Outcome(kind, made, intact) == [kind |-> kind, made |-> made, intact |-> intact]

Init ==
  /\ table = [p \in Processes |->
               [h \in Handles |-> IF h <= Files[p] THEN <<p, h>> ELSE NotOpen]]
  /\ owned = [p \in Processes |-> 1 .. Files[p]]
  /\ buffered = [e \in Ends |-> NoMessage]
  /\ wire = [e \in Ends |-> <<>>]
  /\ closed = [e \in Ends |-> FALSE]
  /\ outcome = [e \in Ends |-> Outcome("none", 0, TRUE)]
-----------------------------------------------------------------------------
(***************************************************************************)
(* Sending.                                                                *)
(***************************************************************************)

\* Mutant: a sealed end has a target like any other.
MaySendUnsealed(e) == TRUE

\* The HandleTarget of e is not None.
MaySend(e) == e \notin SealedEnds

\* HandleSender::send for each file of a value and WSADuplicateSocketW for each
\* socket, pass after pass: how many calls succeed, and what they duplicate.
SendCount(e, files) ==
  IF MaySend(e)
  THEN Least(Passes * Len(files), Cardinality(FreeHandles(table[Home[Peer(e)]])))
  ELSE 0

Duplicated(e, files, k) ==
  [i \in 1 .. k |-> table[Home[e]][files[((i - 1) % Len(files)) + 1]]]

\* Mutant: commit leaves the list of handles as it is.
CommitKeeps(handles) == handles

\* ChannelSerializeGuard::commit: the sender forgets the handles it sent.
Commit(handles) == {}

\* Mutant: the sender closes nothing.
SenderDropNothing(t, handles) == t

\* The handles that the sender has in its list: sockets are duplicated without
\* it.
Listed(handles, res) == {handles[i] : i \in {j \in DOMAIN handles : ~IsSocket(res[j])}}

\* HandleSender::drop closes the handles that were sent and not forgotten.
SenderDrop(t, handles) == CloseAll(t, handles)

\* What is in the pipes once the buffered message of e was written.
FlushedWire(e) ==
  IF buffered[e] = NoMessage THEN wire
  ELSE [wire EXCEPT ![Peer(e)] = Append(@, buffered[e])]

\* The pipe takes a message.
WriteTaken(e) == ~closed[Peer(e)] /\ Len(wire[Peer(e)]) < QueueLimit

\* start_send: what is buffered goes out, then the value is serialized.
StartSend(e, size, files) ==
  LET p    == Home[Peer(e)]
      k    == SendCount(e, files)
      sent == Allocate(table[p], k)
      n    == Len(files)
      ok   == size <= MaxMessageSize /\ k = Passes * n
      done == IF size <= MaxMessageSize THEN {k} ELSE 0 .. Least(k, n)
  IN  /\ ~closed[e]
      /\ files # <<>> => size > 0
      /\ buffered[e] = NoMessage \/ WriteTaken(e)
      /\ wire' = FlushedWire(e)
      /\ \E d \in done :
           LET handles == SubSeq(sent, 1, d)
               res     == Duplicated(e, files, d)
               kept    == Listed(handles, res)
           IN  table' = [table EXCEPT ![p] =
                 SenderDrop(Install(@, handles, res), IF ok THEN Commit(kept) ELSE kept)]
      /\ buffered' = [buffered EXCEPT ![e] =
           IF ok THEN [size    |-> size,
                       handles |-> SubSeq(sent, (Passes - 1) * n + 1, k),
                       want    |-> Duplicated(e, files, n)]
           ELSE NoMessage]
      /\ UNCHANGED <<owned, closed, outcome>>

\* Mutant: the message stays buffered.
PollCompleteAgain(e) ==
  /\ ~closed[e]
  /\ buffered[e] # NoMessage
  /\ WriteTaken(e)
  /\ wire' = FlushedWire(e)
  /\ UNCHANGED <<table, owned, buffered, closed, outcome>>

\* poll_complete
PollComplete(e) ==
  /\ ~closed[e]
  /\ buffered[e] # NoMessage
  /\ WriteTaken(e)
  /\ wire' = FlushedWire(e)
  /\ buffered' = [buffered EXCEPT ![e] = NoMessage]
  /\ UNCHANGED <<table, owned, closed, outcome>>
-----------------------------------------------------------------------------
(***************************************************************************)
(* Receiving, and the users.                                               *)
(***************************************************************************)

\* Each number in a message becomes a handle that its user owns, as a File or,
\* by way of WSASocketW, as a socket.
Adopted(m) == SeqSet(m.handles)

\* poll; a message of length zero counts as the end of the stream.
Poll(e) ==
  /\ ~closed[e]
  /\ wire[e] # <<>>
  /\ wire' = [wire EXCEPT ![e] = Tail(@)]
  /\ LET m == Head(wire[e])
         p == Home[e]
     IN  IF m.size = 0
         THEN /\ outcome' = [outcome EXCEPT ![e] = Outcome("eof", 0, TRUE)]
              /\ UNCHANGED owned
         ELSE /\ outcome' = [outcome EXCEPT ![e] =
                   Outcome("message", Len(m.handles),
                           \A i \in DOMAIN m.want : table[p][m.handles[i]] = m.want[i])]
              /\ owned' = [owned EXCEPT ![p] = @ \cup Adopted(m)]
  /\ UNCHANGED <<table, buffered, closed>>

\* poll, after the peer has gone and everything was read.
PollEnd(e) ==
  /\ ~closed[e]
  /\ wire[e] = <<>> /\ closed[Peer(e)]
  /\ outcome' = [outcome EXCEPT ![e] = Outcome("eof", 0, TRUE)]
  /\ UNCHANGED <<table, owned, buffered, wire, closed>>

\* A user drops one of its files or sockets.
DropFile(p, h) ==
  /\ h \in owned[p]
  /\ table' = [table EXCEPT ![p][h] = NotOpen]
  /\ owned' = [owned EXCEPT ![p] = @ \ {h}]
  /\ UNCHANGED <<buffered, wire, closed, outcome>>

\* The channel is dropped, with what it has not sent and not read.
DropChannel(e) ==
  /\ ~closed[e]
  /\ closed' = [closed EXCEPT ![e] = TRUE]
  /\ buffered' = [buffered EXCEPT ![e] = NoMessage]
  /\ wire' = [wire EXCEPT ![e] = <<>>]
  /\ UNCHANGED <<table, owned, outcome>>

FileLists(e) == UNION {[1 .. n -> owned[Home[e]]] : n \in 0 .. MaxFiles}

Next ==
  \/ \E e \in Ends :
       \/ \E size \in Sizes, files \in FileLists(e) : StartSend(e, size, files)
       \/ PollComplete(e) \/ Poll(e) \/ PollEnd(e) \/ DropChannel(e)
  \/ \E p \in Processes : \E h \in owned[p] : DropFile(p, h)

Spec == Init /\ [][Next]_vars
-----------------------------------------------------------------------------
(***************************************************************************)
(* Properties                                                              *)
(***************************************************************************)

\* The messages that are on their way to end e, sent or not.
Underway(e) ==
  SeqSet(wire[e]) \cup
  (IF buffered[Peer(e)] = NoMessage THEN {} ELSE {buffered[Peer(e)]})

\* The handles that such messages put into the table of process p.
Pending(p) ==
  UNION {SeqSet(m.handles) : m \in UNION {Underway(e) : e \in {f \in Ends : Home[f] = p}}}

\* A value that poll returns has the very files it was sent with, however long
\* the message was buffered and whatever the users have dropped meanwhile.
ReceivedIntact == \A e \in Ends : outcome[e].kind = "message" => outcome[e].intact

\* A handle on its way is open and nobody's: no two objects will close it.
HandlesApart ==
  \A p \in Processes :
    \A h \in Pending(p) : table[p][h] # NotOpen /\ h \notin owned[p]

\* While both ends are kept no handle is lost: each one that is open belongs to
\* an object or to a message, those of values that were given up included ("we
\* should close all the handles we sent").  A socket that was given up stays
\* open in the receiver: it is not among those handles.
NoStrayHandle ==
  (\A e \in Ends : ~closed[e]) =>
    \A p \in Processes :
      \A h \in Handles \ FreeHandles(table[p]) :
        h \in owned[p] \cup Pending(p) \/ IsSocket(table[p][h])

\* As NoStrayHandle, for sockets too.
NoStraySocket ==
  (\A e \in Ends : ~closed[e]) =>
    \A p \in Processes :
      \A h \in Handles \ FreeHandles(table[p]) : h \in owned[p] \cup Pending(p)

\* "Sealed channels cannot transmit OS resources": no value that poll returns
\* has files of a sealed end.
SealedCarriesNone ==
  \A e \in SealedEnds : outcome[Peer(e)].made = 0
=============================================================================
