----------------------------- MODULE UnixChannel -----------------------------
(***************************************************************************)
(* A MessageChannel between two processes on a unix system: the framing of *)
(* src/src/ser.rs (BincodeDatagram) over the socket and the control message *)
(* of src/src/unix/channel.rs and src/src/unix/mod.rs.                      *)
(*                                                                         *)
(* Each end keeps ONE control message buffer (Cmsg), which its reads and   *)
(* its writes share, and at most one serialized message that the socket    *)
(* has not taken yet (buffered_send).  Descriptors travel in the control   *)
(* message; the body of a message only has their indices.  A call that     *)
(* returns NotReady or an error before it changed anything is a stuttering *)
(* step.                                                                   *)
(***************************************************************************)
EXTENDS Integers, Sequences, FiniteSets

CONSTANTS
  MaxFds,             \* MAX_MSG_FDS, the descriptors a Cmsg has room for
  Passes,             \* times bincode walks a value it serializes
  FdLimit,            \* size of the descriptor table of a process
  Files,              \* Files[e]: number of files the user of e has at first
  MaxFiles,           \* bound: MaxFiles[e] files in a message of e
  Sizes,              \* the serialized lengths of messages
  MaxMessageSize,     \* max_message_size
  QueueLimit,         \* messages the kernel queues for one reader
  StartRaw,           \* do the ends start as a RawMessageChannel pair?
  MayStarve,          \* may a descriptor table be too full for a message?
  Uses,               \* the ways in which users may use the channel
  SealedEnds          \* the ends made with into_sealed_channel

Ends == {"a", "b"}
Peer(e) == CHOOSE f \in Ends : f # e

ASSUME ChannelAssumption ==
  /\ MaxFds \in Nat \ {0} /\ Passes \in Nat \ {0} /\ QueueLimit \in Nat \ {0}
  /\ FdLimit \in Nat /\ MaxMessageSize \in Nat
  /\ {Files, MaxFiles} \subseteq [Ends -> Nat] /\ \A e \in Ends : Files[e] < FdLimit
  /\ Sizes \subseteq Nat
  /\ {StartRaw, MayStarve} \subseteq BOOLEAN
  /\ Uses \subseteq {"flush_first", "bytes", "split"}
  /\ SealedEnds \subseteq Ends

VARIABLES
  table,     \* table[e]: the descriptors of the process that has e
  owned,     \* owned[e]: the descriptors its user has Files for
  cmsg,      \* cmsg[e]: the control message buffer
  buffered,  \* buffered[e]: buffered_send, a body or NoBody
  wire,      \* wire[e]: what the kernel queues for the reader of e
  raw,       \* raw: the ends are RawMessageChannels
  shut,      \* shut: shutdown was called at one of the raw ends
  closed,    \* closed[e]: e was dropped
  use,       \* how the users use the channel, chosen at first
  outcome    \* history: what the last poll of each end returned

vars == <<table, owned, cmsg, buffered, wire, raw, shut, closed, use, outcome>>
-----------------------------------------------------------------------------
(***************************************************************************)
(* Descriptors                                                             *)
(***************************************************************************)
Fds == 0 .. FdLimit - 1

\* What a descriptor refers to: <<e, n>> is the open file that was descriptor
\* n of e's process at first; descriptor 0 is its standard input.
NotOpen == <<"none", 0>>

Least(x, y) == IF x < y THEN x ELSE y

FreeFds(t) == {f \in Fds : t[f] = NotOpen}

\* The kernel gives out the lowest free numbers.
Allocate(t, k) ==
  LET free == FreeFds(t)
  IN  [i \in 1 .. k |->
        CHOOSE f \in free : Cardinality({g \in free : g < f}) = i - 1]

\* Table t with descriptor fds[i] referring to res[i].
Install(t, fds, res) ==
  [f \in Fds |->
    IF \E i \in DOMAIN fds : fds[i] = f
    THEN res[CHOOSE i \in DOMAIN fds : fds[i] = f]
    ELSE t[f]]

CloseAll(t, fds) == [f \in Fds |-> IF f \in fds THEN NotOpen ELSE t[f]]
-----------------------------------------------------------------------------
(***************************************************************************)
(* Cmsg.  present stands for msg_controllen > 0 and count for the number   *)
(* of descriptors that cmsg_len makes room for.                            *)
(***************************************************************************)
NewCmsg == [present |-> TRUE, count |-> MaxFds, fds |-> [i \in 1 .. MaxFds |-> 0]]

\* Mutant: the length is left as it was.
SetFdsKeepsCount(c, fds) ==
  [c EXCEPT !.present = TRUE,
            !.fds = [i \in 1 .. MaxFds |-> IF i \in DOMAIN fds THEN fds[i] ELSE c.fds[i]]]

\* set_fds
SetFds(c, fds) ==
  [present |-> TRUE,
   count   |-> Len(fds),
   fds     |-> [i \in 1 .. MaxFds |-> IF i \in DOMAIN fds THEN fds[i] ELSE c.fds[i]]]

\* Mutant: the room that the last message left is not extended again.
ResetKeepsCount(c) == [c EXCEPT !.present = TRUE]

\* reset_fd_count
ResetFdCount(c) == [c EXCEPT !.present = TRUE, !.count = MaxFds]

\* recvmsg with the descriptors it installed: with none the kernel zeroes
\* msg_controllen and leaves the buffer alone.
FilledCmsg(c, fds) ==
  IF fds = <<>> THEN [c EXCEPT !.present = FALSE] ELSE SetFds(c, fds)

\* What sendmsg transmits: the descriptors of the control message.
Attached(e) ==
  IF cmsg[e].present
  THEN [i \in 1 .. cmsg[e].count |-> table[e][cmsg[e].fds[i]]]
  ELSE <<>>
-----------------------------------------------------------------------------
(***************************************************************************)
(* Messages.  A body has the serialized length, what its descriptors are   *)
(* meant to be, and the index of the first of them, less one.              *)
(***************************************************************************)
NoBody == [size |-> -1, want |-> <<>>, base |-> 0]

Body(size, want) ==
  [size |-> size, want |-> want, base |-> (Passes - 1) * Len(want)]

Message(body, rights) == [body |-> body, rights |-> rights]

\* HandleSender::send for each descriptor of a message, pass after pass: the
\* n-th call duplicates files[Cycle(files, n)].
Cycle(files, n) == ((n - 1) % Len(files)) + 1

DupResources(t, files, k) == [i \in 1 .. k |-> t[files[Cycle(files, i)]]]

\* Calls that succeed before the array or the descriptor table is full.
DupCount(t, files) ==
  Least(Passes * Len(files), Least(MaxFds, Cardinality(FreeFds(t))))

\* What poll returned, and whether its files are the ones that the sender named.
Outcome(kind, intact) == [kind |-> kind, intact |-> intact]

Report(e, o) == outcome' = [outcome EXCEPT ![e] = o]
-----------------------------------------------------------------------------
\* The files that the user of e has at first: none if it will only send bytes.
FirstFiles(e) == IF use = "bytes" THEN 0 ELSE Files[e]

\* MessageChannel::pair or RawMessageChannel::pair has returned.
Init ==
  /\ use \in Uses
  /\ table = [e \in Ends |->
       [f \in Fds |-> IF f <= FirstFiles(e) THEN <<e, f>> ELSE NotOpen]]
  /\ owned = [e \in Ends |-> 1 .. FirstFiles(e)]
  /\ cmsg = [e \in Ends |-> NewCmsg]
  /\ buffered = [e \in Ends |-> NoBody]
  /\ wire = [e \in Ends |-> <<>>]
  /\ raw = (StartRaw /\ use # "bytes")
  /\ shut = FALSE
  /\ closed = [e \in Ends |-> FALSE]
  /\ outcome = [e \in Ends |-> Outcome("none", TRUE)]

\* sendmsg takes a message: it has room, the peer is there and the socket not
\* shut down (otherwise EPIPE), and every attached descriptor is open
\* (otherwise EBADF).
SendTaken(e) ==
  /\ ~closed[Peer(e)] /\ ~shut
  /\ Len(wire[Peer(e)]) < QueueLimit
  /\ \A i \in DOMAIN Attached(e) : Attached(e)[i] # NotOpen

\* The queues once e's buffered message was sent, if there was one.
FlushedWire(e) ==
  IF buffered[e] = NoBody THEN wire
  ELSE [wire EXCEPT ![Peer(e)] = Append(@, Message(buffered[e], Attached(e)))]

\* Mutant: the descriptors themselves go into the control message.
SerializedNoDup(e, size, files) ==
  LET n  == Passes * Len(files)
      ok == size <= MaxMessageSize /\ n <= MaxFds
  IN  /\ cmsg' = IF ok THEN [cmsg EXCEPT ![e] =
                        SetFds(@, [i \in 1 .. n |-> files[Cycle(files, i)]])]
                 ELSE cmsg
      /\ buffered' = [buffered EXCEPT ![e] =
           IF ok THEN Body(size, [i \in DOMAIN files |-> table[e][files[i]]]) ELSE NoBody]
      /\ UNCHANGED table

\* Mutant: the guard is dropped without commit.
SerializedNoCommit(e, size, files) ==
  LET t == table[e]
      k == DupCount(t, files)
  IN  /\ table' = [table EXCEPT ![e] =
                    Install(t, Allocate(t, k), DupResources(t, files, k))]
      /\ buffered' = [buffered EXCEPT ![e] =
           IF size <= MaxMessageSize /\ k = Passes * Len(files)
           THEN Body(size, [i \in DOMAIN files |-> t[files[i]]]) ELSE NoBody]
      /\ UNCHANGED cmsg

\* Serializing a value: its descriptors are duplicated, commit puts the
\* duplicates into the control message, and the body is buffered.  A value that
\* is too long, or has too many descriptors, is given up with an error; the
\* duplicates made until then stay open, as do those of a message that is sent.
Serialized(e, size, files) ==
  LET t    == table[e]
      k    == DupCount(t, files)
      dups == Allocate(t, k)
      ok   == size <= MaxMessageSize /\ k = Passes * Len(files)
      done == IF size <= MaxMessageSize THEN {k} ELSE 0 .. Least(k, Len(files))
  IN  /\ \E d \in done :
           table' = [table EXCEPT ![e] =
                      Install(t, SubSeq(dups, 1, d), DupResources(t, files, d))]
      /\ cmsg' = IF ok THEN [cmsg EXCEPT ![e] = SetFds(@, dups)] ELSE cmsg
      /\ buffered' = [buffered EXCEPT ![e] =
           IF ok THEN Body(size, [i \in DOMAIN files |-> t[files[i]]]) ELSE NoBody]

\* start_send: a message that is buffered already goes out first.
StartSend(e, size, files) ==
  /\ ~raw /\ ~closed[e]
  /\ files # <<>> => size > 0
  /\ buffered[e] = NoBody \/ SendTaken(e)
  /\ wire' = FlushedWire(e)
  /\ Serialized(e, size, files)
  /\ UNCHANGED <<owned, raw, shut, closed, use, outcome>>

\* poll_complete
PollComplete(e) ==
  /\ ~raw /\ ~closed[e]
  /\ buffered[e] # NoBody
  /\ SendTaken(e)
  /\ wire' = FlushedWire(e)
  /\ buffered' = [buffered EXCEPT ![e] = NoBody]
  /\ UNCHANGED <<table, owned, cmsg, raw, shut, closed, use, outcome>>
-----------------------------------------------------------------------------
(***************************************************************************)
(* Reading.                                                                *)
(***************************************************************************)

\* Mutant: input waits for the output.
MayReadFlushed(e) == ~closed[e] /\ buffered[e] = NoBody

\* May the user of e ask for input now?  Some users do so only when nothing is
\* buffered; those that send no files, or do not care, do so at any time.
MayRead(e) == ~closed[e] /\ (use = "flush_first" => buffered[e] = NoBody)

\* recvmsg takes the first message: how many of its descriptors it installs,
\* under which numbers, and what becomes of the table.
RecvCount(e) ==
  Least(Len(Head(wire[e]).rights),
        Least(ResetFdCount(cmsg[e]).count, Cardinality(FreeFds(table[e]))))

Starved(e) ==
  Cardinality(FreeFds(table[e])) < Least(MaxFds, Len(Head(wire[e]).rights))

\* Starving is left out where files travel, unless the instance asks for it.
MayReceive(e) == MayStarve \/ use = "bytes" \/ ~Starved(e)

Received(e) == Allocate(table[e], RecvCount(e))

RecvTable(e) == Install(table[e], Received(e), Head(wire[e]).rights)

RecvCmsg(e) == FilledCmsg(ResetFdCount(cmsg[e]), Received(e))

\* HandleReceiver::recv: index is in range and the descriptor is open.
RecvIndex(c, t, index) == index <= c.count /\ t[c.fds[index]] # NotOpen

\* Deserializing a body out of control message c in table t stops at the
\* first descriptor that recv refuses; those it made already are dropped.
Deserialize(e, body, c, t) ==
  LET fd(i) == c.fds[body.base + i]
      n == Len(body.want)
      bad == {i \in 1 .. n : ~RecvIndex(c, t, body.base + i)}
      made == IF bad = {} THEN {fd(i) : i \in 1 .. n}
              ELSE {fd(i) : i \in {j \in 1 .. n : \A m \in bad : j < m}}
  IN  IF bad = {} /\ body.size <= MaxMessageSize
      THEN /\ table' = [table EXCEPT ![e] = t]
           /\ owned' = [owned EXCEPT ![e] = @ \cup made]
           /\ Report(e, Outcome("message", \A i \in 1 .. n : t[fd(i)] = body.want[i]))
      ELSE /\ table' = [table EXCEPT ![e] = CloseAll(t, made)]
           /\ owned' = [owned EXCEPT ![e] = @ \ made]
           /\ Report(e, Outcome("error", TRUE))

\* poll finds a message; one of length zero counts as the end of the stream.
Poll(e) ==
  /\ ~raw /\ MayRead(e)
  /\ wire[e] # <<>>
  /\ MayReceive(e)
  /\ wire' = [wire EXCEPT ![e] = Tail(@)]
  /\ cmsg' = [cmsg EXCEPT ![e] = RecvCmsg(e)]
  /\ LET m == Head(wire[e]) IN
         IF m.body.size = 0
         THEN /\ table' = [table EXCEPT ![e] = RecvTable(e)]
              /\ Report(e, Outcome("eof", TRUE))
              /\ UNCHANGED owned
         ELSE Deserialize(e, m.body, RecvCmsg(e), RecvTable(e))
  /\ UNCHANGED <<buffered, raw, shut, closed, use>>

\* Nothing can arrive any more.
Ended(e) == closed[Peer(e)] \/ shut

\* Mutant: EAGAIN is taken for a length of zero.
PollEmptyEnds(e) ==
  /\ MayRead(e)
  /\ wire[e] = <<>>
  /\ cmsg' = [cmsg EXCEPT ![e] = ResetFdCount(@)]
  /\ Report(e, Outcome("eof", TRUE))
  /\ UNCHANGED <<table, owned, buffered, wire, raw, shut, closed, use>>

\* poll, or a raw read, that finds nothing although the socket was thought
\* readable: EAGAIN, or the end of the stream if there is nothing to come.
PollEmpty(e) ==
  /\ MayRead(e)
  /\ wire[e] = <<>>
  /\ cmsg' = [cmsg EXCEPT ![e] =
       [ResetFdCount(@) EXCEPT !.present = ~Ended(e)]]
  /\ outcome' = IF Ended(e) /\ ~raw
                THEN [outcome EXCEPT ![e] = Outcome("eof", TRUE)]
                ELSE outcome
  /\ UNCHANGED <<table, owned, buffered, wire, raw, shut, closed, use>>
-----------------------------------------------------------------------------
(***************************************************************************)
(* RawMessageChannel, and the users.                                       *)
(***************************************************************************)

\* io::Write::write
RawWrite(e) ==
  /\ raw /\ ~closed[e]
  /\ SendTaken(e)
  /\ wire' = [wire EXCEPT ![Peer(e)] = Append(@, Message(Body(1, <<>>), Attached(e)))]
  /\ UNCHANGED <<table, owned, cmsg, buffered, raw, shut, closed, use, outcome>>

\* io::Read::read
RawRead(e) ==
  /\ raw /\ ~closed[e]
  /\ wire[e] # <<>>
  /\ MayReceive(e)
  /\ wire' = [wire EXCEPT ![e] = Tail(@)]
  /\ cmsg' = [cmsg EXCEPT ![e] = RecvCmsg(e)]
  /\ table' = [table EXCEPT ![e] = RecvTable(e)]
  /\ UNCHANGED <<owned, buffered, raw, shut, closed, use, outcome>>

\* MessageChannel::from_raw, at both ends and at a point they agreed on.
FromRaw ==
  /\ raw
  /\ \A e \in Ends : ~closed[e] /\ wire[e] = <<>>
  /\ raw' = FALSE
  /\ UNCHANGED <<table, owned, cmsg, buffered, wire, shut, closed, use, outcome>>

\* AsyncWrite::shutdown, both directions: what is queued can still be read.
RawShutdown(e) ==
  /\ raw /\ ~closed[e]
  /\ shut' = TRUE
  /\ UNCHANGED <<table, owned, cmsg, buffered, wire, raw, closed, use, outcome>>

\* The user drops one of its files.
DropFile(e, f) ==
  /\ f \in owned[e]
  /\ table' = [table EXCEPT ![e][f] = NotOpen]
  /\ owned' = [owned EXCEPT ![e] = @ \ {f}]
  /\ UNCHANGED <<cmsg, buffered, wire, raw, shut, closed, use, outcome>>

\* The channel is dropped, with what it has not sent and not read.
DropChannel(e) ==
  /\ ~closed[e]
  /\ closed' = [closed EXCEPT ![e] = TRUE]
  /\ buffered' = [buffered EXCEPT ![e] = NoBody]
  /\ wire' = [wire EXCEPT ![e] = <<>>]
  /\ UNCHANGED <<table, owned, cmsg, raw, shut, use, outcome>>

\* What the values that users send name: their files, or standard input, which
\* stays open as long as the process runs.
FileLists(e) ==
  UNION {[1 .. n -> owned[e] \cup {0}] :
           n \in 0 .. IF use = "bytes" THEN 0 ELSE MaxFiles[e]}

Next ==
  \/ \E e \in Ends :
       \/ \E size \in Sizes, files \in FileLists(e) : StartSend(e, size, files)
       \/ PollComplete(e) \/ Poll(e) \/ PollEmpty(e)
       \/ RawWrite(e) \/ RawRead(e) \/ RawShutdown(e) \/ DropChannel(e)
       \/ \E f \in owned[e] : DropFile(e, f)
  \/ FromRaw

Spec == Init /\ [][Next]_vars

\* The event loops of users that read at any time keep polling: a task that a
\* socket's readiness wakes polls the stream and flushes the sink.  Of the other
\* users nothing is expected.
Fairness ==
  \A e \in Ends : /\ WF_vars(use = "bytes" /\ PollComplete(e))
                  /\ WF_vars(use = "bytes" /\ Poll(e))

FairSpec == Spec /\ Fairness
-----------------------------------------------------------------------------
(***************************************************************************)
(* Properties                                                              *)
(***************************************************************************)

\* A message carries the descriptors that its value names, and no other: what
\* is queued with it is one copy of them for each pass of the serializer,
\* whatever the end has read before and whatever its user has dropped since.
\* Users that send bytes only read while a message is buffered, and what goes
\* out with it then is of no account to them.
RightsMatch ==
  ~raw /\ use # "bytes" => \A e \in Ends : \A j \in DOMAIN wire[e] :
    LET m == wire[e][j] IN
      m.rights = [i \in 1 .. Passes * Len(m.body.want) |->
                   m.body.want[Cycle(m.body.want, i)]]

\* A value that poll returns has the very files it was sent with.
ReceivedIntact == \A e \in Ends : outcome[e].kind = "message" => outcome[e].intact

\* poll refuses no message of a peer that serializes as this crate does.
NothingRefused == \A e \in Ends : outcome[e].kind # "error"

\* A message that start_send took can be sent: the descriptors of the control
\* message stay open "in case they are dropped before the message is sent".
BufferedSendable ==
  \A e \in Ends : buffered[e] # NoBody =>
    \A i \in DOMAIN Attached(e) : Attached(e)[i] # NotOpen

\* poll reports the end of the stream only when the peer has gone, or one of
\* the two shut the socket down before it became a message channel.
EofMeansClosed ==
  \A e \in Ends : outcome[e].kind = "eof" => closed[Peer(e)] \/ shut

\* A raw channel carries bytes: no descriptor travels with them.
RawCarriesBytes ==
  raw => \A e \in Ends : \A j \in DOMAIN wire[e] : wire[e][j].rights = <<>>

\* "Sealed channels cannot transmit OS resources": no message of a sealed end
\* names files.
SealedCarriesNone ==
  \A e \in SealedEnds : \A j \in DOMAIN wire[Peer(e)] :
    wire[Peer(e)][j].body.want = <<>>

\* A buffered message of users that read at any time gets its turn: as long as
\* both ends are kept, the socket comes to take it.  The two ends never wait for
\* each other, each with a full queue before it and a message of its own.
BufferedGetsTurn ==
  \A e \in Ends :
    (use = "bytes" /\ buffered[e] # NoBody)
      ~> (buffered[e] = NoBody \/ SendTaken(e) \/ \E f \in Ends : closed[f])
=============================================================================
