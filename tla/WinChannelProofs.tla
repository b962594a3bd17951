--------------------------- MODULE WinChannelProofs ---------------------------
(***************************************************************************)
(* Proofs about WinChannel, for every size of the handle tables and of the *)
(* pipe, every number of files, sockets and messages, and both for ends in *)
(* two processes and for ends in one.                                      *)
(***************************************************************************)
EXTENDS WinChannel, FiniteSetTheorems, SequenceTheorems, TLAPS

Resources == (Processes \X Handles) \cup {NotOpen}

Message == [size : Nat, handles : Seq(Handles), want : Seq(Resources)]

\* The messages on their way to end e, in the order they will be read.
Line(e) ==
  IF buffered[Peer(e)] = NoMessage THEN wire[e]
  ELSE Append(wire[e], buffered[Peer(e)])
-----------------------------------------------------------------------------
(***************************************************************************)
(* The inductive invariant                                                 *)
(***************************************************************************)
Typed ==
  /\ table \in [Processes -> [Handles -> Resources]]
  /\ owned \in [Processes -> SUBSET Handles]
  /\ buffered \in [Ends -> Message \cup {NoMessage}]
  /\ wire \in [Ends -> Seq(Message)]
  /\ closed \in [Ends -> BOOLEAN]
  /\ outcome \in [Ends -> [kind   : {"none", "message", "eof"},
                          made   : Nat,
                          intact : BOOLEAN]]

\* What a File or a socket will close is open.
OwnedOpen == \A p \in Processes : \A h \in owned[p] : table[p][h] # NotOpen

\* A message for end e has a handle of its own for each resource of its value,
\* which refers to that resource and has no owner.
Delivers(m, e) ==
  /\ Len(m.handles) = Len(m.want)
  /\ \A i, j \in DOMAIN m.handles : m.handles[i] = m.handles[j] => i = j
  /\ \A i \in DOMAIN m.handles :
       /\ table[Home[e]][m.handles[i]] = m.want[i]
       /\ m.want[i] # NotOpen
       /\ m.handles[i] \notin owned[Home[e]]

\* Such a message is empty when its sender is sealed or its length is zero.
MayCarry(m, e) ==
  (Peer(e) \in SealedEnds \/ m.size = 0) => m.handles = <<>>

Delivered ==
  \A e \in Ends : \A i \in DOMAIN Line(e) :
    Delivers(Line(e)[i], e) /\ MayCarry(Line(e)[i], e)

\* Two messages on their way to the same process share no handle.
OneMessage ==
  \A e, f \in Ends : Home[e] = Home[f] =>
    \A i \in DOMAIN Line(e), j \in DOMAIN Line(f) :
      (e # f \/ i # j) =>
        SeqSet(Line(e)[i].handles) \cap SeqSet(Line(f)[j].handles) = {}

\* What the last polls returned.
Outcomes ==
  /\ ReceivedIntact
  /\ SealedCarriesNone

IndInv == Typed /\ OwnedOpen /\ Delivered /\ OneMessage /\ Outcomes

\* Handle h of process p has an owner or is in a message that will find one.
Accounted(p, h) ==
  \/ h \in owned[p]
  \/ \E e \in Ends : Home[e] = p /\ \E i \in DOMAIN Line(e) : h \in SeqSet(Line(e)[i].handles)
  \/ IsSocket(table[p][h])

\* No handle without either, as long as both ends are kept.
AllAccounted ==
  (\A e \in Ends : ~closed[e]) =>
    \A p \in Processes : \A h \in Handles : table[p][h] # NotOpen => Accounted(p, h)
-----------------------------------------------------------------------------
(***************************************************************************)
(* Handle tables                                                           *)
(***************************************************************************)

\* The two ends are each other's peers.
LEMMA Peers ==
  /\ Peer("a") = "b" /\ Peer("b") = "a"
  /\ \A e \in Ends : Peer(e) \in Ends /\ Peer(e) # e /\ Peer(Peer(e)) = e
  /\ \A e \in Ends : \A f \in Ends : f # e => f = Peer(e)
  /\ \A e \in Ends : Home[e] \in Processes
<1>1. Peer("a") = "b"
  <2>1. \E f \in Ends : f # "a"
    BY DEF Ends
  <2> QED
    BY <2>1 DEF Peer, Ends
<1>2. Peer("b") = "a"
  <2>1. \E f \in Ends : f # "b"
    BY DEF Ends
  <2> QED
    BY <2>1 DEF Peer, Ends
<1> QED
  BY <1>1, <1>2 DEF Ends, Processes

\* The constants are numbers, and no resource is NotOpen.
LEMMA Numbers ==
  /\ Passes \in Nat \ {0} /\ QueueLimit \in Nat /\ HandleLimit \in Nat
  /\ MaxFiles \in Nat /\ MaxMessageSize \in Nat /\ Sizes \subseteq Nat
  /\ \A p \in Processes, h \in Handles : <<p, h>> # NotOpen
BY WinChannelAssumption DEF Handles, NotOpen

\* A message is not NoMessage, whose length no value has.
LEMMA MessageIsOne == NoMessage \notin Message
BY DEF NoMessage, Message

\* There are as many free entries as DuplicateHandle is asked to take.
LEMMA FreeFinite ==
  ASSUME NEW t PROVE Cardinality(FreeHandles(t)) \in Nat /\ IsFiniteSet(FreeHandles(t))
<1>1. IsFiniteSet(Handles)
  BY FS_Interval, Numbers DEF Handles
<1>2. FreeHandles(t) \in SUBSET Handles
  BY DEF FreeHandles
<1>3. IsFiniteSet(FreeHandles(t))
  BY <1>1, <1>2, FS_Subset
<1> QED
  BY <1>3, FS_CardinalityType

\* DuplicateHandle takes free entries, another one each time.
LEMMA Allocated ==
  ASSUME NEW t, NEW k \in Nat, k <= Cardinality(FreeHandles(t))
  PROVE  /\ Allocate(t, k) \in [1 .. k -> FreeHandles(t)]
         /\ \A i, j \in 1 .. k : Allocate(t, k)[i] = Allocate(t, k)[j] => i = j
<1> DEFINE free == FreeHandles(t)
           n == Cardinality(free)
<1>1. n \in Nat /\ ExistsBijection(1 .. n, free)
  BY FreeFinite, FS_CardinalityType
<1>f. PICK f : f \in Bijection(1 .. n, free)
  BY <1>1 DEF ExistsBijection
<1>2. f \in [1 .. n -> free] /\ \A i, j \in 1 .. n : f[i] = f[j] => i = j
  BY <1>f DEF Bijection, Injection, IsInjective
<1>3. \A i \in 1 .. k : i \in 1 .. n
  BY <1>1
<1> DEFINE g == [i \in 1 .. k |-> f[i]]
<1>4. g \in [1 .. k -> free] /\ \A i, j \in 1 .. k : g[i] = g[j] => i = j
  BY <1>2, <1>3
<1> QED
  BY <1>4 DEF Allocate

\* Installing resources under distinct handles changes those entries only.
LEMMA Installed ==
  ASSUME NEW t \in [Handles -> Resources], NEW k \in Nat,
         NEW hs \in [1 .. k -> Handles], NEW res \in [1 .. k -> Resources],
         \A i, j \in 1 .. k : hs[i] = hs[j] => i = j
  PROVE  /\ Install(t, hs, res) \in [Handles -> Resources]
         /\ \A i \in 1 .. k : Install(t, hs, res)[hs[i]] = res[i]
         /\ \A h \in Handles \ SeqSet(hs) : Install(t, hs, res)[h] = t[h]
<1>1. DOMAIN hs = 1 .. k
  OBVIOUS
<1>2. ASSUME NEW i \in 1 .. k PROVE Install(t, hs, res)[hs[i]] = res[i]
  <2>1. (CHOOSE j \in DOMAIN hs : hs[j] = hs[i]) = i
    BY <1>1
  <2> QED
    BY <1>1, <2>1 DEF Install
<1>3. ASSUME NEW h \in Handles \ SeqSet(hs) PROVE Install(t, hs, res)[h] = t[h]
  BY <1>1 DEF Install, SeqSet
<1>4. ASSUME NEW h \in Handles PROVE Install(t, hs, res)[h] \in Resources
  <2>1. CASE h \in SeqSet(hs)
    BY <1>1, <1>2, <2>1 DEF SeqSet
  <2>2. CASE h \notin SeqSet(hs)
    BY <1>3, <2>2
  <2> QED
    BY <2>1, <2>2
<1>5. DOMAIN Install(t, hs, res) = Handles
  BY DEF Install
<1> QED
  BY <1>2, <1>3, <1>4, <1>5 DEF Install

\* The first resources of the last pass are those of the value.
LEMMA PassStarts ==
  ASSUME NEW n \in Nat, NEW j \in 1 .. n,
         NEW base, base = (Passes - 1) * n, NEW i, i = base + j
  PROVE  /\ base \in Nat
         /\ Passes * n = base + n
         /\ (i - 1) % n = j - 1
         /\ (j - 1) % n = j - 1
<1>1. PICK a : a = Passes - 1
  OBVIOUS
<1>2. a \in Nat /\ Passes = a + 1 /\ n \in Nat \ {0}
  BY <1>1, Numbers
<1>b. base = a * n
  BY <1>1
<1>3. Passes * n = base + n /\ base \in Nat
  BY <1>b, <1>2
<1>4. PICK x : x = i - 1
  OBVIOUS
<1>5. PICK q : q = x \div n
  OBVIOUS
<1>6. PICK r : r = x % n
  OBVIOUS
<1>7. x \in Nat
  BY <1>3, <1>4
<1>8. q \in Int /\ r \in Nat /\ r < n /\ x = n * q + r
  BY <1>2, <1>5, <1>6, <1>7
<1>9. base = n * a /\ n * (a - q) = n * a - n * q
  BY <1>b, <1>2, <1>8
<1>10. n * (a - q) = r - (j - 1)
  BY <1>2, <1>3, <1>4, <1>7, <1>8, <1>9
<1>11. a = q
  <2>1. CASE a - q >= 1
    <3>1. n * (a - q) >= n
      BY <1>2, <1>8, <2>1
    <3> QED
      BY <1>2, <1>8, <1>10, <3>1
  <2>2. CASE a - q <= -1
    <3>1. n * (a - q) <= -n
      BY <1>2, <1>8, <2>2
    <3> QED
      BY <1>2, <1>8, <1>10, <3>1
  <2> QED
    BY <1>2, <1>8, <2>1, <2>2
<1>12. r = j - 1
  BY <1>2, <1>8, <1>10, <1>11
<1>13. (j - 1) % n = j - 1
  BY <1>2
<1> QED
  BY <1>3, <1>4, <1>6, <1>12, <1>13
-----------------------------------------------------------------------------
(***************************************************************************)
(* What start_send does                                                    *)
(***************************************************************************)

\* The step of end e makes entries of its peer's table refer to something, all
\* of them free before, and no other entry of any table.
OnlyFresh(e, fresh) ==
  /\ fresh \subseteq FreeHandles(table[Home[Peer(e)]])
  /\ table' \in [Processes -> [Handles -> Resources]]
  /\ \A q \in Processes, h \in Handles :
       (q # Home[Peer(e)] \/ h \notin fresh) => table'[q][h] = table[q][h]

\* They belong to message m, which the step puts at the end of the line.
Accepted(e, fresh, m) ==
  /\ m \in Message /\ MayCarry(m, Peer(e))
  /\ Len(m.handles) = Len(m.want)
  /\ \A i, j \in DOMAIN m.handles : m.handles[i] = m.handles[j] => i = j
  /\ \A i \in DOMAIN m.handles :
       table'[Home[Peer(e)]][m.handles[i]] = m.want[i] /\ m.want[i] # NotOpen
  /\ SeqSet(m.handles) \subseteq fresh
  /\ Passes = 1 => fresh \subseteq SeqSet(m.handles)
  /\ buffered' = [buffered EXCEPT ![e] = m]

\* The value was given up: the entries are closed again, or hold a socket.
GivenUp(e, fresh) ==
  /\ \A h \in fresh :
       \/ table'[Home[Peer(e)]][h] = NotOpen
       \/ IsSocket(table'[Home[Peer(e)]][h])
  /\ buffered' = [buffered EXCEPT ![e] = NoMessage]

\* How many handles are duplicated.
LEMMA SendCounts ==
  ASSUME NEW e \in Ends, NEW files, Len(files) \in Nat
  PROVE  /\ SendCount(e, files) \in Nat
         /\ SendCount(e, files) <= Cardinality(FreeHandles(table[Home[Peer(e)]]))
         /\ SendCount(e, files) <= Passes * Len(files)
         /\ e \in SealedEnds \/ Len(files) = 0 => SendCount(e, files) = 0
<1>1. PICK n \in Nat : n = Len(files)
  OBVIOUS
<1>2. PICK c \in Nat : c = Cardinality(FreeHandles(table[Home[Peer(e)]]))
  BY FreeFinite
<1>3. PICK x : x = Passes * n
  OBVIOUS
<1>4. x \in Nat /\ (n = 0 => x = 0)
  BY <1>3, Numbers
<1>5. SendCount(e, files) = IF e \notin SealedEnds THEN Least(x, c) ELSE 0
  BY <1>1, <1>2, <1>3 DEF SendCount, MaySend
<1>6. CASE e \notin SealedEnds
  BY <1>1, <1>2, <1>3, <1>4, <1>5, <1>6 DEF Least
<1>7. CASE e \in SealedEnds
  BY <1>1, <1>2, <1>3, <1>4, <1>5, <1>7
<1> QED
  BY <1>6, <1>7

\* The resources that a call duplicates are open.
LEMMA DuplicatedOpen ==
  ASSUME Typed, OwnedOpen, NEW e \in Ends, NEW n \in Nat,
         NEW files \in [1 .. n -> owned[Home[e]]], NEW d \in Nat, n = 0 => d = 0
  PROVE  /\ Duplicated(e, files, d) \in [1 .. d -> Resources]
         /\ \A i \in 1 .. d : Duplicated(e, files, d)[i] # NotOpen
<1>1. Len(files) = n
  OBVIOUS
<1>2. Home[e] \in Processes
  BY Peers
<1>3. ASSUME NEW i \in 1 .. d
      PROVE  /\ table[Home[e]][files[((i - 1) % Len(files)) + 1]] \in Resources
             /\ table[Home[e]][files[((i - 1) % Len(files)) + 1]] # NotOpen
  <2>1. n \in Nat \ {0}
    OBVIOUS
  <2>2. (i - 1) % n \in 0 .. n - 1
    BY <2>1
  <2>3. PICK j \in 1 .. n : j = ((i - 1) % n) + 1
    BY <2>1, <2>2
  <2>4. files[j] \in owned[Home[e]] /\ files[j] \in Handles
    BY <1>2 DEF Typed
  <2> QED
    BY <1>1, <1>2, <2>3, <2>4 DEF Typed, OwnedOpen
<1> QED
  BY <1>3 DEF Duplicated

\* Part of a sequence of handles.
LEMMA Slice ==
  ASSUME NEW k \in Nat, NEW hs \in [1 .. k -> Handles],
         NEW a \in Nat, NEW b \in Nat, a <= b, b <= k
  PROVE  /\ SubSeq(hs, a + 1, b) \in [1 .. b - a -> Handles]
         /\ \A i \in 1 .. b - a : SubSeq(hs, a + 1, b)[i] = hs[a + i]
<1>c. PICK c \in 1 .. k + 1 : c = a + 1
  OBVIOUS
<1>1. hs \in Seq(Handles) /\ Len(hs) = k /\ c - 1 <= b
  BY <1>c
<1>2. SubSeq(hs, c, b) \in Seq(Handles)
  BY <1>1
<1>3. Len(SubSeq(hs, c, b)) = b - c + 1
  BY <1>1
<1>4. \A i \in 1 .. b - c + 1 : SubSeq(hs, c, b)[i] = hs[c + i - 1]
  BY <1>1
<1>5. b - c + 1 = b - a /\ \A i \in Int : c + i - 1 = a + i
  BY <1>c
<1>6. \A i \in 1 .. b - a : SubSeq(hs, c, b)[i] = hs[a + i]
  BY <1>4, <1>5
<1>7. SubSeq(hs, c, b) \in [1 .. b - a -> Handles]
  <2>1. PICK q \in Seq(Handles) : q = SubSeq(hs, c, b)
    BY <1>2
  <2>2. q \in [1 .. Len(q) -> Handles]
    OBVIOUS
  <2> QED
    BY <1>3, <1>5, <2>1, <2>2
<1>8. SubSeq(hs, a + 1, b) = SubSeq(hs, c, b)
  BY <1>c
<1> QED
  BY <1>6, <1>7, <1>8, Zenon

\* start_send takes free handles of the peer and no others; they end up in the
\* buffered message, or the value is given up and what is left are sockets.
LEMMA SendEffect ==
  ASSUME Typed, OwnedOpen, NEW e \in Ends, NEW size \in Sizes,
         NEW files \in FileLists(e), StartSend(e, size, files)
  PROVE  \E fresh : /\ OnlyFresh(e, fresh)
                    /\ GivenUp(e, fresh) \/ \E m : Accepted(e, fresh, m)
<1>n. PICK n \in Nat : files \in [1 .. n -> owned[Home[e]]]
  BY Numbers DEF FileLists
<1>0. Len(files) = n /\ Home[e] \in Processes /\ Home[Peer(e)] \in Processes
  BY <1>n, Peers
<1>p. PICK p \in Processes : p = Home[Peer(e)]
  BY <1>0
<1>t. PICK t \in [Handles -> Resources] : t = table[p]
  BY <1>p DEF Typed
<1>k. PICK k \in Nat : k = SendCount(e, files)
  BY <1>0, SendCounts
<1>1. /\ k <= Cardinality(FreeHandles(t)) /\ k <= Passes * n
      /\ e \in SealedEnds \/ n = 0 => k = 0
  BY <1>0, <1>k, <1>p, <1>t, SendCounts
<1>s. PICK sent : sent = Allocate(t, k)
  OBVIOUS
<1>2. /\ sent \in [1 .. k -> FreeHandles(t)] /\ sent \in [1 .. k -> Handles]
      /\ \A i, j \in 1 .. k : sent[i] = sent[j] => i = j
  BY <1>1, <1>s, Allocated DEF FreeHandles
<1> DEFINE ok == size <= MaxMessageSize /\ k = Passes * n
           m == [size    |-> size,
                 handles |-> SubSeq(sent, (Passes - 1) * n + 1, k),
                 want    |-> Duplicated(e, files, n)]
<1>d. PICK d \in (IF size <= MaxMessageSize THEN {k} ELSE 0 .. Least(k, n)) :
        table' = [table EXCEPT ![p] =
          LET handles == SubSeq(sent, 1, d)
              res     == Duplicated(e, files, d)
              kept    == Listed(handles, res)
          IN  SenderDrop(Install(@, handles, res), IF ok THEN Commit(kept) ELSE kept)]
  BY <1>0, <1>k, <1>p, <1>t, <1>s DEF StartSend
<1>3. d \in Nat /\ d <= k /\ (ok => d = k)
  BY <1>d DEF Least
<1>h. PICK handles : handles = SubSeq(sent, 1, d)
  OBVIOUS
<1>r. PICK res : res = Duplicated(e, files, d)
  OBVIOUS
<1>4. /\ handles \in [1 .. d -> Handles]
      /\ \A i \in 1 .. d : handles[i] = sent[i]
      /\ \A i, j \in 1 .. d : handles[i] = handles[j] => i = j
  <2>1. /\ SubSeq(sent, 0 + 1, d) \in [1 .. d - 0 -> Handles]
        /\ \A i \in 1 .. d - 0 : SubSeq(sent, 0 + 1, d)[i] = sent[0 + i]
    BY <1>2, <1>3, Slice
  <2>2. /\ handles \in [1 .. d -> Handles]
        /\ \A i \in 1 .. d : handles[i] = sent[i]
    BY <1>3, <1>h, <2>1
  <2>3. \A i \in 1 .. d : i \in 1 .. k
    BY <1>3
  <2> QED
    BY <1>2, <2>2, <2>3
<1>5. res \in [1 .. d -> Resources] /\ \A i \in 1 .. d : res[i] # NotOpen
  BY <1>n, <1>1, <1>3, <1>r, DuplicatedOpen
<1>i. PICK installed : installed = Install(t, handles, res)
  OBVIOUS
<1>6. /\ installed \in [Handles -> Resources]
      /\ \A i \in 1 .. d : installed[handles[i]] = res[i]
      /\ \A h \in Handles \ SeqSet(handles) : installed[h] = t[h]
  BY <1>3, <1>4, <1>5, <1>i, Installed
<1> DEFINE kept == Listed(handles, res)
           closing == IF ok THEN {} ELSE kept
<1>7. table' = [table EXCEPT ![p] = CloseAll(installed, closing)]
  BY <1>d, <1>h, <1>r, <1>i, <1>t DEF SenderDrop, Commit
<1>8. SeqSet(handles) \subseteq FreeHandles(t)
  <2>1. ASSUME NEW i \in 1 .. d PROVE handles[i] \in FreeHandles(t)
    BY <1>2, <1>3, <1>4
  <2> QED
    BY <1>4, <2>1 DEF SeqSet
<1>9. closing \subseteq SeqSet(handles)
  BY <1>4 DEF Listed, SeqSet
<1>10. OnlyFresh(e, SeqSet(handles))
  <2>1. CloseAll(installed, closing) \in [Handles -> Resources]
    BY <1>6 DEF CloseAll, Resources
  <2>2. table' \in [Processes -> [Handles -> Resources]]
    BY <1>7, <2>1 DEF Typed
  <2>3. ASSUME NEW q \in Processes, NEW h \in Handles, q # p \/ h \notin SeqSet(handles)
        PROVE  table'[q][h] = table[q][h]
    <3>1. CASE q # p
      BY <1>7, <3>1 DEF Typed
    <3>2. CASE q = p /\ h \notin SeqSet(handles)
      <4>1. CloseAll(installed, closing)[h] = t[h]
        BY <1>6, <1>9, <3>2 DEF CloseAll
      <4> QED
        BY <1>7, <1>t, <3>2, <4>1 DEF Typed
    <3> QED
      BY <2>3, <3>1, <3>2
  <2> QED
    BY <1>p, <1>t, <1>8, <2>2, <2>3 DEF OnlyFresh
<1>11. table'[p] = CloseAll(installed, closing)
  BY <1>7 DEF Typed
<1>12. CASE ~ok
  <2>1. ASSUME NEW h \in SeqSet(handles)
        PROVE  table'[p][h] = NotOpen \/ IsSocket(table'[p][h])
    <3>1. PICK i \in 1 .. d : h = handles[i]
      BY <1>4, <2>1 DEF SeqSet
    <3>2. h \in Handles /\ installed[h] = res[i]
      BY <1>4, <1>6, <3>1
    <3>3. CASE IsSocket(res[i])
      <4>1. CloseAll(installed, closing)[h] \in {NotOpen, res[i]}
        BY <3>2 DEF CloseAll
      <4> QED
        BY <1>11, <3>3, <4>1
    <3>4. CASE ~IsSocket(res[i])
      <4>1. h \in closing
        BY <1>4, <1>12, <3>1, <3>4 DEF Listed
      <4> QED
        BY <1>11, <3>2, <4>1 DEF CloseAll
    <3> QED
      BY <3>3, <3>4
  <2>2. buffered' = [buffered EXCEPT ![e] = NoMessage]
    BY <1>0, <1>k, <1>12 DEF StartSend
  <2>3. GivenUp(e, SeqSet(handles))
    BY <1>p, <2>1, <2>2 DEF GivenUp
  <2> QED
    BY <1>10, <2>3
<1>13. CASE ok
  <2>b. PICK base : base = (Passes - 1) * n
    OBVIOUS
  <2>1. base \in Nat /\ k = base + n
    <3>1. CASE n = 0
      BY <1>13, <2>b, <3>1, Numbers
    <3>2. CASE n # 0
      <4>1. n \in 1 .. n /\ \E i : i = base + n
        BY <3>2
      <4> QED
        BY <1>13, <2>b, <4>1, PassStarts
    <3> QED
      BY <3>1, <3>2
  <2>2. d = k /\ closing = {}
    BY <1>3, <1>13
  <2>3. table'[p] = installed
    BY <1>6, <1>11, <2>2 DEF CloseAll
  <2>w. PICK want : want = Duplicated(e, files, n)
    OBVIOUS
  <2>4. want \in [1 .. n -> Resources] /\ \A j \in 1 .. n : want[j] # NotOpen
    BY <1>n, <2>w, DuplicatedOpen
  <2>g. PICK hs : hs = SubSeq(sent, base + 1, k)
    OBVIOUS
  <2>5. hs \in [1 .. n -> Handles] /\ \A j \in 1 .. n : hs[j] = sent[base + j]
    <3>1. k - base = n /\ base <= k
      BY <2>1
    <3>2. /\ hs \in [1 .. k - base -> Handles]
          /\ \A j \in 1 .. k - base : hs[j] = sent[base + j]
      BY <1>2, <2>1, <2>g, <3>1, Slice
    <3> QED
      BY <3>1, <3>2
  <2>6. \A i, j \in 1 .. n : hs[i] = hs[j] => i = j
    <3>1. \A i \in 1 .. n : base + i \in 1 .. k
      BY <2>1
    <3> QED
      BY <1>2, <2>1, <2>5, <3>1
  <2>7. ASSUME NEW j \in 1 .. n PROVE installed[hs[j]] = want[j]
    <3>1. PICK i \in 1 .. d : i = base + j
      BY <2>1, <2>2
    <3>2. installed[hs[j]] = res[i]
      BY <1>4, <1>6, <2>5, <3>1
    <3>3. (i - 1) % n = j - 1 /\ (j - 1) % n = j - 1
      BY <2>b, <3>1, PassStarts
    <3>4. res[i] = table[Home[e]][files[((i - 1) % n) + 1]]
      BY <1>0, <1>r, <3>1 DEF Duplicated
    <3>5. want[j] = table[Home[e]][files[((j - 1) % n) + 1]]
      BY <1>0, <2>w DEF Duplicated
    <3> QED
      BY <3>2, <3>3, <3>4, <3>5
  <2>8. SeqSet(hs) \subseteq SeqSet(handles)
    <3>1. ASSUME NEW j \in 1 .. n PROVE hs[j] \in SeqSet(handles)
      <4>1. base + j \in 1 .. d
        BY <2>1, <2>2
      <4> QED
        BY <1>4, <2>5, <4>1 DEF SeqSet
    <3> QED
      BY <2>5, <3>1 DEF SeqSet
  <2>9. ASSUME Passes = 1 PROVE SeqSet(handles) \subseteq SeqSet(hs)
    <3>1. base = 0
      BY <2>b, <2>9
    <3>2. d = n
      BY <2>1, <2>2, <3>1
    <3>3. ASSUME NEW j \in 1 .. n PROVE handles[j] = hs[j]
      BY <1>4, <2>5, <3>1, <3>2
    <3> QED
      BY <1>4, <2>5, <3>2, <3>3 DEF SeqSet
  <2>10. m = [size |-> size, handles |-> hs, want |-> want]
    BY <2>b, <2>g, <2>w
  <2>11. m \in Message
    <3>1. size \in Nat
      BY Numbers
    <3>2. hs \in Seq(Handles) /\ want \in Seq(Resources)
      BY <2>4, <2>5
    <3> QED
      BY <2>10, <3>1, <3>2 DEF Message
  <2>12. Len(hs) = n /\ Len(want) = n /\ DOMAIN hs = 1 .. n
    BY <2>4, <2>5
  <2>13. MayCarry(m, Peer(e))
    <3>1. ASSUME e \in SealedEnds \/ size = 0 PROVE n = 0
      <4>1. CASE e \in SealedEnds
        BY <1>1, <2>1, <4>1
      <4>2. CASE size = 0
        BY <1>0, <4>2 DEF StartSend
      <4> QED
        BY <3>1, <4>1, <4>2
    <3>2. n = 0 => hs = <<>>
      BY <2>5
    <3>3. Peer(Peer(e)) = e
      BY Peers
    <3> QED
      BY <2>10, <3>1, <3>2, <3>3 DEF MayCarry
  <2>14. buffered' = [buffered EXCEPT ![e] = m]
    BY <1>0, <1>k, <1>p, <1>t, <1>s, <1>13 DEF StartSend
  <2>15. m.handles = hs /\ m.want = want
    BY <2>10
  <2> HIDE DEF m
  <2>16. Accepted(e, SeqSet(handles), m)
    BY <1>p, <2>3, <2>4, <2>6, <2>7, <2>8, <2>9, <2>11, <2>12, <2>13, <2>14, <2>15
    DEF Accepted
  <2> QED
    BY <1>10, <2>16
<1> QED
  BY <1>12, <1>13
-----------------------------------------------------------------------------
(***************************************************************************)
(* What the steps do to the messages on their way                          *)
(***************************************************************************)

\* The messages on their way to an end are a sequence.
LEMMA LineType ==
  ASSUME Typed, NEW e \in Ends
  PROVE  /\ Line(e) \in Seq(Message)
         /\ DOMAIN Line(e) = 1 .. Len(Line(e))
         /\ \A i \in DOMAIN Line(e) :
              /\ Line(e)[i] \in Message
              /\ SeqSet(Line(e)[i].handles) \subseteq Handles
<1>1. Peer(e) \in Ends
  BY Peers
<1>2. Line(e) \in Seq(Message)
  BY <1>1 DEF Typed, Line
<1>3. ASSUME NEW i \in DOMAIN Line(e)
      PROVE  Line(e)[i] \in Message /\ SeqSet(Line(e)[i].handles) \subseteq Handles
  <2>1. Line(e)[i] \in Message
    BY <1>2
  <2>2. Line(e)[i].handles \in Seq(Handles)
    BY <2>1 DEF Message
  <2> QED
    BY <2>1, <2>2 DEF SeqSet
<1> QED
  BY <1>2, <1>3

\* Writing what was buffered changes nobody's line.
LEMMA Flushed ==
  ASSUME Typed, NEW e \in Ends, wire' = FlushedWire(e)
  PROVE  wire'[Peer(e)] = Line(Peer(e)) /\ wire'[e] = wire[e]
<1>1. Peer(e) \in Ends /\ Peer(e) # e /\ Peer(Peer(e)) = e
  BY Peers
<1> QED
  BY <1>1 DEF Typed, FlushedWire, Line

\* A value that is buffered or given up leaves the messages before it.
LEMMA LinesSend ==
  ASSUME Typed, NEW e \in Ends, NEW m, wire' = FlushedWire(e),
         buffered' = [buffered EXCEPT ![e] = m]
  PROVE  /\ Line(Peer(e))' = IF m = NoMessage THEN Line(Peer(e)) ELSE Append(Line(Peer(e)), m)
         /\ Line(e)' = Line(e)
<1>1. /\ Peer(e) \in Ends /\ Peer(e) # e /\ Peer(Peer(e)) = e
      /\ Peer(e)' = Peer(e) /\ Peer(Peer(e))' = Peer(Peer(e))
  BY Peers
<1>2. wire'[Peer(e)] = Line(Peer(e)) /\ wire'[e] = wire[e]
  BY Flushed
<1>3. buffered'[e] = m /\ buffered'[Peer(e)] = buffered[Peer(e)]
  BY <1>1 DEF Typed
<1> QED
  BY <1>1, <1>2, <1>3 DEF Line

\* The messages on their way to e after the step were on their way before it.
LineKept(e) ==
  \E g \in [DOMAIN Line(e)' -> DOMAIN Line(e)] :
    /\ \A i, j \in DOMAIN Line(e)' : g[i] = g[j] => i = j
    /\ \A i \in DOMAIN Line(e)' : Line(e)'[i] = Line(e)[g[i]]

\* A line that is unchanged, its front, or its tail.
LEMMA SameKept ==
  ASSUME NEW e \in Ends, Line(e)' = Line(e) PROVE LineKept(e)
<1> DEFINE g == [i \in DOMAIN Line(e) |-> i]
<1>1. g \in [DOMAIN Line(e)' -> DOMAIN Line(e)]
  OBVIOUS
<1> QED
  BY <1>1 DEF LineKept

LEMMA PollKept ==
  ASSUME Typed, NEW e \in Ends, Poll(e)
  PROVE  /\ \A f \in Ends : f # e => Line(f)' = Line(f)
         /\ Line(e) # <<>> /\ Head(wire[e]) = Line(e)[1] /\ 1 \in DOMAIN Line(e)
         /\ DOMAIN Line(e)' = 1 .. Len(Line(e)) - 1
         /\ \A i \in DOMAIN Line(e)' : i + 1 \in DOMAIN Line(e) /\ Line(e)'[i] = Line(e)[i + 1]
<1>1. /\ wire[e] # <<>> /\ wire' = [wire EXCEPT ![e] = Tail(wire[e])]
      /\ buffered' = buffered
  BY DEF Poll, Typed
<1>2. \A f \in Ends : Peer(f)' = Peer(f) /\ Peer(f) \in Ends
  BY Peers
<1>3. \A f \in Ends : f # e => Line(f)' = Line(f)
  BY <1>1, <1>2 DEF Line, Typed
<1>w. PICK w \in Seq(Message) : w = wire[e]
  BY DEF Typed
<1>x. PICK x \in Message \cup {NoMessage} : x = buffered[Peer(e)]
  BY <1>2 DEF Typed
<1>4. /\ Line(e) = IF x = NoMessage THEN w ELSE Append(w, x)
      /\ Line(e)' = IF x = NoMessage THEN Tail(w) ELSE Append(Tail(w), x)
  BY <1>1, <1>2, <1>w, <1>x DEF Line, Typed
<1>5. w # <<>> /\ Len(w) \in Nat \ {0} /\ Head(w) = w[1]
  BY <1>1, <1>w
<1>6. CASE x = NoMessage
  <2>1. Line(e) = w /\ Line(e)' = Tail(w)
    BY <1>4, <1>6
  <2>2. /\ Len(Tail(w)) = Len(w) - 1 /\ DOMAIN Tail(w) = 1 .. Len(w) - 1
        /\ \A i \in 1 .. Len(w) - 1 : Tail(w)[i] = w[i + 1]
    BY <1>5
  <2> QED
    BY <1>3, <1>5, <1>w, <2>1, <2>2
<1>7. CASE x # NoMessage
  <2>1. Line(e) = Append(w, x) /\ Line(e)' = Append(Tail(w), x)
    BY <1>4, <1>7
  <2>2. /\ Tail(w) \in Seq(Message) /\ Len(Tail(w)) = Len(w) - 1
        /\ \A i \in 1 .. Len(w) - 1 : Tail(w)[i] = w[i + 1]
    BY <1>5
  <2>3. /\ DOMAIN Append(w, x) = 1 .. Len(w) + 1 /\ Len(Append(w, x)) = Len(w) + 1
        /\ \A i \in 1 .. Len(w) : Append(w, x)[i] = w[i]
        /\ Append(w, x)[Len(w) + 1] = x
    OBVIOUS
  <2>4. /\ DOMAIN Append(Tail(w), x) = 1 .. Len(w)
        /\ \A i \in 1 .. Len(w) - 1 : Append(Tail(w), x)[i] = Tail(w)[i]
        /\ Append(Tail(w), x)[Len(w)] = x
    BY <1>5, <2>2
  <2>5. ASSUME NEW i \in 1 .. Len(w) PROVE Append(Tail(w), x)[i] = Append(w, x)[i + 1]
    <3>1. CASE i = Len(w)
      BY <2>3, <2>4, <3>1
    <3>2. CASE i # Len(w)
      <4>1. i \in 1 .. Len(w) - 1 /\ i + 1 \in 1 .. Len(w)
        BY <1>5, <3>2
      <4> QED
        BY <2>2, <2>3, <2>4, <4>1
    <3> QED
      BY <3>1, <3>2
  <2>6. Append(w, x) # <<>> /\ Append(w, x)[1] = w[1]
    BY <1>5, <2>3
  <2> QED
    BY <1>3, <1>5, <1>w, <2>1, <2>3, <2>4, <2>5, <2>6
<1> QED
  BY <1>6, <1>7

LEMMA PollLinesKept ==
  ASSUME Typed, NEW e \in Ends, Poll(e) PROVE \A f \in Ends : LineKept(f)
<1>1. ASSUME NEW f \in Ends, f # e PROVE LineKept(f)
  BY <1>1, PollKept, SameKept
<1>2. LineKept(e)
  <2> DEFINE g == [i \in DOMAIN Line(e)' |-> i + 1]
  <2>1. /\ DOMAIN Line(e)' = 1 .. Len(Line(e)) - 1
        /\ \A i \in DOMAIN Line(e)' : i + 1 \in DOMAIN Line(e) /\ Line(e)'[i] = Line(e)[i + 1]
    BY PollKept
  <2>2. g \in [DOMAIN Line(e)' -> DOMAIN Line(e)]
    BY <2>1
  <2>3. \A i, j \in DOMAIN Line(e)' : g[i] = g[j] => i = j
    BY <2>1
  <2> QED
    BY <2>1, <2>2, <2>3 DEF LineKept
<1> QED
  BY <1>1, <1>2

LEMMA DropLinesKept ==
  ASSUME Typed, NEW e \in Ends, DropChannel(e) PROVE \A f \in Ends : LineKept(f)
<1>1. /\ buffered' = [buffered EXCEPT ![e] = NoMessage]
      /\ wire' = [wire EXCEPT ![e] = <<>>]
  BY DEF DropChannel
<1>2. /\ Peer(e) \in Ends /\ Peer(e) # e /\ Peer(Peer(e)) = e
      /\ Peer(e)' = Peer(e) /\ Peer(Peer(e))' = Peer(Peer(e))
  BY Peers
<1>3. LineKept(Peer(e))
  <2>w. PICK w \in Seq(Message) : w = wire[Peer(e)]
    BY <1>2 DEF Typed
  <2>x. PICK x \in Message \cup {NoMessage} : x = buffered[e]
    BY DEF Typed
  <2>1. Line(Peer(e))' = w /\ Line(Peer(e)) = IF x = NoMessage THEN w ELSE Append(w, x)
    BY <1>1, <1>2, <2>w, <2>x DEF Line, Typed
  <2>2. \A i \in DOMAIN w : i \in DOMAIN Append(w, x) /\ Append(w, x)[i] = w[i]
    OBVIOUS
  <2> DEFINE g == [i \in DOMAIN w |-> i]
  <2>3. g \in [DOMAIN w -> DOMAIN Line(Peer(e))]
    BY <2>1, <2>2
  <2>4. \A i \in DOMAIN w : w[i] = Line(Peer(e))[g[i]]
    BY <2>1, <2>2
  <2> QED
    BY <2>1, <2>3, <2>4 DEF LineKept
<1>4. LineKept(e)
  <2>w. PICK w \in Seq(Message) : w = wire[e]
    BY DEF Typed
  <2>x. PICK x \in Message \cup {NoMessage} : x = buffered[Peer(e)]
    BY <1>2 DEF Typed
  <2>1. /\ Line(e) = IF x = NoMessage THEN w ELSE Append(w, x)
        /\ Line(e)' = IF x = NoMessage THEN <<>> ELSE Append(<<>>, x)
    BY <1>1, <1>2, <2>w, <2>x DEF Line, Typed
  <2>2. /\ Len(w) + 1 \in DOMAIN Append(w, x) /\ Append(w, x)[Len(w) + 1] = x
        /\ DOMAIN Append(<<>>, x) = {1} /\ Append(<<>>, x)[1] = x
    OBVIOUS
  <2>3. CASE x = NoMessage
    <3>1. Line(e)' = <<>> /\ DOMAIN Line(e)' = {}
      BY <2>1, <2>3
    <3> DEFINE g == [i \in {} |-> i]
    <3>2. g \in [DOMAIN Line(e)' -> DOMAIN Line(e)]
      BY <3>1
    <3> QED
      BY <3>1, <3>2 DEF LineKept
  <2>4. CASE x # NoMessage
    <3>1. DOMAIN Line(e)' = {1} /\ Line(e)'[1] = x
      BY <2>1, <2>2, <2>4
    <3>2. Len(w) + 1 \in DOMAIN Line(e) /\ Line(e)[Len(w) + 1] = x
      BY <2>1, <2>2, <2>4
    <3> DEFINE g == [i \in {1} |-> Len(w) + 1]
    <3>3. g \in [DOMAIN Line(e)' -> DOMAIN Line(e)]
      BY <3>1, <3>2
    <3> QED
      BY <3>1, <3>2, <3>3 DEF LineKept
  <2> QED
    BY <2>3, <2>4
<1> QED
  BY <1>2, <1>3, <1>4, Peers
-----------------------------------------------------------------------------
(***************************************************************************)
(* The invariant is inductive                                              *)
(***************************************************************************)

\* At first every open handle belongs to a File or a socket, and no message is
\* on its way.
LEMMA IndInvInit == ASSUME Init PROVE IndInv /\ AllAccounted
<1>1. \A e \in Ends : Line(e) = <<>>
  BY Peers DEF Init, Line
<1>2. \A p \in Processes : Files[p] \in 0 .. HandleLimit
  BY WinChannelAssumption
<1>3. Typed
  <2>1. table \in [Processes -> [Handles -> Resources]]
    BY DEF Init, Resources
  <2>2. owned \in [Processes -> SUBSET Handles]
    <3>1. \A p \in Processes : 1 .. Files[p] \subseteq Handles
      BY <1>2, Numbers DEF Handles
    <3> QED
      BY <3>1 DEF Init
  <2> QED
    BY <2>1, <2>2 DEF Init, Typed, Outcome
<1>4. ASSUME NEW p \in Processes, NEW h \in Handles
      PROVE  table[p][h] # NotOpen <=> h \in owned[p]
  <2>1. h \in 1 .. Files[p] <=> h <= Files[p]
    BY <1>2, Numbers DEF Handles
  <2> QED
    BY <2>1, Numbers DEF Init
<1>5. OwnedOpen
  BY <1>3, <1>4 DEF OwnedOpen, Typed
<1>6. Outcomes
  <2>1. \A e \in SealedEnds : Peer(e) \in Ends
    BY WinChannelAssumption, Peers
  <2> QED
    BY <2>1 DEF Init, Outcomes, ReceivedIntact, SealedCarriesNone, Outcome
<1> QED
  BY <1>1, <1>3, <1>4, <1>5, <1>6
  DEF IndInv, Delivered, OneMessage, AllAccounted, Accounted

\* Every step keeps the types.
LEMMA TypedNext == ASSUME Typed, OwnedOpen, [Next]_vars PROVE Typed'
<1>1. ASSUME NEW e \in Ends, NEW size \in Sizes, NEW files \in FileLists(e),
             StartSend(e, size, files)
      PROVE  Typed'
  <2>1. PICK fresh : /\ OnlyFresh(e, fresh)
                     /\ GivenUp(e, fresh) \/ \E m : Accepted(e, fresh, m)
    BY <1>1, SendEffect
  <2>2. buffered' \in [Ends -> Message \cup {NoMessage}]
    BY <2>1 DEF GivenUp, Accepted, Typed
  <2>3. wire' \in [Ends -> Seq(Message)]
    BY <1>1, Peers DEF StartSend, FlushedWire, Typed
  <2> QED
    BY <1>1, <2>1, <2>2, <2>3 DEF OnlyFresh, StartSend, Typed
<1>2. ASSUME NEW e \in Ends, PollComplete(e) PROVE Typed'
  <2>1. wire' \in [Ends -> Seq(Message)]
    BY <1>2, Peers DEF PollComplete, FlushedWire, Typed
  <2> QED
    BY <1>2, <2>1 DEF PollComplete, Typed
<1>3. ASSUME NEW e \in Ends, Poll(e) PROVE Typed'
  <2>1. wire' \in [Ends -> Seq(Message)]
    BY <1>3 DEF Poll, Typed
  <2>2. Head(wire[e]) \in Message
    BY <1>3 DEF Poll, Typed
  <2>3. SeqSet(Head(wire[e]).handles) \subseteq Handles /\ Len(Head(wire[e]).handles) \in Nat
    BY <2>2 DEF Message, SeqSet
  <2>4. owned' \in [Processes -> SUBSET Handles]
    <3>1. \/ owned' = owned
          \/ owned' = [owned EXCEPT ![Home[e]] = @ \cup SeqSet(Head(wire[e]).handles)]
      BY <1>3 DEF Poll, Adopted
    <3>2. Home[e] \in Processes
      BY Peers
    <3> QED
      BY <2>3, <3>1, <3>2 DEF Typed
  <2>5. \A b \in BOOLEAN, k \in Nat :
          Outcome("message", k, b) \in [kind : {"none", "message", "eof"}, made : Nat, intact : BOOLEAN]
    BY DEF Outcome
  <2>6. Outcome("eof", 0, TRUE) \in [kind : {"none", "message", "eof"}, made : Nat, intact : BOOLEAN]
    BY DEF Outcome
  <2>7. outcome' \in [Ends -> [kind : {"none", "message", "eof"}, made : Nat, intact : BOOLEAN]]
    <3>1. PICK x \in [kind : {"none", "message", "eof"}, made : Nat, intact : BOOLEAN] :
            outcome' = [outcome EXCEPT ![e] = x]
      <4>1. CASE Head(wire[e]).size = 0
        BY <1>3, <2>6, <4>1 DEF Poll
      <4>2. CASE Head(wire[e]).size # 0
        BY <1>3, <2>3, <2>5, <4>2 DEF Poll
      <4> QED
        BY <4>1, <4>2
    <3> QED
      BY <3>1 DEF Typed
  <2> QED
    BY <1>3, <2>1, <2>4, <2>7 DEF Poll, Typed
<1>4. ASSUME NEW e \in Ends, PollEnd(e) PROVE Typed'
  BY <1>4 DEF PollEnd, Typed, Outcome
<1>5. ASSUME NEW e \in Ends, DropChannel(e) PROVE Typed'
  BY <1>5 DEF DropChannel, Typed
<1>6. ASSUME NEW p \in Processes, NEW h \in owned[p], DropFile(p, h) PROVE Typed'
  BY <1>6 DEF DropFile, Typed, Resources
<1>7. ASSUME UNCHANGED vars PROVE Typed'
  BY <1>7 DEF vars, Typed
<1> QED
  BY <1>1, <1>2, <1>3, <1>4, <1>5, <1>6, <1>7 DEF Next

\* What a step leaves of the lines stays apart.
LEMMA KeptApart ==
  ASSUME OneMessage, \A e \in Ends : LineKept(e) PROVE OneMessage'
<1> SUFFICES ASSUME NEW e \in Ends, NEW f \in Ends, Home[e] = Home[f],
                    NEW i \in DOMAIN Line(e)', NEW j \in DOMAIN Line(f)',
                    e # f \/ i # j
             PROVE  SeqSet(Line(e)'[i].handles) \cap SeqSet(Line(f)'[j].handles) = {}
  BY DEF OneMessage, SeqSet
<1>1. PICK g \in [DOMAIN Line(e)' -> DOMAIN Line(e)] :
        /\ \A k, l \in DOMAIN Line(e)' : g[k] = g[l] => k = l
        /\ \A k \in DOMAIN Line(e)' : Line(e)'[k] = Line(e)[g[k]]
  BY DEF LineKept
<1>2. CASE e = f
  <2>1. g[i] \in DOMAIN Line(e) /\ g[j] \in DOMAIN Line(e) /\ g[i] # g[j]
    BY <1>1, <1>2
  <2> QED
    BY <1>1, <1>2, <2>1 DEF OneMessage
<1>3. CASE e # f
  <2>1. PICK k \in [DOMAIN Line(f)' -> DOMAIN Line(f)] :
          \A l \in DOMAIN Line(f)' : Line(f)'[l] = Line(f)[k[l]]
    BY DEF LineKept
  <2> QED
    BY <1>1, <1>3, <2>1 DEF OneMessage
<1> QED
  BY <1>2, <1>3

\* What a step leaves of the lines is delivered still when its handles are as
\* they were.
LEMMA KeptDelivered ==
  ASSUME Typed, Delivered, \A e \in Ends : LineKept(e),
         \A e \in Ends : \A i \in DOMAIN Line(e)' : \A h \in SeqSet(Line(e)'[i].handles) :
           table'[Home[e]][h] = table[Home[e]][h] /\ h \notin owned'[Home[e]]
  PROVE  Delivered'
<1> SUFFICES ASSUME NEW e \in Ends, NEW i \in DOMAIN Line(e)', NEW m, m = Line(e)'[i]
             PROVE  Delivers(m, e)' /\ MayCarry(m, e)
  BY DEF Delivered, Delivers, MayCarry, Peer
<1>1. PICK g \in [DOMAIN Line(e)' -> DOMAIN Line(e)] :
        \A k \in DOMAIN Line(e)' : Line(e)'[k] = Line(e)[g[k]]
  BY DEF LineKept
<1>2. Delivers(m, e) /\ MayCarry(m, e)
  BY <1>1 DEF Delivered
<1>3. \A j \in DOMAIN m.handles :
        /\ table'[Home[e]][m.handles[j]] = table[Home[e]][m.handles[j]]
        /\ m.handles[j] \notin owned'[Home[e]]
  BY DEF SeqSet
<1>4. Delivers(m, e)'
  BY <1>2, <1>3 DEF Delivers
<1> QED
  BY <1>2, <1>4

\* The handles of the messages on their way to an end.
LEMMA Carried ==
  ASSUME Typed, OwnedOpen, Delivered, NEW e \in Ends, NEW i \in DOMAIN Line(e),
         NEW h \in SeqSet(Line(e)[i].handles)
  PROVE  /\ h \in Handles /\ Home[e] \in Processes
         /\ table[Home[e]][h] # NotOpen /\ h \notin owned[Home[e]]
         /\ h \notin FreeHandles(table[Home[e]])
<1>1. h \in Handles /\ Home[e] \in Processes
  BY LineType, Peers
<1>2. PICK j \in DOMAIN Line(e)[i].handles : h = Line(e)[i].handles[j]
  BY DEF SeqSet
<1> QED
  BY <1>1, <1>2 DEF Delivered, Delivers, FreeHandles

\* start_send keeps the invariant: the handles it duplicates were free, so they
\* are nobody else's.
LEMMA SendKeeps ==
  ASSUME IndInv, NEW e \in Ends, NEW size \in Sizes, NEW files \in FileLists(e),
         StartSend(e, size, files)
  PROVE  OwnedOpen' /\ Delivered' /\ OneMessage' /\ Outcomes' /\ (Passes = 1 /\ AllAccounted => AllAccounted')
<1> USE DEF IndInv
<1>1. PICK fresh : /\ OnlyFresh(e, fresh)
                   /\ GivenUp(e, fresh) \/ \E m : Accepted(e, fresh, m)
  BY SendEffect
<1>2. owned' = owned /\ closed' = closed /\ outcome' = outcome /\ wire' = FlushedWire(e)
  BY DEF StartSend
<1>3. /\ Home[e] \in Processes /\ Home[Peer(e)] \in Processes /\ Peer(e) \in Ends
      /\ \A f \in Ends : f # e => f = Peer(e)
      /\ Peer(e) # e
  BY Peers
<1>4. \A q \in Processes, h \in Handles : table[q][h] # NotOpen => table'[q][h] = table[q][h]
  BY <1>1 DEF OnlyFresh, FreeHandles
<1>5. OwnedOpen'
  BY <1>2, <1>4 DEF OwnedOpen, Typed
<1>6. Outcomes'
  BY <1>2 DEF Outcomes, ReceivedIntact, SealedCarriesNone, Peer
<1>7. ASSUME GivenUp(e, fresh)
      PROVE  Delivered' /\ OneMessage' /\ (Passes = 1 /\ AllAccounted => AllAccounted')
  <2>1. \A f \in Ends : Line(f)' = Line(f)
    BY <1>2, <1>3, <1>7, LinesSend DEF GivenUp
  <2>2. \A f \in Ends : LineKept(f)
    BY <2>1, SameKept
  <2>3. Delivered'
    <3>1. ASSUME NEW f \in Ends, NEW i \in DOMAIN Line(f)', NEW h \in SeqSet(Line(f)'[i].handles)
          PROVE  table'[Home[f]][h] = table[Home[f]][h] /\ h \notin owned'[Home[f]]
      BY <1>2, <1>4, <2>1, Carried
    <3> QED
      BY <2>2, <3>1, KeptDelivered
  <2>4. OneMessage'
    BY <2>2, KeptApart
  <2>5. ASSUME AllAccounted PROVE AllAccounted'
    <3> SUFFICES ASSUME \A f \in Ends : ~closed[f], NEW q \in Processes, NEW h \in Handles,
                        table'[q][h] # NotOpen
                 PROVE  Accounted(q, h)'
      BY <1>2 DEF AllAccounted
    <3>1. CASE q = Home[Peer(e)] /\ h \in fresh
      BY <1>7, <3>1 DEF GivenUp, Accounted, IsSocket
    <3>2. CASE ~(q = Home[Peer(e)] /\ h \in fresh)
      <4>1. table'[q][h] = table[q][h]
        BY <1>1, <3>2 DEF OnlyFresh
      <4>2. Accounted(q, h)
        BY <2>5, <4>1 DEF AllAccounted
      <4> QED
        BY <1>2, <2>1, <4>1, <4>2 DEF Accounted, IsSocket, SeqSet
    <3> QED
      BY <3>1, <3>2
  <2> QED
    BY <2>3, <2>4, <2>5
<1>8. ASSUME NEW m, Accepted(e, fresh, m)
      PROVE  Delivered' /\ OneMessage' /\ (Passes = 1 /\ AllAccounted => AllAccounted')
  <2>f. PICK f \in Ends : f = Peer(e)
    BY <1>3
  <2>l. PICK l \in Seq(Message) : l = Line(f)
    BY LineType
  <2>1. m \in Message /\ m # NoMessage
    BY <1>8, MessageIsOne DEF Accepted
  <2>2. Line(f)' = Append(l, m) /\ Line(e)' = Line(e)
    BY <1>2, <1>8, <2>1, <2>f, <2>l, LinesSend DEF Accepted
  <2>3. /\ DOMAIN Line(f)' = 1 .. Len(l) + 1 /\ DOMAIN Line(f) = 1 .. Len(l)
        /\ \A i \in 1 .. Len(l) : Line(f)'[i] = Line(f)[i]
        /\ Line(f)'[Len(l) + 1] = m
        /\ Len(l) \in Nat
    BY <2>1, <2>2, <2>l
  \* Every message is an old one at its place, or m at the end of f's line.
  <2>4. ASSUME NEW d \in Ends, NEW i \in DOMAIN Line(d)'
        PROVE  \/ d = f /\ i = Len(l) + 1 /\ Line(d)'[i] = m
               \/ i \in DOMAIN Line(d) /\ Line(d)'[i] = Line(d)[i]
    <3>1. CASE d = e
      BY <2>2, <3>1
    <3>2. CASE d = f
      BY <2>3, <3>2
    <3> QED
      BY <1>3, <2>f, <3>1, <3>2
  <2>5. ASSUME NEW h \in SeqSet(m.handles)
        PROVE  /\ h \in fresh /\ h \in FreeHandles(table[Home[f]])
               /\ h \in Handles /\ h \notin owned[Home[f]]
    <3>1. h \in fresh /\ h \in FreeHandles(table[Home[f]])
      BY <1>1, <1>8, <2>f DEF Accepted, OnlyFresh
    <3> QED
      BY <1>3, <2>f, <3>1 DEF FreeHandles, OwnedOpen
  <2>6. Delivered'
    <3> SUFFICES ASSUME NEW d \in Ends, NEW i \in DOMAIN Line(d)', NEW n, n = Line(d)'[i]
                 PROVE  Delivers(n, d)' /\ MayCarry(n, d)
      BY DEF Delivered, Delivers, MayCarry, Peer
    <3>1. CASE d = f /\ n = m
      <4>1. \A j \in DOMAIN m.handles : m.handles[j] \in SeqSet(m.handles)
        BY DEF SeqSet
      <4>2. \A j \in DOMAIN m.handles : m.handles[j] \notin owned'[Home[f]]
        BY <1>2, <2>5, <4>1
      <4> QED
        BY <1>8, <2>f, <3>1, <4>2 DEF Accepted, Delivers
    <3>2. CASE i \in DOMAIN Line(d) /\ n = Line(d)[i]
      <4>1. Delivers(n, d) /\ MayCarry(n, d)
        BY <3>2 DEF Delivered
      <4>2. \A j \in DOMAIN n.handles :
              /\ table'[Home[d]][n.handles[j]] = table[Home[d]][n.handles[j]]
              /\ n.handles[j] \notin owned'[Home[d]]
        <5> SUFFICES ASSUME NEW h \in SeqSet(Line(d)[i].handles)
                     PROVE  table'[Home[d]][h] = table[Home[d]][h] /\ h \notin owned'[Home[d]]
          BY <3>2 DEF SeqSet
        <5> QED
          BY <1>2, <1>4, <3>2, Carried
      <4> QED
        BY <4>1, <4>2 DEF Delivers
    <3> QED
      BY <2>4, <3>1, <3>2
  <2>7. OneMessage'
    <3> SUFFICES ASSUME NEW c \in Ends, NEW d \in Ends, Home[c] = Home[d],
                        NEW i \in DOMAIN Line(c)', NEW j \in DOMAIN Line(d)', c # d \/ i # j
                 PROVE  SeqSet(Line(c)'[i].handles) \cap SeqSet(Line(d)'[j].handles) = {}
      BY DEF OneMessage, SeqSet
    <3> SUFFICES ASSUME NEW h, h \in SeqSet(Line(c)'[i].handles), h \in SeqSet(Line(d)'[j].handles)
                 PROVE  FALSE
      OBVIOUS
    <3>1. CASE /\ i \in DOMAIN Line(c) /\ Line(c)'[i] = Line(c)[i]
               /\ j \in DOMAIN Line(d) /\ Line(d)'[j] = Line(d)[j]
      BY <3>1 DEF OneMessage
    <3>2. CASE /\ c = f /\ i = Len(l) + 1 /\ Line(c)'[i] = m
               /\ j \in DOMAIN Line(d) /\ Line(d)'[j] = Line(d)[j]
      BY <2>5, <3>2, Carried
    <3>3. CASE /\ d = f /\ j = Len(l) + 1 /\ Line(d)'[j] = m
               /\ i \in DOMAIN Line(c) /\ Line(c)'[i] = Line(c)[i]
      BY <2>5, <3>3, Carried
    <3> QED
      BY <2>4, <3>1, <3>2, <3>3
  <2>8. ASSUME Passes = 1, AllAccounted PROVE AllAccounted'
    <3> SUFFICES ASSUME \A d \in Ends : ~closed[d], NEW q \in Processes, NEW h \in Handles,
                        table'[q][h] # NotOpen
                 PROVE  Accounted(q, h)'
      BY <1>2 DEF AllAccounted
    <3>1. CASE q = Home[f] /\ h \in fresh
      <4>1. h \in SeqSet(Line(f)'[Len(l) + 1].handles) /\ Len(l) + 1 \in DOMAIN Line(f)'
        BY <1>8, <2>3, <2>8, <3>1 DEF Accepted
      <4> QED
        BY <3>1, <4>1 DEF Accounted, SeqSet
    <3>2. CASE ~(q = Home[f] /\ h \in fresh)
      <4>1. table'[q][h] = table[q][h]
        BY <1>1, <2>f, <3>2 DEF OnlyFresh
      <4>2. Accounted(q, h)
        BY <2>8, <4>1 DEF AllAccounted
      <4>3. \A d \in Ends : \A i \in DOMAIN Line(d) : i \in DOMAIN Line(d)' /\ Line(d)'[i] = Line(d)[i]
        <5> SUFFICES ASSUME NEW d \in Ends, NEW i \in DOMAIN Line(d)
                     PROVE  i \in DOMAIN Line(d)' /\ Line(d)'[i] = Line(d)[i]
          OBVIOUS
        <5>1. CASE d = e
          BY <2>2, <5>1
        <5>2. CASE d = f
          BY <2>3, <5>2
        <5> QED
          BY <1>3, <2>f, <5>1, <5>2
      <4> QED
        BY <1>2, <4>1, <4>2, <4>3 DEF Accounted, IsSocket, SeqSet
    <3> QED
      BY <3>1, <3>2
  <2> QED
    BY <2>6, <2>7, <2>8
<1> QED
  BY <1>1, <1>5, <1>6, <1>7, <1>8

\* poll keeps it: the handles of the message it takes get their owner.
LEMMA PollKeeps ==
  ASSUME IndInv, NEW e \in Ends, Poll(e)
  PROVE  OwnedOpen' /\ Delivered' /\ OneMessage' /\ Outcomes' /\ (AllAccounted => AllAccounted')
<1> USE DEF IndInv
<1>0. /\ Home[e] \in Processes /\ Peer(e) \in Ends /\ Peer(Peer(e)) = e
      /\ \A f \in Ends : Peer(f) = Peer(e) => f = e
  BY Peers
<1>1. /\ \A f \in Ends : f # e => Line(f)' = Line(f)
      /\ 1 \in DOMAIN Line(e) /\ Head(wire[e]) = Line(e)[1]
      /\ DOMAIN Line(e)' = 1 .. Len(Line(e)) - 1
      /\ \A i \in DOMAIN Line(e)' : i + 1 \in DOMAIN Line(e) /\ Line(e)'[i] = Line(e)[i + 1]
  BY PollKept
<1>m. PICK m \in Message : m = Line(e)[1]
  BY <1>1, LineType
<1>2. Delivers(m, e) /\ MayCarry(m, e)
  BY <1>1, <1>m DEF Delivered
<1>3. table' = table /\ closed' = closed
  BY DEF Poll
<1>4. /\ m.size = 0 => owned' = owned /\ m.handles = <<>>
      /\ m.size # 0 => owned' = [owned EXCEPT ![Home[e]] = owned[Home[e]] \cup SeqSet(m.handles)]
  BY <1>1, <1>2, <1>m DEF Poll, Adopted, MayCarry
<1>5. /\ \A q \in Processes : q # Home[e] => owned'[q] = owned[q]
      /\ owned'[Home[e]] = owned[Home[e]] \cup SeqSet(m.handles)
  BY <1>0, <1>4 DEF Typed, SeqSet
<1>6. OwnedOpen'
  <2>1. \A h \in SeqSet(m.handles) : table[Home[e]][h] # NotOpen
    BY <1>2 DEF Delivers, SeqSet
  <2> QED
    BY <1>3, <1>5, <2>1 DEF OwnedOpen
<1>7. Delivered'
  <2>1. ASSUME NEW f \in Ends, NEW i \in DOMAIN Line(f)', NEW h \in SeqSet(Line(f)'[i].handles)
        PROVE  table'[Home[f]][h] = table[Home[f]][h] /\ h \notin owned'[Home[f]]
    <3>1. PICK j \in DOMAIN Line(f) : Line(f)'[i] = Line(f)[j] /\ (f # e \/ j # 1)
      <4>1. CASE f = e
        <5>1. i + 1 # 1
          BY <1>1, <4>1
        <5> QED
          BY <1>1, <4>1, <5>1
      <4>2. CASE f # e
        BY <1>1, <4>2
      <4> QED
        BY <4>1, <4>2
    <3>2. h \notin owned[Home[f]] /\ Home[f] \in Processes
      BY <3>1, Carried
    <3>3. Home[f] = Home[e] => h \notin SeqSet(m.handles)
      BY <1>1, <1>m, <3>1 DEF OneMessage
    <3> QED
      BY <1>3, <1>5, <3>2, <3>3
  <2> QED
    BY <2>1, PollLinesKept, KeptDelivered
<1>8. OneMessage'
  BY PollLinesKept, KeptApart
<1>9. Outcomes'
  <2>1. CASE m.size = 0
    <3>1. outcome' = [outcome EXCEPT ![e] = Outcome("eof", 0, TRUE)]
      BY <1>1, <1>m, <2>1 DEF Poll
    <3>2. ReceivedIntact'
      BY <3>1 DEF Outcomes, ReceivedIntact, Outcome, Typed
    <3>3. SealedCarriesNone'
      <4> SUFFICES ASSUME NEW s \in SealedEnds PROVE outcome'[Peer(s)].made = 0
        BY DEF SealedCarriesNone, Peer
      <4>1. s \in Ends /\ Peer(s) \in Ends
        BY WinChannelAssumption, Peers
      <4> QED
        BY <3>1, <4>1 DEF Outcomes, SealedCarriesNone, Outcome, Typed
    <3> QED
      BY <3>2, <3>3 DEF Outcomes
  <2>2. CASE m.size # 0
    <3>b. PICK b : b = (\A j \in DOMAIN m.want : table[Home[e]][m.handles[j]] = m.want[j])
      OBVIOUS
    <3>1. outcome' = [outcome EXCEPT ![e] = Outcome("message", Len(m.handles), b)]
      BY <1>1, <1>m, <2>2, <3>b DEF Poll
    <3>2. b = TRUE
      <4>1. DOMAIN m.want = DOMAIN m.handles
        BY <1>2, <1>m DEF Delivers, Message
      <4> QED
        BY <1>2, <3>b, <4>1 DEF Delivers
    <3>3. ReceivedIntact'
      BY <3>1, <3>2 DEF Outcomes, ReceivedIntact, Outcome, Typed
    <3>4. SealedCarriesNone'
      <4> SUFFICES ASSUME NEW s \in SealedEnds PROVE outcome'[Peer(s)].made = 0
        BY DEF SealedCarriesNone, Peer
      <4>1. s \in Ends /\ Peer(s) \in Ends /\ Peer(Peer(s)) = s
        BY WinChannelAssumption, Peers
      <4>2. CASE Peer(s) = e
        <5>1. m.handles = <<>>
          BY <1>2, <4>1, <4>2 DEF MayCarry
        <5> QED
          BY <3>1, <4>2, <5>1 DEF Outcome, Typed
      <4>3. CASE Peer(s) # e
        BY <3>1, <4>1, <4>3 DEF Outcomes, SealedCarriesNone, Typed
      <4> QED
        BY <4>2, <4>3
    <3> QED
      BY <3>3, <3>4 DEF Outcomes
  <2> QED
    BY <2>1, <2>2
<1>10. ASSUME AllAccounted PROVE AllAccounted'
  <2> SUFFICES ASSUME \A f \in Ends : ~closed[f], NEW q \in Processes, NEW h \in Handles,
                      table[q][h] # NotOpen
               PROVE  Accounted(q, h)'
    BY <1>3 DEF AllAccounted
  <2>1. Accounted(q, h)
    BY <1>10 DEF AllAccounted
  <2>2. CASE h \in owned[q]
    BY <1>5, <2>2 DEF Accounted
  <2>3. CASE IsSocket(table[q][h])
    BY <1>3, <2>3 DEF Accounted, IsSocket
  <2>4. CASE \E f \in Ends : Home[f] = q /\ \E i \in DOMAIN Line(f) : h \in SeqSet(Line(f)[i].handles)
    <3>0. PICK f \in Ends : /\ Home[f] = q
                            /\ \E i \in DOMAIN Line(f) : h \in SeqSet(Line(f)[i].handles)
      BY <2>4
    <3>1. PICK i \in DOMAIN Line(f) : Home[f] = q /\ h \in SeqSet(Line(f)[i].handles)
      BY <3>0
    <3>2. CASE f # e
      BY <1>1, <3>1, <3>2 DEF Accounted, SeqSet
    <3>3. CASE f = e /\ i = 1
      BY <1>5, <1>m, <3>1, <3>3 DEF Accounted
    <3>4. CASE f = e /\ i # 1
      <4>1. PICK n \in Nat : n = Len(Line(e)) /\ DOMAIN Line(e) = 1 .. n
        BY LineType
      <4>2. i - 1 \in DOMAIN Line(e)' /\ (i - 1) + 1 = i
        BY <1>1, <3>1, <3>4, <4>1
      <4>3. Line(e)'[i - 1] = Line(e)[i]
        BY <1>1, <4>2
      <4> QED
        BY <3>1, <3>4, <4>2, <4>3 DEF Accounted, SeqSet
    <3> QED
      BY <3>2, <3>3, <3>4
  <2> QED
    BY <2>1, <2>2, <2>3, <2>4 DEF Accounted
<1> QED
  BY <1>6, <1>7, <1>8, <1>9, <1>10

\* Every step keeps the invariant and, when a value is walked once, the account
\* of the open handles.
LEMMA IndInvNext ==
  ASSUME IndInv, [Next]_vars
  PROVE  IndInv' /\ (Passes = 1 /\ AllAccounted => AllAccounted')
<1> USE DEF IndInv
<1>T. Typed'
  BY TypedNext
<1>E. \A e \in Ends : Peer(e)' = Peer(e)
  BY DEF Peer
<1>1. ASSUME NEW e \in Ends, NEW size \in Sizes, NEW files \in FileLists(e),
             StartSend(e, size, files)
      PROVE  IndInv' /\ (Passes = 1 /\ AllAccounted => AllAccounted')
  BY <1>T, <1>1, SendKeeps
<1>2. ASSUME NEW e \in Ends, Poll(e)
      PROVE  IndInv' /\ (Passes = 1 /\ AllAccounted => AllAccounted')
  BY <1>T, <1>2, PollKeeps
\* The lines, the tables and what was received stay as they are.
<1>S. ASSUME \A e \in Ends : Line(e)' = Line(e), UNCHANGED <<table, owned, closed, outcome>>
      PROVE  IndInv' /\ (Passes = 1 /\ AllAccounted => AllAccounted')
  <2>1. \A e \in Ends : LineKept(e)
    BY <1>S, SameKept
  <2>2. Delivered'
    <3>1. ASSUME NEW f \in Ends, NEW i \in DOMAIN Line(f)', NEW h \in SeqSet(Line(f)'[i].handles)
          PROVE  table'[Home[f]][h] = table[Home[f]][h] /\ h \notin owned'[Home[f]]
      BY <1>S, Carried
    <3> QED
      BY <2>1, <3>1, KeptDelivered
  <2>3. OneMessage'
    BY <2>1, KeptApart
  <2>4. OwnedOpen' /\ Outcomes'
    BY <1>S DEF OwnedOpen, Outcomes, ReceivedIntact, SealedCarriesNone, Peer
  <2>5. AllAccounted => AllAccounted'
    BY <1>S DEF AllAccounted, Accounted, SeqSet, IsSocket
  <2> QED
    BY <1>T, <2>2, <2>3, <2>4, <2>5
<1>3. ASSUME NEW e \in Ends, PollComplete(e)
      PROVE  IndInv' /\ (Passes = 1 /\ AllAccounted => AllAccounted')
  <2>1. \A f \in Ends : Line(f)' = Line(f)
    <3>1. wire' = FlushedWire(e) /\ buffered' = [buffered EXCEPT ![e] = NoMessage]
      BY <1>3 DEF PollComplete
    <3>2. Line(Peer(e))' = Line(Peer(e)) /\ Line(e)' = Line(e)
      BY <3>1, LinesSend
    <3> QED
      BY <3>2, Peers
  <2> QED
    BY <1>3, <1>S, <2>1 DEF PollComplete
<1>4. ASSUME NEW e \in Ends, PollEnd(e)
      PROVE  IndInv' /\ (Passes = 1 /\ AllAccounted => AllAccounted')
  <2>1. \A f \in Ends : Line(f)' = Line(f)
    BY <1>4 DEF PollEnd, Line, Peer
  <2>2. \A f \in Ends : LineKept(f)
    BY <2>1, SameKept
  <2>3. Delivered'
    <3>1. ASSUME NEW f \in Ends, NEW i \in DOMAIN Line(f)', NEW h \in SeqSet(Line(f)'[i].handles)
          PROVE  table'[Home[f]][h] = table[Home[f]][h] /\ h \notin owned'[Home[f]]
      BY <1>4, <2>1, Carried DEF PollEnd
    <3> QED
      BY <2>2, <3>1, KeptDelivered
  <2>4. OneMessage'
    BY <2>2, KeptApart
  <2>5. Outcomes'
    <3>1. ReceivedIntact'
      BY <1>4 DEF PollEnd, Outcomes, ReceivedIntact, Outcome, Typed
    <3>2. SealedCarriesNone'
      <4> SUFFICES ASSUME NEW s \in SealedEnds PROVE outcome'[Peer(s)].made = 0
        BY DEF SealedCarriesNone, Peer
      <4>1. s \in Ends /\ Peer(s) \in Ends
        BY WinChannelAssumption, Peers
      <4> QED
        BY <1>4, <4>1 DEF PollEnd, Outcomes, SealedCarriesNone, Outcome, Typed
    <3> QED
      BY <3>1, <3>2 DEF Outcomes
  <2>6. OwnedOpen' /\ (AllAccounted => AllAccounted')
    BY <1>4, <2>1 DEF PollEnd, OwnedOpen, AllAccounted, Accounted, SeqSet, IsSocket
  <2> QED
    BY <1>T, <2>3, <2>4, <2>5, <2>6
<1>5. ASSUME NEW e \in Ends, DropChannel(e)
      PROVE  IndInv' /\ (Passes = 1 /\ AllAccounted => AllAccounted')
  <2>1. UNCHANGED <<table, owned, outcome>> /\ closed'[e] = TRUE
    BY <1>5 DEF DropChannel, Typed
  <2>2. \A f \in Ends : LineKept(f)
    BY <1>5, DropLinesKept
  <2>3. Delivered'
    <3>1. ASSUME NEW f \in Ends, NEW i \in DOMAIN Line(f)', NEW h \in SeqSet(Line(f)'[i].handles)
          PROVE  table'[Home[f]][h] = table[Home[f]][h] /\ h \notin owned'[Home[f]]
      <4>1. PICK j \in DOMAIN Line(f) : Line(f)'[i] = Line(f)[j]
        BY <2>2 DEF LineKept
      <4> QED
        BY <2>1, <4>1, Carried
    <3> QED
      BY <2>2, <3>1, KeptDelivered
  <2>4. OneMessage'
    BY <2>2, KeptApart
  <2>5. OwnedOpen' /\ Outcomes'
    BY <2>1 DEF OwnedOpen, Outcomes, ReceivedIntact, SealedCarriesNone, Peer
  <2>6. AllAccounted'
    BY <2>1 DEF AllAccounted
  <2> QED
    BY <1>T, <2>3, <2>4, <2>5, <2>6
<1>6. ASSUME NEW p \in Processes, NEW h \in owned[p], DropFile(p, h)
      PROVE  IndInv' /\ (Passes = 1 /\ AllAccounted => AllAccounted')
  <2>1. \A f \in Ends : Line(f)' = Line(f)
    BY <1>6 DEF DropFile, Line, Peer
  <2>2. \A f \in Ends : LineKept(f)
    BY <2>1, SameKept
  <2>3. /\ \A q \in Processes, g \in Handles :
             /\ (q # p \/ g # h) => table'[q][g] = table[q][g] /\ (g \in owned'[q] <=> g \in owned[q])
             /\ q = p /\ g = h => table'[q][g] = NotOpen /\ g \notin owned'[q]
        /\ closed' = closed /\ outcome' = outcome
        /\ h \in Handles
    BY <1>6 DEF DropFile, Typed
  <2>4. Delivered'
    <3>1. ASSUME NEW f \in Ends, NEW i \in DOMAIN Line(f)', NEW g \in SeqSet(Line(f)'[i].handles)
          PROVE  table'[Home[f]][g] = table[Home[f]][g] /\ g \notin owned'[Home[f]]
      <4>1. g \in Handles /\ Home[f] \in Processes /\ g \notin owned[Home[f]]
        BY <2>1, Carried
      <4> QED
        BY <2>3, <4>1
    <3> QED
      BY <2>2, <3>1, KeptDelivered
  <2>5. OneMessage'
    BY <2>2, KeptApart
  <2>6. Outcomes'
    BY <2>3 DEF Outcomes, ReceivedIntact, SealedCarriesNone, Peer
  <2>7. OwnedOpen'
    <3>1. \A q \in Processes : owned'[q] \subseteq Handles
      BY <1>T DEF Typed
    <3> QED
      BY <2>3, <3>1 DEF OwnedOpen
  <2>8. ASSUME AllAccounted PROVE AllAccounted'
    <3> SUFFICES ASSUME \A f \in Ends : ~closed[f], NEW q \in Processes, NEW g \in Handles,
                        table'[q][g] # NotOpen
                 PROVE  Accounted(q, g)'
      BY <2>3 DEF AllAccounted
    <3>1. table'[q][g] = table[q][g] /\ (g \in owned'[q] <=> g \in owned[q])
      BY <2>3
    <3>2. Accounted(q, g)
      BY <2>8, <3>1 DEF AllAccounted
    <3> QED
      BY <2>1, <3>1, <3>2 DEF Accounted, IsSocket, SeqSet
  <2> QED
    BY <1>T, <2>4, <2>5, <2>6, <2>7, <2>8
<1>7. ASSUME UNCHANGED vars
      PROVE  IndInv' /\ (Passes = 1 /\ AllAccounted => AllAccounted')
  <2>1. \A f \in Ends : Line(f)' = Line(f)
    BY <1>7 DEF vars, Line, Peer
  <2> QED
    BY <1>7, <1>S, <2>1 DEF vars
<1> QED
  BY <1>1, <1>2, <1>3, <1>4, <1>5, <1>6, <1>7 DEF Next

LEMMA Invariance == Spec => []IndInv
<1>1. Init => IndInv
  BY IndInvInit
<1>2. IndInv /\ [Next]_vars => IndInv'
  BY IndInvNext
<1> QED
  BY <1>1, <1>2, PTL DEF Spec

\* The messages of Underway are those of the line.
LEMMA UnderwayIs ==
  ASSUME Typed, NEW e \in Ends
  PROVE  Underway(e) = {Line(e)[i] : i \in DOMAIN Line(e)}
<1>w. PICK w \in Seq(Message) : w = wire[e]
  BY DEF Typed
<1>x. PICK x \in Message \cup {NoMessage} : x = buffered[Peer(e)]
  BY Peers DEF Typed
<1>1. /\ DOMAIN Append(w, x) = (DOMAIN w) \cup {Len(w) + 1}
      /\ \A i \in DOMAIN w : Append(w, x)[i] = w[i]
      /\ Append(w, x)[Len(w) + 1] = x
  OBVIOUS
<1>2. /\ Underway(e) = SeqSet(w) \cup (IF x = NoMessage THEN {} ELSE {x})
      /\ Line(e) = IF x = NoMessage THEN w ELSE Append(w, x)
  BY <1>w, <1>x DEF Underway, Line
<1>3. CASE x = NoMessage
  BY <1>2, <1>3 DEF SeqSet
<1>4. CASE x # NoMessage
  BY <1>1, <1>2, <1>4 DEF SeqSet
<1> QED
  BY <1>3, <1>4

\* The handles that are pending in a process are those of the lines of its ends.
LEMMA PendingIs ==
  ASSUME Typed, NEW p \in Processes, NEW h
  PROVE  h \in Pending(p) <=>
           \E e \in Ends : Home[e] = p /\ \E i \in DOMAIN Line(e) : h \in SeqSet(Line(e)[i].handles)
<1>1. \A e \in Ends : Underway(e) = {Line(e)[i] : i \in DOMAIN Line(e)}
  BY UnderwayIs
<1>2. h \in Pending(p) <=> \E e \in Ends : Home[e] = p /\ \E m \in Underway(e) : h \in SeqSet(m.handles)
  BY DEF Pending
<1> QED
  BY <1>1, <1>2
-----------------------------------------------------------------------------
(***************************************************************************)
(* The theorems                                                            *)
(***************************************************************************)

\* What a process receives refers to the very files and sockets that were sent,
\* however long the message was on its way and whatever was dropped meanwhile.
THEOREM ReceivedIntactHolds == Spec => []ReceivedIntact
<1>1. IndInv => ReceivedIntact
  BY DEF IndInv, Outcomes
<1> QED
  BY <1>1, Invariance, PTL

\* A handle on its way is open in its receiver and no object there owns it, so
\* that nothing closes it under the message or twice.
THEOREM HandlesApartHolds == Spec => []HandlesApart
<1>1. ASSUME IndInv, NEW p \in Processes, NEW h \in Pending(p)
      PROVE  table[p][h] # NotOpen /\ h \notin owned[p]
  <2>1. PICK e \in Ends : Home[e] = p /\ \E i \in DOMAIN Line(e) : h \in SeqSet(Line(e)[i].handles)
    BY <1>1, PendingIs DEF IndInv
  <2> QED
    BY <1>1, <2>1, Carried DEF IndInv
<1>2. IndInv => HandlesApart
  BY <1>1 DEF HandlesApart
<1> QED
  BY <1>2, Invariance, PTL

\* A value that was given up leaves no handle of a file open in the receiver:
\* SenderDrop closes what was duplicated so far.  For serializers that walk a
\* value once.
THEOREM NoStrayHandleHolds == ASSUME Passes = 1 PROVE Spec => []NoStrayHandle
<1>1. Init => IndInv /\ AllAccounted
  BY IndInvInit
<1>2. (IndInv /\ AllAccounted) /\ [Next]_vars => (IndInv /\ AllAccounted)'
  BY IndInvNext
<1>3. ASSUME IndInv, AllAccounted PROVE NoStrayHandle
  <2> SUFFICES ASSUME \A e \in Ends : ~closed[e], NEW p \in Processes,
                      NEW h \in Handles \ FreeHandles(table[p])
               PROVE  h \in owned[p] \cup Pending(p) \/ IsSocket(table[p][h])
    BY DEF NoStrayHandle
  <2>1. Accounted(p, h)
    BY <1>3 DEF AllAccounted, FreeHandles
  <2> QED
    BY <1>3, <2>1, PendingIs DEF IndInv, Accounted
<1> QED
  BY <1>1, <1>2, <1>3, PTL DEF Spec

\* No file or socket is received from a sealed end.
THEOREM SealedCarriesNoneHolds == Spec => []SealedCarriesNone
<1>1. IndInv => SealedCarriesNone
  BY DEF IndInv, Outcomes
<1> QED
  BY <1>1, Invariance, PTL
=============================================================================
