-------------------------- MODULE NamedChannelProofs --------------------------
(***************************************************************************)
(* Proofs about named channels, for any number of clients, any timeouts    *)
(* and any size of the listener's queue.                                   *)
(***************************************************************************)
EXTENDS NamedChannel, SequenceTheorems, TLAPS

ServerStates ==
  {"listening", "accepting", "taken", "failing", "failed", "open", "gone"}
ClientStates ==
  {"idle", "waiting", "creating", "identifying", "open", "failed", "gone"}

Typed ==
  /\ platform \in {"unix", "windows"}
  /\ server \in ServerStates
  /\ client \in [Clients -> ClientStates]
  /\ pending \in Seq(Clients)
  /\ peer \in Clients \cup {Nobody}
  /\ target \in [Processes -> Processes \cup {Stranger, Nobody}]
  /\ alive \subseteq Processes
  /\ asked \in [Processes -> Nat \cup {NoTimeout}]
  /\ waited \in [Processes -> Nat]
  /\ expired \subseteq Processes

\* Every connection, waiting or accepted, is that of a client that has come past
\* its wait.
Arrived(c) == client[c] \notin {"idle", "waiting"}
Connections ==
  /\ \A i \in DOMAIN pending : Arrived(pending[i])
  /\ peer # Nobody => Arrived(peer)
  /\ server \in {"taken", "open"} => peer # Nobody
  /\ server = "open" => pending = <<>>

\* A server that has exited does nothing any more.
ServerGone == Server \notin alive => server = "gone"

\* On Windows an open channel knows the process at its other side, or one that
\* was given the id of that process after it exited.
Knows(p, q) == target[p] = q \/ (target[p] = Stranger /\ q \notin alive)
Targets ==
  platform = "windows" =>
    /\ \A c \in Clients : client[c] = "open" => Knows(c, Server)
    /\ server = "open" => Knows(Server, peer)

PairInv == Connections /\ ServerGone /\ Targets

\* Whose wait timed out has called accept or connect and does not do so again.
ExpiredAsked ==
  /\ Server \in expired => server # "listening"
  /\ \A c \in Clients : c \in expired => client[c] # "idle"

TimeInv == ExpiredAsked /\ TimesOutOnTime
-----------------------------------------------------------------------------
\* The owner of the name is not one of its clients.
LEMMA Names ==
  /\ Server \in Processes /\ Server \notin Clients
  /\ \A c \in Clients : c \in Processes /\ c # Server /\ c # Nobody
BY NamedAssumption DEF Processes, Server, Nobody

\* What ConnectUnix appends to the queue and AcceptTakes removes from it.
LEMMA Queue ==
  ASSUME NEW S, NEW q \in Seq(S)
  PROVE  /\ \A c \in S : /\ Append(q, c) \in Seq(S)
                         /\ \A i \in DOMAIN Append(q, c) :
                              Append(q, c)[i] = c \/ (i \in DOMAIN q /\ Append(q, c)[i] = q[i])
         /\ q # <<>> => /\ Head(q) \in S /\ Tail(q) \in Seq(S)
                        /\ 1 \in DOMAIN q /\ Head(q) = q[1]
                        /\ \A i \in DOMAIN Tail(q) :
                             i + 1 \in DOMAIN q /\ Tail(q)[i] = q[i + 1]
OBVIOUS

\* Seconds and the rest of a second make up the whole duration, but for less than
\* a millisecond; Millis only loses what a DWORD cannot hold.
LEMMA MillisRounds ==
  ASSUME NEW d \in Nat, d < Forever * UnitsPerMilli
  PROVE  Millis(d) \in Nat /\ (Millis(d) + 1) * UnitsPerMilli > d
<1> DEFINE U == UnitsPerMilli
           M == MillisPerSec
<1>1. U \in Nat \ {0} /\ M \in Nat \ {0} /\ Word \in Nat \ {0, 1}
  BY NamedAssumption
<1>2. UnitsPerSec \in Nat \ {0}
  BY <1>1 DEF UnitsPerSec
<1>q. PICK q : q = d \div UnitsPerSec
  OBVIOUS
<1>r. PICK r : r = d % UnitsPerSec
  OBVIOUS
<1>3. q \in Nat /\ r \in Nat /\ d = UnitsPerSec * q + r
  <2>1. q \in Int /\ r \in Nat /\ r < UnitsPerSec /\ d = UnitsPerSec * q + r
    BY <1>2, <1>q, <1>r
  <2> QED
    BY <1>2, <2>1
<1>a. PICK a : a = r \div U
  OBVIOUS
<1>b. PICK b : b = r % U
  OBVIOUS
<1>4. a \in Nat /\ b \in Nat /\ r = U * a + b /\ b < U
  <2>1. a \in Int /\ b \in Nat /\ r = U * a + b /\ b < U
    BY <1>1, <1>3, <1>a, <1>b
  <2> QED
    BY <1>1, <1>3, <2>1
<1> DEFINE n == q * M + a
<1>5. n \in Nat
  BY <1>1, <1>3, <1>4
<1>6. d = U * n + b
  BY <1>1, <1>3, <1>4 DEF UnitsPerSec
<1> HIDE DEF n
<1>7. U * n < Forever * U
  BY <1>1, <1>4, <1>5, <1>6 DEF Forever
<1>8. n < Forever
  BY <1>1, <1>5, <1>7 DEF Forever
<1>9. Millis(d) = n
  <2>1. n % Word = n
    BY <1>1, <1>5, <1>8 DEF Forever
  <2> QED
    BY <2>1, <1>q, <1>r, <1>a DEF Millis, n
<1>10. (n + 1) * U > d
  BY <1>1, <1>4, <1>5, <1>6
<1> QED
  BY <1>5, <1>9, <1>10

\* What TimesOutOnTime says of one process.
OnTime(p) ==
  /\ asked[p] # NoTimeout
  /\ asked[p] < Forever * UnitsPerMilli
       => (waited[p] + 1) * UnitsPerMilli > asked[p]

\* A wait whose time is up has taken the time asked for.
LEMMA TimeUp ==
  ASSUME Typed, NEW p \in Processes, TimeIsUp(p)
  PROVE  OnTime(p)
<1>1. /\ UnitsPerMilli \in Nat \ {0} /\ Word \in Nat \ {0, 1} /\ DefaultWait \in Nat
      /\ waited[p] \in Nat /\ asked[p] \in Nat \cup {NoTimeout}
  BY NamedAssumption DEF Typed
<1>2. asked[p] # NoTimeout
  BY <1>1 DEF TimeIsUp, WaitTime, Wait, Forever
<1>3. ASSUME asked[p] < Forever * UnitsPerMilli
      PROVE  (waited[p] + 1) * UnitsPerMilli > asked[p]
  <2>1. PICK m \in Nat : m = Millis(asked[p]) /\ (m + 1) * UnitsPerMilli > asked[p]
    BY <1>1, <1>2, <1>3, MillisRounds
  <2>2. waited[p] >= m
    BY <1>1, <1>2, <2>1 DEF TimeIsUp, WaitTime, Wait
  <2>3. (waited[p] + 1) * UnitsPerMilli >= (m + 1) * UnitsPerMilli
    BY <1>1, <2>2
  <2> QED
    BY <1>1, <1>2, <2>1, <2>3
<1> QED
  BY <1>2, <1>3 DEF OnTime
-----------------------------------------------------------------------------
IndInv == Typed /\ PairInv /\ TimeInv

\* The initial state satisfies the invariant.
LEMMA IndInvInit == ASSUME Init PROVE IndInv
<1>1. Typed
  BY NamedAssumption DEF Init, Typed, ServerStates, ClientStates
<1>2. PairInv
  BY Names
  DEF Init, PairInv, Connections, ServerGone, Targets, Knows
<1>3. TimeInv
  BY DEF Init, TimeInv, ExpiredAsked, TimesOutOnTime
<1> QED
  BY <1>1, <1>2, <1>3 DEF IndInv

\* Every step keeps the variables within their types.
LEMMA TypeNext == ASSUME Typed, [Next]_vars PROVE Typed'
<1>N. /\ Durations \subseteq Nat
      /\ Server \in Processes /\ \A c \in Clients : c \in Processes
  BY NamedAssumption, Names
<1>P. \A p : OpenProcess(p) \in Processes \cup {Stranger}
  BY DEF OpenProcess, Typed
<1> USE DEF Typed, ServerGoes, ClientGoes, Ask, Expire, timing, ServerStates, ClientStates
<1>1. ASSUME NEW d \in Durations \cup {NoTimeout}, Accept(d) PROVE Typed'
  BY <1>1, <1>N DEF Accept
<1>2. ASSUME NEW d \in Durations \cup {NoTimeout}, NEW c \in Clients, Connect(c, d)
      PROVE  Typed'
  BY <1>2, <1>N DEF Connect
<1>3. ASSUME AcceptTakes PROVE Typed'
  BY <1>3, <1>N, Queue DEF AcceptTakes
<1>4. ASSUME AcceptTimesOut PROVE Typed'
  BY <1>4, <1>N DEF AcceptTimesOut
<1>5. ASSUME AcceptReturns PROVE Typed'
  BY <1>5, <1>N, <1>P DEF AcceptReturns
<1>6. ASSUME AcceptError PROVE Typed'
  BY <1>6, <1>N DEF AcceptError
<1>7. ASSUME AcceptFails PROVE Typed'
  BY <1>7, <1>N DEF AcceptFails
<1>8. ASSUME DropServer PROVE Typed'
  BY <1>8, <1>N DEF DropServer
<1>9. ASSUME ExitServer PROVE Typed'
  BY <1>9, <1>N DEF ExitServer
<1>10. ASSUME NEW c \in Clients, ConnectUnix(c) PROVE Typed'
  BY <1>10, <1>N, Queue DEF ConnectUnix
<1>11. ASSUME NEW c \in Clients, PipeFree(c) PROVE Typed'
  BY <1>11, <1>N DEF PipeFree
<1>12. ASSUME NEW c \in Clients, WaitTimesOut(c) PROVE Typed'
  BY <1>12, <1>N DEF WaitTimesOut
<1>13. ASSUME NEW c \in Clients, CreateFile(c) PROVE Typed'
  BY <1>13, <1>N DEF CreateFile
<1>14. ASSUME NEW c \in Clients, ConnectReturns(c) PROVE Typed'
  BY <1>14, <1>N, <1>P DEF ConnectReturns
<1>15. ASSUME NEW c \in Clients, ConnectRefused(c) PROVE Typed'
  BY <1>15, <1>N DEF ConnectRefused
<1>16. ASSUME NEW c \in Clients, ConnectFails(c) PROVE Typed'
  BY <1>16, <1>N DEF ConnectFails
<1>17. ASSUME NEW c \in Clients, DropClient(c) PROVE Typed'
  BY <1>17, <1>N DEF DropClient
<1>18. ASSUME NEW c \in Clients, ExitClient(c) PROVE Typed'
  BY <1>18, <1>N DEF ExitClient
<1>19. ASSUME Tick PROVE Typed'
  BY <1>19, <1>N DEF Tick
<1>20. ASSUME UNCHANGED vars PROVE Typed'
  BY <1>20, <1>N DEF vars
<1> HIDE DEF Typed, ServerGoes, ClientGoes, Ask, Expire, timing
<1> QED
  BY <1>1, <1>2, <1>3, <1>4, <1>5, <1>6, <1>7, <1>8, <1>9, <1>10,
     <1>11, <1>12, <1>13, <1>14, <1>15, <1>16, <1>17, <1>18, <1>19, <1>20
  DEF Next, ServerStep, ClientStep

\* Every step keeps the connections and their targets in order.
LEMMA PairNext == ASSUME Typed, PairInv, [Next]_vars PROVE PairInv'
<1>N. /\ Server \in Processes /\ Server \notin Clients
      /\ \A c \in Clients : c \in Processes /\ c # Server /\ c # Nobody
  BY Names
<1> USE DEF Typed, PairInv, Connections, Arrived, ServerGone, Targets, Knows,
            ServerGoes, ClientGoes, timing
<1>1. ASSUME NEW d \in Durations \cup {NoTimeout}, Accept(d) PROVE PairInv'
  BY <1>1, <1>N DEF Accept
<1>2. ASSUME NEW d \in Durations \cup {NoTimeout}, NEW c \in Clients, Connect(c, d)
      PROVE  PairInv'
  BY <1>2, <1>N DEF Connect
<1>3. ASSUME AcceptTakes PROVE PairInv'
  BY <1>3, <1>N, Queue DEF AcceptTakes
<1>4. ASSUME AcceptTimesOut PROVE PairInv'
  BY <1>4, <1>N DEF AcceptTimesOut
<1>5. ASSUME AcceptReturns PROVE PairInv'
  BY <1>5, <1>N DEF AcceptReturns, OpenProcess
<1>6. ASSUME AcceptError PROVE PairInv'
  BY <1>6, <1>N DEF AcceptError
<1>7. ASSUME AcceptFails PROVE PairInv'
  BY <1>7, <1>N DEF AcceptFails
<1>8. ASSUME DropServer PROVE PairInv'
  BY <1>8, <1>N DEF DropServer
<1>9. ASSUME ExitServer PROVE PairInv'
  BY <1>9, <1>N DEF ExitServer
<1>10. ASSUME NEW c \in Clients, ConnectUnix(c) PROVE PairInv'
  BY <1>10, <1>N, Queue DEF ConnectUnix, Listening
<1>11. ASSUME NEW c \in Clients, PipeFree(c) PROVE PairInv'
  BY <1>11, <1>N DEF PipeFree
<1>12. ASSUME NEW c \in Clients, WaitTimesOut(c) PROVE PairInv'
  BY <1>12, <1>N DEF WaitTimesOut
<1>13. ASSUME NEW c \in Clients, CreateFile(c) PROVE PairInv'
  BY <1>13, <1>N DEF CreateFile, Listening
<1>14. ASSUME NEW c \in Clients, ConnectReturns(c) PROVE PairInv'
  BY <1>14, <1>N DEF ConnectReturns, OpenProcess
<1>15. ASSUME NEW c \in Clients, ConnectRefused(c) PROVE PairInv'
  BY <1>15, <1>N DEF ConnectRefused
<1>16. ASSUME NEW c \in Clients, ConnectFails(c) PROVE PairInv'
  BY <1>16, <1>N DEF ConnectFails
<1>17. ASSUME NEW c \in Clients, DropClient(c) PROVE PairInv'
  BY <1>17, <1>N DEF DropClient
<1>18. ASSUME NEW c \in Clients, ExitClient(c) PROVE PairInv'
  BY <1>18, <1>N DEF ExitClient
<1>19. ASSUME Tick PROVE PairInv'
  BY <1>19, <1>N DEF Tick
<1>20. ASSUME UNCHANGED vars PROVE PairInv'
  BY <1>20, <1>N DEF vars
<1> HIDE DEF Typed, PairInv, ServerGoes, ClientGoes, timing
<1> QED
  BY <1>1, <1>2, <1>3, <1>4, <1>5, <1>6, <1>7, <1>8, <1>9, <1>10,
     <1>11, <1>12, <1>13, <1>14, <1>15, <1>16, <1>17, <1>18, <1>19, <1>20
  DEF Next, ServerStep, ClientStep

\* Every step keeps the timeouts that have happened in order.
LEMMA TimeNext == ASSUME Typed, TimeInv, [Next]_vars PROVE TimeInv'
<1>N. /\ Server \in Processes /\ Server \notin Clients
      /\ \A c \in Clients : c \in Processes /\ c # Server
  BY Names
<1>O. TimesOutOnTime <=> \A p \in expired : OnTime(p)
  BY DEF TimesOutOnTime, OnTime
<1>Q. ASSUME \A p \in expired' : OnTime(p)' PROVE TimesOutOnTime'
  BY <1>Q DEF TimesOutOnTime, OnTime
<1>S. ASSUME NEW p \in Processes, OnTime(p), asked'[p] = asked[p], waited'[p] = waited[p]
      PROVE  OnTime(p)'
  BY <1>S DEF OnTime
<1>K. ASSUME UNCHANGED timing, ExpiredAsked' PROVE TimeInv'
  <2>1. \A p \in expired' : OnTime(p)'
    BY <1>K, <1>O, <1>S DEF TimeInv, Typed, timing
  <2> QED
    BY <1>K, <2>1, <1>Q DEF TimeInv
<1>E. ASSUME NEW p \in Processes, Expire(p), TimeIsUp(p), ExpiredAsked' PROVE TimeInv'
  <2>1. OnTime(p)
    BY <1>E, TimeUp
  <2>2. \A q \in expired' : OnTime(q)'
    BY <1>E, <1>O, <1>S, <2>1 DEF TimeInv, Typed, Expire
  <2> QED
    BY <1>E, <2>2, <1>Q DEF TimeInv
<1>A. ASSUME NEW p \in Processes, NEW d, p \notin expired, Ask(p, d), ExpiredAsked'
      PROVE  TimeInv'
  <2>1. \A q \in expired' : OnTime(q)'
    BY <1>A, <1>O, <1>S DEF TimeInv, Typed, Ask
  <2> QED
    BY <1>A, <2>1, <1>Q DEF TimeInv
<1>1. ASSUME NEW d \in Durations \cup {NoTimeout}, Accept(d) PROVE TimeInv'
  <2>1. Server \notin expired /\ ExpiredAsked'
    BY <1>1 DEF Accept, Ask, ServerGoes, TimeInv, ExpiredAsked
  <2> QED
    BY <1>1, <1>N, <1>A, <2>1 DEF Accept
<1>2. ASSUME NEW d \in Durations \cup {NoTimeout}, NEW c \in Clients, Connect(c, d)
      PROVE  TimeInv'
  <2>1. c \notin expired /\ ExpiredAsked'
    BY <1>2 DEF Connect, Ask, ClientGoes, TimeInv, ExpiredAsked, Typed
  <2> QED
    BY <1>2, <1>N, <1>A, <2>1 DEF Connect
<1>3. ASSUME AcceptTakes PROVE TimeInv'
  BY <1>3, <1>K DEF AcceptTakes, timing, ServerGoes, ClientGoes, TimeInv, ExpiredAsked, Typed
<1>4. ASSUME AcceptTimesOut PROVE TimeInv'
  <2>1. ExpiredAsked'
    BY <1>4, <1>N DEF AcceptTimesOut, Expire, ServerGoes, ClientGoes, TimeInv, ExpiredAsked, Typed
  <2> QED
    BY <1>4, <1>N, <1>E, <2>1 DEF AcceptTimesOut
<1>5. ASSUME AcceptReturns PROVE TimeInv'
  BY <1>5, <1>K DEF AcceptReturns, timing, ServerGoes, ClientGoes, TimeInv, ExpiredAsked, Typed
<1>6. ASSUME AcceptError PROVE TimeInv'
  BY <1>6, <1>K DEF AcceptError, timing, ServerGoes, ClientGoes, TimeInv, ExpiredAsked, Typed
<1>7. ASSUME AcceptFails PROVE TimeInv'
  BY <1>7, <1>K DEF AcceptFails, timing, ServerGoes, ClientGoes, TimeInv, ExpiredAsked, Typed
<1>8. ASSUME DropServer PROVE TimeInv'
  BY <1>8, <1>K DEF DropServer, timing, ServerGoes, ClientGoes, TimeInv, ExpiredAsked, Typed
<1>9. ASSUME ExitServer PROVE TimeInv'
  BY <1>9, <1>K DEF ExitServer, timing, ServerGoes, ClientGoes, TimeInv, ExpiredAsked, Typed
<1>10. ASSUME NEW c \in Clients, ConnectUnix(c) PROVE TimeInv'
  BY <1>10, <1>K DEF ConnectUnix, timing, ServerGoes, ClientGoes, TimeInv, ExpiredAsked, Typed
<1>11. ASSUME NEW c \in Clients, PipeFree(c) PROVE TimeInv'
  BY <1>11, <1>K DEF PipeFree, timing, ServerGoes, ClientGoes, TimeInv, ExpiredAsked, Typed
<1>12. ASSUME NEW c \in Clients, WaitTimesOut(c) PROVE TimeInv'
  <2>1. ExpiredAsked'
    BY <1>12, <1>N DEF WaitTimesOut, Expire, ServerGoes, ClientGoes, TimeInv, ExpiredAsked, Typed
  <2> QED
    BY <1>12, <1>N, <1>E, <2>1 DEF WaitTimesOut
<1>13. ASSUME NEW c \in Clients, CreateFile(c) PROVE TimeInv'
  BY <1>13, <1>K DEF CreateFile, timing, ServerGoes, ClientGoes, TimeInv, ExpiredAsked, Typed
<1>14. ASSUME NEW c \in Clients, ConnectReturns(c) PROVE TimeInv'
  BY <1>14, <1>K DEF ConnectReturns, timing, ServerGoes, ClientGoes, TimeInv, ExpiredAsked, Typed
<1>15. ASSUME NEW c \in Clients, ConnectRefused(c) PROVE TimeInv'
  BY <1>15, <1>K DEF ConnectRefused, timing, ServerGoes, ClientGoes, TimeInv, ExpiredAsked, Typed
<1>16. ASSUME NEW c \in Clients, ConnectFails(c) PROVE TimeInv'
  BY <1>16, <1>K DEF ConnectFails, timing, ServerGoes, ClientGoes, TimeInv, ExpiredAsked, Typed
<1>17. ASSUME NEW c \in Clients, DropClient(c) PROVE TimeInv'
  BY <1>17, <1>K DEF DropClient, timing, ServerGoes, ClientGoes, TimeInv, ExpiredAsked, Typed
<1>18. ASSUME NEW c \in Clients, ExitClient(c) PROVE TimeInv'
  BY <1>18, <1>K DEF ExitClient, timing, ServerGoes, ClientGoes, TimeInv, ExpiredAsked, Typed
<1>19. ASSUME Tick PROVE TimeInv'
  <2>1. UnitsPerMilli \in Nat \ {0}
    BY NamedAssumption
  <2>2. /\ \A p \in Processes : waited[p] \in Nat /\ waited'[p] \in Nat
                                /\ waited'[p] >= waited[p]
        /\ UNCHANGED <<asked, expired, server, client>>
    BY <1>19 DEF Tick, Typed
  <2>3. ASSUME NEW p \in Processes, OnTime(p) PROVE OnTime(p)'
    <3>1. asked'[p] = asked[p] /\ asked[p] \in Int
      BY <2>2 DEF Typed, NoTimeout
    <3>2. (waited'[p] + 1) * UnitsPerMilli >= (waited[p] + 1) * UnitsPerMilli
      BY <2>1, <2>2
    <3>3. /\ (waited'[p] + 1) * UnitsPerMilli \in Int
          /\ (waited[p] + 1) * UnitsPerMilli \in Int
      BY <2>1, <2>2
    <3> QED
      BY <2>3, <3>1, <3>2, <3>3 DEF OnTime
  <2>4. \A p \in expired' : OnTime(p)'
    BY <2>2, <2>3, <1>O DEF TimeInv, Typed
  <2> QED
    BY <2>2, <2>4, <1>Q DEF TimeInv, ExpiredAsked
<1>20. ASSUME UNCHANGED vars PROVE TimeInv'
  BY <1>20, <1>K DEF vars, timing, TimeInv, ExpiredAsked
<1> QED
  BY <1>1, <1>2, <1>3, <1>4, <1>5, <1>6, <1>7, <1>8, <1>9, <1>10,
     <1>11, <1>12, <1>13, <1>14, <1>15, <1>16, <1>17, <1>18, <1>19, <1>20
  DEF Next, ServerStep, ClientStep

\* The invariant holds in every state.
LEMMA Invariance == Spec => []IndInv
<1>1. Init => IndInv
  BY IndInvInit
<1>2. IndInv /\ [Next]_vars => IndInv'
  BY TypeNext, PairNext, TimeNext DEF IndInv
<1> QED
  BY <1>1, <1>2, PTL DEF Spec
-----------------------------------------------------------------------------
\* The channel accept returns belongs to one client and each side sends handles to
\* the other's process, in whatever order clients connect, give up and exit.
THEOREM PairedHolds == Spec => []Paired
<1>1. ASSUME IndInv, server = "open"
      PROVE  /\ peer \in Clients /\ Server \in alive
             /\ \A c \in Clients : Connected(c) => c = peer
  BY <1>1 DEF IndInv, Typed, PairInv, Connections, ServerGone, Connected
<1>2. ASSUME IndInv, server = "open" PROVE Arrived(peer)
  BY <1>2 DEF IndInv, PairInv, Connections
<1>3. ASSUME IndInv, server = "open", platform = "windows"
      PROVE  /\ Knows(Server, peer)
             /\ client[peer] = "open" => target[peer] = Server
  BY <1>1, <1>3 DEF IndInv, PairInv, Targets, Knows
<1>4. IndInv => Paired
  BY <1>1, <1>2, <1>3 DEF Paired, Arrived, Knows
<1> QED
  BY <1>4, Invariance, PTL

\* No wait for a pipe ends a millisecond or more before the timeout its user gave,
\* or at all without one, for all timeouts that a DWORD can hold.
THEOREM TimesOutOnTimeHolds == Spec => []TimesOutOnTime
<1>1. IndInv => TimesOutOnTime
  BY DEF IndInv, TimeInv
<1> QED
  BY <1>1, Invariance, PTL
===============================================================================
