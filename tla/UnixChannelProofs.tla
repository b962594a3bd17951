------------------------- MODULE UnixChannelProofs -------------------------
(***************************************************************************)
(* Theorems about UnixChannel, for files and tables of any size, any room  *)
(* in a control message and any number of passes of the serializer.        *)
(***************************************************************************)
EXTENDS UnixChannel, FiniteSetTheorems, SequenceTheorems, WellFoundedInduction, TLAPS

\* What descriptors refer to.
Opened == Ends \X Fds
Resources == Opened \cup {NotOpen}

\* The two ends are each other's peers.
LEMMA Peers ==
  /\ Peer("a") = "b" /\ Peer("b") = "a"
  /\ \A e \in Ends : Peer(e) \in Ends /\ Peer(e) # e /\ Peer(Peer(e)) = e
  /\ \A e \in Ends : \A f \in Ends : f # e => f = Peer(e)
<1>1. Peer("a") = "b"
  <2>1. \E f \in Ends : f # "a"
    BY DEF Ends
  <2> QED
    BY <2>1 DEF Peer, Ends
<1>2. Peer("b") = "a"
  <2>1. \E f \in Ends : f # "b"
    BY DEF Ends
  <2> QED
    BY <2>1 DEF Peer, Ends
<1> QED
  BY <1>1, <1>2 DEF Ends

\* The constants are numbers, a process has at least its standard input, and no
\* resource is NotOpen.
LEMMA Numbers ==
  /\ MaxFds \in Nat \ {0} /\ Passes \in Nat \ {0} /\ QueueLimit \in Nat \ {0}
  /\ FdLimit \in Nat \ {0} /\ MaxMessageSize \in Nat
  /\ \A e \in Ends : Files[e] \in Nat /\ MaxFiles[e] \in Nat /\ Files[e] < FdLimit
  /\ Sizes \subseteq Nat /\ 0 \in Fds
  /\ NotOpen \notin Opened
BY ChannelAssumption DEF Fds, NotOpen, Opened, Ends

\* A length is not that of NoBody.
LEMMA BodyIsOne == \A size \in Nat : \A want : Body(size, want) # NoBody
BY DEF Body, NoBody
-----------------------------------------------------------------------------
(***************************************************************************)
(* Descriptor tables                                                       *)
(***************************************************************************)

\* A set of descriptors and what is below one of them are finite.
LEMMA FdsFinite ==
  ASSUME NEW S \in SUBSET Fds
  PROVE  IsFiniteSet(S) /\ Cardinality(S) \in Nat /\ \A f \in S : f \in Nat
<1>1. IsFiniteSet(Fds)
  BY FS_Interval, Numbers DEF Fds
<1>2. IsFiniteSet(S)
  BY <1>1, FS_Subset
<1>3. Fds \subseteq Nat
  BY Numbers DEF Fds
<1> QED
  BY <1>2, <1>3, FS_CardinalityType

\* Numbers are well-founded: every set of them has a least one.
LEMMA LeastOf ==
  ASSUME NEW S \in SUBSET Nat, S # {}
  PROVE  \E f \in S : \A g \in S : f <= g
<1> DEFINE R == {ss \in Nat \X Nat : ss[1] < ss[2]}
<1>1. PICK f \in S : \A g \in S : <<g, f>> \notin R
  <2> HIDE DEF R
  <2>1. IsWellFoundedOn(R, Nat)
    BY NatLessThanWellFounded DEF R, OpToRel
  <2> QED
    BY <2>1, WFMin
<1>2. \A g \in S : ~(g < f)
  BY <1>1
<1> QED
  BY <1>1, <1>2

\* Below(S, f): the free descriptors that are lower.
Below(S, f) == {g \in S : g < f}

\* The next higher descriptor has one more below it.
LEMMA Successor ==
  ASSUME NEW S \in SUBSET Fds, NEW f \in S, Cardinality(Below(S, f)) + 1 < Cardinality(S)
  PROVE  \E h \in S : Cardinality(Below(S, h)) = Cardinality(Below(S, f)) + 1
<1> DEFINE above == {g \in S : g > f}
           upto == Below(S, f) \cup {f}
<1>0. \A g \in S : g \in Nat
  BY FdsFinite
<1>1. Below(S, f) \in SUBSET Fds /\ f \notin Below(S, f)
  BY <1>0 DEF Below
<1>2. Cardinality(upto) = Cardinality(Below(S, f)) + 1
  BY <1>1, FdsFinite, FS_AddElement
<1>3. above # {}
  <2> SUFFICES ASSUME above = {} PROVE FALSE
    OBVIOUS
  <2>1. S = upto
    BY <1>0 DEF Below
  <2>2. Cardinality(S) = Cardinality(upto)
    BY <2>1, Zenon
  <2>3. Cardinality(Below(S, f)) \in Nat
    BY <1>1, FdsFinite
  <2> QED
    BY <1>2, <2>2, <2>3
<1>4. above \in SUBSET Nat
  BY <1>0
<1>5. PICK h \in above : \A g \in above : h <= g
  BY <1>3, <1>4, LeastOf
<1>6. Below(S, h) = upto
  BY <1>0, <1>5 DEF Below
<1> QED
  BY <1>2, <1>5, <1>6

\* Each rank is taken by one of the descriptors.
LEMMA Ranks ==
  ASSUME NEW S \in SUBSET Fds, NEW i \in 1 .. Cardinality(S)
  PROVE  \E f \in S : Cardinality(Below(S, f)) = i - 1
<1> DEFINE Taken(j) == \E f \in S : Cardinality(Below(S, f)) = j - 1
           missing == {j \in 1 .. Cardinality(S) : ~Taken(j)}
<1> SUFFICES missing = {}
  OBVIOUS
<1> SUFFICES ASSUME missing # {} PROVE FALSE
  OBVIOUS
<1>1. Cardinality(S) \in Nat /\ IsFiniteSet(S) /\ \A g \in S : g \in Nat
  BY FdsFinite
<1>2. missing \in SUBSET Nat
  BY <1>1
<1>3. PICK j \in missing : \A k \in missing : j <= k
  <2> HIDE DEF missing
  <2> QED
    BY <1>2, LeastOf
<1>4. CASE j = 1
  <2>1. S # {}
    BY <1>1, <1>3, FS_EmptySet
  <2>2. PICK f \in S : \A g \in S : f <= g
    BY <1>1, <2>1, LeastOf
  <2>3. Below(S, f) = {}
    BY <1>1, <2>2 DEF Below
  <2>4. Cardinality(Below(S, f)) = 0
    BY <2>3, FS_EmptySet
  <2> QED
    BY <1>3, <1>4, <2>4
<1>5. CASE j # 1
  <2>1. j - 1 \in 1 .. Cardinality(S) /\ j - 1 \notin missing /\ j \in Nat
    BY <1>1, <1>3, <1>5
  <2>2. PICK f \in S : Cardinality(Below(S, f)) = (j - 1) - 1
    BY <2>1
  <2>3. Cardinality(Below(S, f)) + 1 < Cardinality(S)
    BY <1>1, <1>3, <2>1, <2>2
  <2>4. PICK h \in S : Cardinality(Below(S, h)) = Cardinality(Below(S, f)) + 1
    BY <2>3, Successor
  <2> QED
    BY <1>3, <2>1, <2>2, <2>4
<1> QED
  BY <1>4, <1>5

\* The kernel gives out free descriptors, another one each time.
LEMMA Allocated ==
  ASSUME NEW t, NEW k \in Nat, k <= Cardinality(FreeFds(t))
  PROVE  /\ Allocate(t, k) \in [1 .. k -> FreeFds(t)]
         /\ \A i, j \in 1 .. k : Allocate(t, k)[i] = Allocate(t, k)[j] => i = j
<1> DEFINE free == FreeFds(t)
           pick(i) == CHOOSE f \in free : Cardinality(Below(free, f)) = i - 1
<1>1. free \in SUBSET Fds
  BY DEF FreeFds
<1>2. \A i \in 1 .. k : pick(i) \in free /\ Cardinality(Below(free, pick(i))) = i - 1
  <2> SUFFICES ASSUME NEW i \in 1 .. k
               PROVE  pick(i) \in free /\ Cardinality(Below(free, pick(i))) = i - 1
    OBVIOUS
  <2> HIDE DEF free
  <2>1. i \in 1 .. Cardinality(free)
    BY <1>1, FdsFinite DEF free
  <2>2. \E f \in free : Cardinality(Below(free, f)) = i - 1
    BY <1>1, <2>1, Ranks
  <2> QED
    BY <2>2
<1>3. Allocate(t, k) = [i \in 1 .. k |-> pick(i)]
  BY DEF Allocate, Below
<1> HIDE DEF free, pick
<1>4. \A i, j \in 1 .. k : pick(i) = pick(j) => i = j
  BY <1>2
<1> QED
  BY <1>2, <1>3, <1>4 DEF free

\* Each installed descriptor refers to its resource, the others to what they did.
LEMMA Installed ==
  ASSUME NEW t \in [Fds -> Resources], NEW d \in Nat, NEW fds, NEW res,
         DOMAIN fds = 1 .. d,
         \A i \in 1 .. d : fds[i] \in Fds /\ res[i] \in Resources,
         \A i, j \in 1 .. d : fds[i] = fds[j] => i = j
  PROVE  /\ Install(t, fds, res) \in [Fds -> Resources]
         /\ \A i \in 1 .. d : Install(t, fds, res)[fds[i]] = res[i]
         /\ \A f \in Fds : (\A i \in 1 .. d : fds[i] # f) => Install(t, fds, res)[f] = t[f]
<1> DEFINE index(f) == CHOOSE i \in DOMAIN fds : fds[i] = f
<1>1. \A f \in Fds : (\E i \in 1 .. d : fds[i] = f) => index(f) \in 1 .. d /\ fds[index(f)] = f
  OBVIOUS
<1>2. Install(t, fds, res) =
        [f \in Fds |-> IF \E i \in 1 .. d : fds[i] = f THEN res[index(f)] ELSE t[f]]
  BY DEF Install
<1> HIDE DEF index
<1>3. \A i \in 1 .. d : index(fds[i]) = i
  BY <1>1
<1> QED
  BY <1>1, <1>2, <1>3

\* Free descriptors that are given resources leave the others alone.
LEMMA InstalledFree ==
  ASSUME NEW t \in [Fds -> Resources], NEW d \in Nat, NEW fds, NEW res,
         DOMAIN fds = 1 .. d,
         \A i \in 1 .. d : fds[i] \in FreeFds(t) /\ res[i] \in Resources,
         \A i, j \in 1 .. d : fds[i] = fds[j] => i = j
  PROVE  /\ Install(t, fds, res) \in [Fds -> Resources]
         /\ \A i \in 1 .. d : Install(t, fds, res)[fds[i]] = res[i]
         /\ \A f \in Fds : t[f] # NotOpen => Install(t, fds, res)[f] = t[f]
<1>1. \A i \in 1 .. d : fds[i] \in Fds /\ t[fds[i]] = NotOpen
  BY DEF FreeFds
<1> QED
  BY <1>1, Installed

\* Pass after pass the files come in their order.
LEMMA Cycles ==
  ASSUME NEW n \in Nat \ {0}
  PROVE  /\ \A i \in Nat \ {0} : ((i - 1) % n) + 1 \in 1 .. n
         /\ \A i \in 1 .. n : \A q \in Nat : ((q * n + i - 1) % n) + 1 = i
<1>1. \A i \in Nat \ {0} : ((i - 1) % n) + 1 \in 1 .. n
  OBVIOUS
<1>2. ASSUME NEW i \in 1 .. n, NEW q \in Nat
      PROVE  ((q * n + i - 1) % n) + 1 = i
  <2>q. PICK x \in Nat : x = q * n
    OBVIOUS
  <2>d. PICK d \in Int : d = (x + i - 1) \div n
    OBVIOUS
  <2>r. PICK r \in Nat : r = (x + i - 1) % n
    OBVIOUS
  <2>1. r < n /\ x + i - 1 = n * d + r
    BY <2>d, <2>r, <2>q
  <2>2. i - 1 - r = n * (d - q)
    BY <2>1, <2>q
  <2>3. d - q < 1
    BY <2>1, <2>2
  <2>4. d - q > -1
    BY <2>1, <2>2
  <2>5. d = q
    BY <2>3, <2>4
  <2>6. r = i - 1
    BY <2>2, <2>5
  <2> QED
    BY <2>6, <2>q, <2>r
<1> QED
  BY <1>1, <1>2

\* The calls of a later pass are for the same files again.
LEMMA Cycled ==
  ASSUME NEW files, Len(files) \in Nat \ {0}, NEW i \in 1 .. Len(files), NEW q \in Nat
  PROVE  Cycle(files, q * Len(files) + i) = i
BY Cycles DEF Cycle
-----------------------------------------------------------------------------
(***************************************************************************)
(* Types                                                                   *)
(***************************************************************************)
Bodies == [size : Nat, want : Seq(Resources), base : Nat]

Messages == [body : Bodies, rights : Seq(Opened)]

Cmsgs == [present : BOOLEAN, count : 0 .. MaxFds, fds : [1 .. MaxFds -> Fds]]

Typed ==
  /\ table \in [Ends -> [Fds -> Resources]]
  /\ owned \in [Ends -> SUBSET Fds]
  /\ cmsg \in [Ends -> Cmsgs]
  /\ buffered \in [Ends -> Bodies \cup {NoBody}]
  /\ wire \in [Ends -> Seq(Messages)]
  /\ {raw, shut} \subseteq BOOLEAN /\ closed \in [Ends -> BOOLEAN]
  /\ use \in Uses
  /\ outcome \in [Ends -> [kind : {"none", "message", "eof", "error"}, intact : BOOLEAN]]

\* How many calls of HandleSender::send succeed, and how many have been made when
\* a value is given up.
LEMMA DupCounts ==
  ASSUME NEW t, NEW files, Len(files) \in Nat
  PROVE  /\ DupCount(t, files) \in Nat /\ DupCount(t, files) <= MaxFds
         /\ DupCount(t, files) <= Cardinality(FreeFds(t))
         /\ DupCount(t, files) <= Passes * Len(files)
<1>1. Cardinality(FreeFds(t)) \in Nat
  BY FdsFinite DEF FreeFds
<1>2. PICK n \in Nat : n = Passes * Len(files)
  BY Numbers
<1> QED
  BY <1>1, <1>2, Numbers DEF DupCount, Least

\* The body of a value that is taken, and what becomes of the control message and
\* the table of the end that takes it.
Taken(e, size, want) ==
  /\ buffered'[e] = Body(size, want) /\ size <= MaxMessageSize
  /\ Passes * Len(want) <= MaxFds
  /\ cmsg'[e].present /\ cmsg'[e].count = Passes * Len(want)
  /\ \A i \in 1 .. cmsg'[e].count :
       /\ cmsg'[e].fds[i] \in FreeFds(table[e])
       /\ table'[e][cmsg'[e].fds[i]] = want[Cycle(want, i)]
  /\ \A i \in 1 .. MaxFds : i > cmsg'[e].count => cmsg'[e].fds[i] = cmsg[e].fds[i]

Named(e, files) == [i \in DOMAIN files |-> table[e][files[i]]]

LEMMA SerializedDoes ==
  ASSUME Typed, NEW e \in Ends, NEW size \in Nat, NEW n \in Nat,
         NEW files \in [1 .. n -> Fds], Serialized(e, size, files)
  PROVE  /\ table' = [table EXCEPT ![e] = table'[e]] /\ table'[e] \in [Fds -> Resources]
         /\ \A f \in Fds : table[e][f] # NotOpen => table'[e][f] = table[e][f]
         /\ cmsg' = [cmsg EXCEPT ![e] = cmsg'[e]] /\ cmsg'[e] \in Cmsgs
         /\ buffered' = [buffered EXCEPT ![e] = buffered'[e]]
         /\ buffered'[e] \in Bodies \cup {NoBody}
         /\ buffered'[e] = NoBody \/ Taken(e, size, Named(e, files))
         /\ buffered'[e] = NoBody => cmsg' = cmsg
<1> DEFINE t    == table[e]
           k    == DupCount(t, files)
           dups == Allocate(t, k)
           ok   == size <= MaxMessageSize /\ k = Passes * Len(files)
           done == IF size <= MaxMessageSize THEN {k} ELSE 0 .. Least(k, Len(files))
           want == Named(e, files)
<1>1. t \in [Fds -> Resources] /\ cmsg[e] \in Cmsgs
  BY DEF Typed
<1>2. Len(files) = n /\ DOMAIN files = 1 .. n
  OBVIOUS
<1>3. want \in Seq(Resources) /\ Len(want) = n /\ \A i \in 1 .. n : want[i] = t[files[i]]
  BY <1>1, <1>2 DEF Named
<1>4. k \in Nat /\ k <= MaxFds /\ k <= Cardinality(FreeFds(t)) /\ k <= Passes * n
  BY <1>2, DupCounts
<1> HIDE DEF k
<1>5. /\ dups \in [1 .. k -> FreeFds(t)] /\ dups \in Seq(Fds) /\ Len(dups) = k
      /\ \A i, j \in 1 .. k : dups[i] = dups[j] => i = j
  <2>1. /\ dups \in [1 .. k -> FreeFds(t)]
        /\ \A i, j \in 1 .. k : dups[i] = dups[j] => i = j
    BY <1>4, Allocated
  <2> QED
    BY <1>4, <2>1 DEF FreeFds
<1>6. PICK d \in done :
        table' = [table EXCEPT ![e] = Install(t, SubSeq(dups, 1, d), DupResources(t, files, d))]
  BY DEF Serialized, k
<1>7. d \in Nat /\ d <= k /\ (size <= MaxMessageSize => d = k)
  BY <1>2, <1>4, <1>6 DEF Least
<1> DEFINE fds == SubSeq(dups, 1, d)
           res == DupResources(t, files, d)
<1>8. DOMAIN fds = 1 .. d /\ \A i \in 1 .. d : fds[i] = dups[i]
  BY <1>4, <1>5, <1>7
<1>9. \A i \in 1 .. k : Cycle(files, i) \in 1 .. n
  <2>1. CASE n = 0
    BY <1>4, <2>1, Numbers
  <2>2. CASE n # 0
    BY <1>2, <2>2, Cycles DEF Cycle
  <2> QED
    BY <2>1, <2>2
<1>10. \A i \in 1 .. d : res[i] = t[files[Cycle(files, i)]] /\ res[i] \in Resources
  <2>1. \A i \in 1 .. d : i \in 1 .. k
    BY <1>4, <1>7
  <2> QED
    BY <1>1, <1>9, <2>1 DEF DupResources
<1> HIDE DEF dups, fds, res
<1>11. \A i \in 1 .. d : fds[i] \in FreeFds(t)
  BY <1>4, <1>5, <1>7, <1>8
<1>12. \A i, j \in 1 .. d : fds[i] = fds[j] => i = j
  BY <1>4, <1>5, <1>7, <1>8
<1>13. /\ Install(t, fds, res) \in [Fds -> Resources]
       /\ \A i \in 1 .. d : Install(t, fds, res)[fds[i]] = res[i]
       /\ \A f \in Fds : t[f] # NotOpen => Install(t, fds, res)[f] = t[f]
  BY <1>1, <1>7, <1>8, <1>10, <1>11, <1>12, InstalledFree
<1>14. table'[e] = Install(t, fds, res) /\ table' = [table EXCEPT ![e] = table'[e]]
  BY <1>6 DEF fds, res, Typed
<1>15. ~ok => cmsg' = cmsg /\ buffered' = [buffered EXCEPT ![e] = NoBody]
  BY DEF Serialized, k
<1>16. ASSUME ok
       PROVE  /\ cmsg' = [cmsg EXCEPT ![e] = cmsg'[e]] /\ cmsg'[e] \in Cmsgs
              /\ buffered' = [buffered EXCEPT ![e] = Body(size, want)]
              /\ buffered'[e] \in Bodies
              /\ Taken(e, size, want)
  <2>1. /\ cmsg' = [cmsg EXCEPT ![e] = SetFds(cmsg[e], dups)]
        /\ buffered' = [buffered EXCEPT ![e] = Body(size, want)]
    BY <1>16 DEF Serialized, k, dups, Named
  <2>2. cmsg'[e] = SetFds(cmsg[e], dups) /\ buffered'[e] = Body(size, want)
    BY <2>1 DEF Typed
  <2>3. /\ cmsg'[e].present = TRUE /\ cmsg'[e].count = k
        /\ \A i \in 1 .. k : cmsg'[e].fds[i] = dups[i]
        /\ \A i \in 1 .. MaxFds : i > k => cmsg'[e].fds[i] = cmsg[e].fds[i]
        /\ cmsg'[e] \in Cmsgs
    <3> DEFINE g == [i \in 1 .. MaxFds |-> IF i \in 1 .. k THEN dups[i] ELSE cmsg[e].fds[i]]
    <3>1. DOMAIN dups = 1 .. k /\ \A i \in 1 .. k : dups[i] \in Fds
      BY <1>5 DEF FreeFds
    <3>2. \A i \in 1 .. k : i \in 1 .. MaxFds
      BY <1>4, Numbers
    <3>3. SetFds(cmsg[e], dups) = [present |-> TRUE, count |-> k, fds |-> g]
      BY <1>5, <3>1 DEF SetFds
    <3>4. /\ g \in [1 .. MaxFds -> Fds] /\ \A i \in 1 .. k : g[i] = dups[i]
          /\ \A i \in 1 .. MaxFds : i > k => g[i] = cmsg[e].fds[i]
      <4>1. cmsg[e].fds \in [1 .. MaxFds -> Fds]
        BY <1>1 DEF Cmsgs
      <4>2. g \in [1 .. MaxFds -> Fds]
        BY <3>1, <4>1
      <4>3. \A i \in 1 .. k : g[i] = dups[i]
        BY <3>2
      <4>4. \A i \in 1 .. MaxFds : i > k => g[i] = cmsg[e].fds[i]
        BY <1>4, Numbers
      <4> QED
        BY <4>2, <4>3, <4>4
    <3>5. k \in 0 .. MaxFds
      BY <1>4, Numbers
    <3> HIDE DEF g
    <3> QED
      BY <2>2, <3>3, <3>4, <3>5 DEF Cmsgs
  <2>4. k = Passes * Len(want) /\ size <= MaxMessageSize /\ d = k
    BY <1>2, <1>3, <1>7, <1>16
  <2>5. \A i \in 1 .. k : table'[e][dups[i]] = want[Cycle(want, i)]
    <3>1. \A i \in 1 .. k : Cycle(want, i) = Cycle(files, i)
      BY <1>2, <1>3 DEF Cycle
    <3> QED
      BY <1>3, <1>8, <1>9, <1>10, <1>13, <1>14, <2>4, <3>1
  <2>6. Body(size, want) \in Bodies
    <3>1. (Passes - 1) * Len(want) \in Nat
      BY <1>3, Numbers
    <3> QED
      BY <1>3, <3>1 DEF Body, Bodies
  <2> HIDE DEF want
  <2>7. Taken(e, size, want)
    <3>1. Passes * Len(want) <= MaxFds /\ cmsg'[e].count = Passes * Len(want)
      BY <1>4, <2>3, <2>4
    <3>2. \A i \in 1 .. k : /\ cmsg'[e].fds[i] \in FreeFds(t)
                           /\ table'[e][cmsg'[e].fds[i]] = want[Cycle(want, i)]
      BY <1>5, <2>3, <2>5
    <3>3. /\ \A i \in 1 .. cmsg'[e].count : i \in 1 .. k
          /\ \A i \in 1 .. MaxFds : i > cmsg'[e].count => cmsg'[e].fds[i] = cmsg[e].fds[i]
      BY <2>3
    <3> QED
      BY <2>2, <2>3, <2>4, <3>1, <3>2, <3>3, Zenon DEF Taken
  <2>8. cmsg' = [cmsg EXCEPT ![e] = cmsg'[e]]
    BY <2>1, <2>2
  <2> QED
    BY <2>1, <2>2, <2>3, <2>6, <2>7, <2>8
<1> QED
  BY <1>13, <1>14, <1>15, <1>16, <1>1, BodyIsOne DEF Typed

\* Updates of a control message, field by field.
LEMMA PresentSet ==
  ASSUME NEW c \in Cmsgs, NEW b \in BOOLEAN
  PROVE  /\ [c EXCEPT !.present = b] \in Cmsgs
         /\ [c EXCEPT !.present = b].present = b
         /\ [c EXCEPT !.present = b].count = c.count
         /\ [c EXCEPT !.present = b].fds = c.fds
BY DEF Cmsgs

LEMMA Reset ==
  ASSUME NEW c \in Cmsgs
  PROVE  /\ ResetFdCount(c) \in Cmsgs
         /\ ResetFdCount(c).present = TRUE /\ ResetFdCount(c).count = MaxFds
         /\ ResetFdCount(c).fds = c.fds
<1>d. PICK d : d = [c EXCEPT !.present = TRUE]
  OBVIOUS
<1>1. MaxFds \in 0 .. MaxFds
  BY Numbers
<1>2. d \in Cmsgs /\ d.present = TRUE /\ d.fds = c.fds
  BY <1>d, PresentSet
<1>3. ResetFdCount(c) = [d EXCEPT !.count = MaxFds]
  BY <1>d DEF ResetFdCount
<1> QED
  BY <1>1, <1>2, <1>3 DEF Cmsgs

\* What recvmsg does: descriptors that were free refer to the first files of the
\* message, and their numbers are in the control message.
Arrives(e, m, r) ==
  /\ r \in Nat /\ r <= MaxFds /\ r <= Len(m.rights)
  /\ ~Starved(e) /\ Len(m.rights) <= MaxFds => r = Len(m.rights)
  /\ r > 0 => RecvCmsg(e).count = r
  /\ \A i \in 1 .. r : /\ RecvCmsg(e).fds[i] \in FreeFds(table[e])
                       /\ RecvTable(e)[RecvCmsg(e).fds[i]] = m.rights[i]
  /\ \A i \in 1 .. MaxFds : i > r => RecvCmsg(e).fds[i] = cmsg[e].fds[i]

LEMMA RecvDoes ==
  ASSUME Typed, NEW e \in Ends, wire[e] # <<>>
  PROVE  /\ Head(wire[e]) \in Messages
         /\ RecvTable(e) \in [Fds -> Resources] /\ RecvCmsg(e) \in Cmsgs
         /\ \A f \in Fds : table[e][f] # NotOpen => RecvTable(e)[f] = table[e][f]
         /\ Arrives(e, Head(wire[e]), RecvCount(e))
<1> DEFINE m == Head(wire[e])
           r == RecvCount(e)
           t == table[e]
           fds == Received(e)
           room == Cardinality(FreeFds(t))
<1>1. t \in [Fds -> Resources] /\ cmsg[e] \in Cmsgs /\ wire[e] \in Seq(Messages)
  BY DEF Typed
<1>2. m \in Messages /\ m.rights \in Seq(Opened) /\ Len(m.rights) \in Nat
  <2>1. m \in Messages
    BY <1>1
  <2> HIDE DEF m
  <2> QED
    BY <2>1 DEF Messages
<1>3. room \in Nat
  BY FdsFinite DEF FreeFds
<1> HIDE DEF m
<1>4. r \in Nat /\ r <= MaxFds /\ r <= Len(m.rights) /\ r <= room
  BY <1>2, <1>3, Numbers DEF RecvCount, ResetFdCount, Least, m
<1>5. ~Starved(e) /\ Len(m.rights) <= MaxFds => r = Len(m.rights)
  <2>1. Starved(e) <=> room < Least(MaxFds, Len(m.rights))
    BY DEF Starved, m
  <2>2. r = Least(Len(m.rights), Least(MaxFds, room))
    BY DEF RecvCount, ResetFdCount, m
  <2> HIDE DEF r, room
  <2> QED
    BY <1>2, <1>3, <2>1, <2>2, Numbers DEF Least
<1>6. /\ fds \in [1 .. r -> FreeFds(t)]
      /\ \A i, j \in 1 .. r : fds[i] = fds[j] => i = j
  BY <1>4, Allocated DEF Received
<1> HIDE DEF r, fds
<1>7. DOMAIN fds = 1 .. r /\ \A i \in 1 .. r : fds[i] \in FreeFds(t) /\ fds[i] \in Fds
  BY <1>6 DEF FreeFds
<1>8. \A i \in 1 .. r : m.rights[i] \in Resources
  BY <1>2, <1>4 DEF Resources
<1>9. /\ RecvTable(e) \in [Fds -> Resources]
      /\ \A i \in 1 .. r : RecvTable(e)[fds[i]] = m.rights[i]
      /\ \A f \in Fds : t[f] # NotOpen => RecvTable(e)[f] = t[f]
  <2>1. RecvTable(e) = Install(t, fds, m.rights)
    BY DEF RecvTable, m, fds
  <2> QED
    BY <1>1, <1>4, <1>6, <1>7, <1>8, <2>1, InstalledFree, SMTT(30)
<1>10. fds \in Seq(Fds) /\ Len(fds) = r
  BY <1>4, <1>6, <1>7
<1>11. RecvCmsg(e) \in Cmsgs /\ (r > 0 => RecvCmsg(e).count = r)
       /\ (\A i \in 1 .. r : RecvCmsg(e).fds[i] = fds[i])
       /\ (\A i \in 1 .. MaxFds : i > r => RecvCmsg(e).fds[i] = cmsg[e].fds[i])
  <2> DEFINE c == ResetFdCount(cmsg[e])
             g == [i \in 1 .. MaxFds |-> IF i \in 1 .. r THEN fds[i] ELSE cmsg[e].fds[i]]
  <2>1. RecvCmsg(e) = IF fds = <<>> THEN [c EXCEPT !.present = FALSE] ELSE SetFds(c, fds)
    BY DEF RecvCmsg, FilledCmsg, fds
  <2>2. c \in Cmsgs /\ c.count = MaxFds /\ c.fds = cmsg[e].fds
    BY <1>1, Reset
  <2> HIDE DEF c
  <2>3. CASE r = 0
    <3>1. fds = <<>>
      BY <1>10, <2>3, EmptySeq
    <3>2. RecvCmsg(e) = [c EXCEPT !.present = FALSE]
      BY <2>1, <3>1, Zenon
    <3>3. RecvCmsg(e) \in Cmsgs /\ RecvCmsg(e).fds = c.fds
      BY <2>2, <3>2, PresentSet
    <3> QED
      BY <2>2, <2>3, <3>3
  <2>4. CASE r # 0
    <3>1. fds # <<>>
      BY <1>10, <2>4
    <3>2. SetFds(c, fds) = [present |-> TRUE, count |-> r, fds |-> g]
      BY <1>7, <1>10, <2>2 DEF SetFds
    <3>3. g \in [1 .. MaxFds -> Fds]
      BY <1>1, <1>7 DEF Cmsgs
    <3>4. (\A i \in 1 .. r : g[i] = fds[i]) /\ (\A i \in 1 .. MaxFds : i > r => g[i] = cmsg[e].fds[i])
      BY <1>4, Numbers
    <3>5. RecvCmsg(e) = [present |-> TRUE, count |-> r, fds |-> g]
      BY <2>1, <3>1, <3>2, Zenon
    <3>6. r \in 0 .. MaxFds
      BY <1>4, Numbers
    <3> HIDE DEF g
    <3> QED
      BY <3>3, <3>4, <3>5, <3>6 DEF Cmsgs
  <2> QED
    BY <2>3, <2>4
<1> QED
  BY <1>2, <1>4, <1>5, <1>7, <1>9, <1>11 DEF Arrives, m, r

\* Whatever a body asks for, types are kept, and nobody else's state is touched.
LEMMA DeserializeTyped ==
  ASSUME Typed, NEW e \in Ends, NEW body \in Bodies, NEW c \in Cmsgs,
         NEW t \in [Fds -> Resources], Deserialize(e, body, c, t)
  PROVE  /\ table' = [table EXCEPT ![e] = table'[e]] /\ table'[e] \in [Fds -> Resources]
         /\ owned' = [owned EXCEPT ![e] = owned'[e]] /\ owned'[e] \in SUBSET Fds
         /\ outcome' = [outcome EXCEPT ![e] = outcome'[e]]
         /\ outcome'[e] \in [kind : {"message", "error"}, intact : BOOLEAN]
<1> DEFINE fd(i) == c.fds[body.base + i]
           n == Len(body.want)
           bad == {i \in 1 .. n : ~RecvIndex(c, t, body.base + i)}
           made == IF bad = {} THEN {fd(i) : i \in 1 .. n}
                   ELSE {fd(i) : i \in {j \in 1 .. n : \A k \in bad : j < k}}
           good == bad = {} /\ body.size <= MaxMessageSize
           intact == \A i \in 1 .. n : t[fd(i)] = body.want[i]
<1>1. /\ good => /\ table' = [table EXCEPT ![e] = t]
                 /\ owned' = [owned EXCEPT ![e] = @ \cup made]
                 /\ outcome' = [outcome EXCEPT ![e] = Outcome("message", intact)]
      /\ ~good => /\ table' = [table EXCEPT ![e] = CloseAll(t, made)]
                  /\ owned' = [owned EXCEPT ![e] = @ \ made]
                  /\ outcome' = [outcome EXCEPT ![e] = Outcome("error", TRUE)]
  BY DEF Deserialize, Report
<1>2. ASSUME NEW i \in 1 .. n, i \notin bad PROVE fd(i) \in Fds
  <2>1. body.base + i \in 1 .. MaxFds
    BY <1>2, Numbers DEF RecvIndex, Bodies, Cmsgs
  <2> QED
    BY <2>1 DEF Cmsgs
<1>3. n \in Nat
  BY DEF Bodies
<1>4. made \in SUBSET Fds
  <2>1. CASE bad = {}
    BY <1>2, <2>1
  <2>2. CASE bad # {}
    <3>1. \A j \in 1 .. n : (\A k \in bad : j < k) => j \notin bad
      BY <1>3
    <3> QED
      BY <1>2, <2>2, <3>1
  <2> QED
    BY <2>1, <2>2
<1>5. CloseAll(t, made) \in [Fds -> Resources]
  BY DEF CloseAll, Resources
<1>6. intact \in BOOLEAN
  OBVIOUS
<1> HIDE DEF made, intact, good
<1>7. /\ table[e] \in [Fds -> Resources] /\ owned[e] \in SUBSET Fds
      /\ DOMAIN table = Ends /\ DOMAIN owned = Ends /\ DOMAIN outcome = Ends
  BY DEF Typed
<1>8. CASE good
  BY <1>1, <1>4, <1>6, <1>7, <1>8 DEF Outcome
<1>9. CASE ~good
  <2>1. /\ table' = [table EXCEPT ![e] = CloseAll(t, made)]
        /\ owned' = [owned EXCEPT ![e] = owned[e] \ made]
        /\ outcome' = [outcome EXCEPT ![e] = Outcome("error", TRUE)]
    BY <1>1, <1>9
  <2>2. owned[e] \ made \in SUBSET Fds
    BY <1>7
  <2>3. Outcome("error", TRUE) \in [kind : {"message", "error"}, intact : BOOLEAN]
    BY DEF Outcome
  <2> QED
    BY <1>5, <1>7, <2>1, <2>2, <2>3
<1> QED
  BY <1>8, <1>9

\* A body whose descriptors have all arrived is deserialized, and its user has
\* the very files it was sent with.
LEMMA DeserializeWhole ==
  ASSUME Typed, NEW e \in Ends, NEW body \in Bodies, NEW c \in Cmsgs,
         NEW t \in [Fds -> Resources], Deserialize(e, body, c, t),
         body.size <= MaxMessageSize,
         \A i \in 1 .. Len(body.want) :
           /\ body.base + i <= c.count
           /\ t[c.fds[body.base + i]] = body.want[i] /\ body.want[i] # NotOpen
  PROVE  /\ table'[e] = t
         /\ owned'[e] = owned[e] \cup {c.fds[body.base + i] : i \in 1 .. Len(body.want)}
         /\ outcome'[e] = Outcome("message", TRUE)
<1>1. {i \in 1 .. Len(body.want) : ~RecvIndex(c, t, body.base + i)} = {}
  BY DEF RecvIndex
<1>2. (\A i \in 1 .. Len(body.want) : t[c.fds[body.base + i]] = body.want[i]) = TRUE
  OBVIOUS
<1> QED
  BY <1>1, <1>2 DEF Deserialize, Report, Typed

\* A message that the kernel takes has open descriptors only.
LEMMA AttachedOpen ==
  ASSUME Typed, NEW e \in Ends, SendTaken(e)
  PROVE  Attached(e) \in Seq(Opened)
<1>1. cmsg[e] \in Cmsgs /\ table[e] \in [Fds -> Resources]
  BY DEF Typed
<1>2. CASE cmsg[e].present
  <2> DEFINE n == cmsg[e].count
             a == [i \in 1 .. n |-> table[e][cmsg[e].fds[i]]]
  <2>1. n \in Nat /\ \A i \in 1 .. n : cmsg[e].fds[i] \in Fds
    BY <1>1, Numbers DEF Cmsgs
  <2>2. Attached(e) = a /\ DOMAIN a = 1 .. n
    BY <1>2 DEF Attached
  <2>3. \A i \in 1 .. n : a[i] \in Opened
    BY <1>1, <2>1, <2>2 DEF SendTaken, Resources
  <2>4. a \in [1 .. n -> Opened]
    BY <2>3
  <2> HIDE DEF n, a
  <2> QED
    BY <2>1, <2>2, <2>4
<1>3. CASE ~cmsg[e].present
  BY <1>3 DEF Attached
<1> QED
  BY <1>2, <1>3

\* A message is queued for the other end, and for nobody else.
Queued(e, m) ==
  /\ wire'[Peer(e)] = Append(wire[Peer(e)], m)
  /\ wire'[e] = wire[e]

LEMMA SentQueued ==
  ASSUME Typed, NEW e \in Ends, NEW m \in Messages,
         wire' = [wire EXCEPT ![Peer(e)] = Append(@, m)]
  PROVE  wire' \in [Ends -> Seq(Messages)] /\ Queued(e, m)
<1>1. wire \in [Ends -> Seq(Messages)] /\ Peer(e) \in Ends /\ Peer(e) # e
  BY Peers DEF Typed
<1>2. Append(wire[Peer(e)], m) \in Seq(Messages)
  BY <1>1
<1> QED
  BY <1>1, <1>2 DEF Queued

LEMMA FlushQueues ==
  ASSUME Typed, NEW e \in Ends, buffered[e] = NoBody \/ SendTaken(e),
         wire' = FlushedWire(e)
  PROVE  /\ wire' \in [Ends -> Seq(Messages)]
         /\ buffered[e] = NoBody => wire' = wire
         /\ buffered[e] # NoBody =>
              /\ Message(buffered[e], Attached(e)) \in Messages
              /\ Queued(e, Message(buffered[e], Attached(e)))
<1>1. CASE buffered[e] = NoBody
  BY <1>1 DEF FlushedWire, Typed
<1>2. CASE buffered[e] # NoBody
  <2>1. Message(buffered[e], Attached(e)) \in Messages
    BY <1>2, AttachedOpen DEF Message, Messages, Typed
  <2> QED
    BY <1>2, <2>1, SentQueued DEF FlushedWire
<1> QED
  BY <1>1, <1>2

\* The files that a value names are a finite list of descriptors.
LEMMA FilesNamed ==
  ASSUME NEW e \in Ends, NEW files \in FileLists(e)
  PROVE  \E n \in Nat : files \in [1 .. n -> owned[e] \cup {0}]
BY Numbers DEF FileLists

\* A read takes the first message away.
LEMMA TailTaken ==
  ASSUME Typed, NEW e \in Ends, wire[e] # <<>>, wire' = [wire EXCEPT ![e] = Tail(@)]
  PROVE  /\ wire' \in [Ends -> Seq(Messages)]
         /\ wire'[e] = Tail(wire[e]) /\ wire'[Peer(e)] = wire[Peer(e)]
<1>1. wire \in [Ends -> Seq(Messages)] /\ Peer(e) \in Ends /\ Peer(e) # e
  BY Peers DEF Typed
<1>2. Tail(wire[e]) \in Seq(Messages)
  BY <1>1
<1> QED
  BY <1>1, <1>2

LEMMA InitTyped == ASSUME Init PROVE Typed
<1>1. \A e \in Ends : FirstFiles(e) \in Nat /\ FirstFiles(e) < FdLimit
  BY Numbers DEF FirstFiles
<1>2. NewCmsg \in Cmsgs
  BY Numbers DEF NewCmsg, Cmsgs
<1>3. \A e \in Ends : 1 .. FirstFiles(e) \in SUBSET Fds
  BY <1>1, Numbers DEF Fds
<1>4. \A e \in Ends, f \in Fds : <<e, f>> \in Resources /\ NotOpen \in Resources
  BY DEF Resources, Opened
<1>5. table \in [Ends -> [Fds -> Resources]]
  BY <1>4 DEF Init
<1>6. \A e \in Ends : <<>> \in Seq(Messages)
  OBVIOUS
<1>7. {raw, shut} \subseteq BOOLEAN
  BY ChannelAssumption DEF Init
<1> QED
  BY <1>2, <1>3, <1>5, <1>6, <1>7 DEF Init, Typed, Outcome

\* Every step keeps the types, whatever the users do.
LEMMA StepTyped ==
  ASSUME Typed, [Next]_vars
  PROVE  Typed'
<1>1. ASSUME NEW e \in Ends, NEW size \in Sizes, NEW files \in FileLists(e),
             StartSend(e, size, files)
      PROVE  Typed'
  <2>1. PICK n \in Nat : files \in [1 .. n -> owned[e] \cup {0}]
    BY FilesNamed
  <2>2. files \in [1 .. n -> Fds]
    BY <2>1, Numbers DEF Typed
  <2>3. size \in Nat /\ Serialized(e, size, files)
    BY <1>1, Numbers DEF StartSend
  <2>4. /\ table' = [table EXCEPT ![e] = table'[e]] /\ table'[e] \in [Fds -> Resources]
        /\ cmsg' = [cmsg EXCEPT ![e] = cmsg'[e]] /\ cmsg'[e] \in Cmsgs
        /\ buffered' = [buffered EXCEPT ![e] = buffered'[e]]
        /\ buffered'[e] \in Bodies \cup {NoBody}
    BY <2>2, <2>3, SerializedDoes
  <2>5. wire' \in [Ends -> Seq(Messages)]
    BY <1>1, FlushQueues DEF StartSend
  <2>6. UNCHANGED <<owned, raw, shut, closed, use, outcome>>
    BY <1>1 DEF StartSend
  <2>7. table' \in [Ends -> [Fds -> Resources]]
    BY <2>4 DEF Typed
  <2>8. cmsg' \in [Ends -> Cmsgs]
    BY <2>4 DEF Typed
  <2>9. buffered' \in [Ends -> Bodies \cup {NoBody}]
    BY <2>4 DEF Typed
  <2> QED
    BY <2>5, <2>6, <2>7, <2>8, <2>9 DEF Typed
<1>2. ASSUME NEW e \in Ends, PollComplete(e) PROVE Typed'
  <2>1. wire' \in [Ends -> Seq(Messages)]
    BY <1>2, FlushQueues DEF PollComplete
  <2> QED
    BY <1>2, <2>1 DEF PollComplete, Typed
<1>3. ASSUME NEW e \in Ends, Poll(e) PROVE Typed'
  <2>1. wire[e] # <<>> /\ wire' = [wire EXCEPT ![e] = Tail(@)]
        /\ cmsg' = [cmsg EXCEPT ![e] = RecvCmsg(e)]
        /\ UNCHANGED <<buffered, raw, shut, closed, use>>
    BY <1>3 DEF Poll
  <2>2. /\ Head(wire[e]) \in Messages
        /\ RecvTable(e) \in [Fds -> Resources] /\ RecvCmsg(e) \in Cmsgs
    BY <2>1, RecvDoes
  <2>3. wire' \in [Ends -> Seq(Messages)]
    BY <2>1, TailTaken
  <2>4. cmsg' \in [Ends -> Cmsgs]
    BY <2>1, <2>2 DEF Typed
  <2>5. /\ table' \in [Ends -> [Fds -> Resources]] /\ owned' \in [Ends -> SUBSET Fds]
        /\ outcome' \in [Ends -> [kind : {"none", "message", "eof", "error"}, intact : BOOLEAN]]
    <3>1. CASE Head(wire[e]).body.size = 0
      <4>1. /\ table' = [table EXCEPT ![e] = RecvTable(e)] /\ UNCHANGED owned
            /\ outcome' = [outcome EXCEPT ![e] = Outcome("eof", TRUE)]
        BY <1>3, <3>1 DEF Poll, Report
      <4> QED
        BY <2>2, <4>1 DEF Typed, Outcome
    <3>2. CASE Head(wire[e]).body.size # 0
      <4>1. Deserialize(e, Head(wire[e]).body, RecvCmsg(e), RecvTable(e))
        BY <1>3, <3>2 DEF Poll
      <4>2. Head(wire[e]).body \in Bodies
        BY <2>2 DEF Messages
      <4>3. /\ table' = [table EXCEPT ![e] = table'[e]] /\ table'[e] \in [Fds -> Resources]
            /\ owned' = [owned EXCEPT ![e] = owned'[e]] /\ owned'[e] \in SUBSET Fds
            /\ outcome' = [outcome EXCEPT ![e] = outcome'[e]]
            /\ outcome'[e] \in [kind : {"message", "error"}, intact : BOOLEAN]
        BY <2>2, <4>1, <4>2, DeserializeTyped
      <4>4. outcome'[e] \in [kind : {"none", "message", "eof", "error"}, intact : BOOLEAN]
        BY <4>3
      <4> QED
        BY <4>3, <4>4 DEF Typed
    <3> QED
      BY <3>1, <3>2
  <2> QED
    BY <2>1, <2>3, <2>4, <2>5 DEF Typed
<1>4. ASSUME NEW e \in Ends, PollEmpty(e) PROVE Typed'
  <2>1. /\ cmsg' = [cmsg EXCEPT ![e] = [ResetFdCount(cmsg[e]) EXCEPT !.present = ~Ended(e)]]
        /\ outcome' = [outcome EXCEPT ![e] = Outcome("eof", TRUE)] \/ outcome' = outcome
        /\ UNCHANGED <<table, owned, buffered, wire, raw, shut, closed, use>>
    BY <1>4 DEF PollEmpty
  <2>2. cmsg[e] \in Cmsgs /\ Ended(e) \in BOOLEAN
    BY Peers DEF Typed, Ended
  <2>3. [ResetFdCount(cmsg[e]) EXCEPT !.present = ~Ended(e)] \in Cmsgs
    BY <2>2, Reset, PresentSet
  <2>4. cmsg' \in [Ends -> Cmsgs]
    BY <2>1, <2>3 DEF Typed
  <2>5. outcome' \in [Ends -> [kind : {"none", "message", "eof", "error"}, intact : BOOLEAN]]
    <3>1. Outcome("eof", TRUE) \in [kind : {"none", "message", "eof", "error"}, intact : BOOLEAN]
      BY DEF Outcome
    <3> QED
      BY <2>1, <3>1 DEF Typed
  <2> QED
    BY <2>1, <2>4, <2>5 DEF Typed
<1>5. ASSUME NEW e \in Ends, RawWrite(e) PROVE Typed'
  <2>1. Body(1, <<>>) \in Bodies
    BY Numbers DEF Body, Bodies
  <2>2. Message(Body(1, <<>>), Attached(e)) \in Messages
    BY <1>5, <2>1, AttachedOpen DEF RawWrite, Message, Messages
  <2>3. wire' \in [Ends -> Seq(Messages)]
    BY <1>5, <2>2, SentQueued DEF RawWrite
  <2> QED
    BY <1>5, <2>3 DEF RawWrite, Typed
<1>6. ASSUME NEW e \in Ends, RawRead(e) PROVE Typed'
  <2>1. /\ wire[e] # <<>> /\ wire' = [wire EXCEPT ![e] = Tail(@)]
        /\ cmsg' = [cmsg EXCEPT ![e] = RecvCmsg(e)]
        /\ table' = [table EXCEPT ![e] = RecvTable(e)]
        /\ UNCHANGED <<owned, buffered, raw, shut, closed, use, outcome>>
    BY <1>6 DEF RawRead
  <2>2. RecvTable(e) \in [Fds -> Resources] /\ RecvCmsg(e) \in Cmsgs
    BY <2>1, RecvDoes
  <2>3. wire' \in [Ends -> Seq(Messages)]
    BY <2>1, TailTaken
  <2> QED
    BY <2>1, <2>2, <2>3 DEF Typed
<1>7. ASSUME NEW e \in Ends, RawShutdown(e) PROVE Typed'
  BY <1>7 DEF RawShutdown, Typed
<1>8. ASSUME NEW e \in Ends, DropChannel(e) PROVE Typed'
  <2>1. <<>> \in Seq(Messages)
    OBVIOUS
  <2> QED
    BY <1>8, <2>1 DEF DropChannel, Typed
<1>9. ASSUME NEW e \in Ends, NEW f \in owned[e], DropFile(e, f) PROVE Typed'
  <2>1. table' = [table EXCEPT ![e] = [table[e] EXCEPT ![f] = NotOpen]]
    BY <1>9 DEF DropFile
  <2>2. [table[e] EXCEPT ![f] = NotOpen] \in [Fds -> Resources]
    BY DEF Typed, Resources
  <2> QED
    BY <1>9, <2>1, <2>2 DEF DropFile, Typed
<1>10. CASE FromRaw
  BY <1>10 DEF FromRaw, Typed
<1>11. CASE UNCHANGED vars
  BY <1>11 DEF vars, Typed
<1> QED
  BY <1>1, <1>2, <1>3, <1>4, <1>5, <1>6, <1>7, <1>8, <1>9, <1>10, <1>11 DEF Next

LEMMA AlwaysTyped == Spec => []Typed
BY InitTyped, StepTyped, PTL DEF Spec
-----------------------------------------------------------------------------
(***************************************************************************)
(* The end of the stream                                                   *)
(***************************************************************************)

\* Nothing that is on its way is empty.
WireSized(e) == \A j \in DOMAIN wire[e] : wire[e][j].body.size # 0
Sized == \A e \in Ends : WireSized(e) /\ buffered[e].size # 0

\* What a queue has after a message was put behind it, or the first was taken.
LEMMA QueueFacts ==
  ASSUME NEW w \in Seq(Messages), NEW m \in Messages
  PROVE  /\ \A j \in DOMAIN Append(w, m) : (j \in DOMAIN w /\ Append(w, m)[j] = w[j])
                                         \/ Append(w, m)[j] = m
         /\ w # <<>> => /\ 1 \in DOMAIN w /\ Head(w) = w[1]
                        /\ \A j \in DOMAIN Tail(w) : j + 1 \in DOMAIN w /\ Tail(w)[j] = w[j + 1]
OBVIOUS

\* Steps keep that if no value is empty, and report the end only when it has come.
LEMMA EofStep ==
  ASSUME 0 \notin Sizes, Typed, Sized, EofMeansClosed, [Next]_vars
  PROVE  Sized' /\ EofMeansClosed'
<1>1. \A e \in Ends : (closed[e] => closed'[e]) /\ (shut => shut')
  BY DEF Next, StartSend, PollComplete, Poll, PollEmpty, RawWrite, RawRead, FromRaw,
         RawShutdown, DropFile, DropChannel, vars, Typed
<1>2. ASSUME outcome' = outcome PROVE EofMeansClosed'
  BY <1>1, <1>2, Peers DEF EofMeansClosed
<1>3. ASSUME NEW e \in Ends, NEW m \in Messages, m.body.size # 0, Queued(e, m),
             \A f \in Ends : buffered'[f].size # 0
      PROVE  Sized'
  <2>1. WireSized(e)'
    BY <1>3 DEF Sized, WireSized, Queued
  <2>2. wire[Peer(e)] \in Seq(Messages)
    BY Peers DEF Typed
  <2>3. WireSized(Peer(e))'
    BY <1>3, <2>2, QueueFacts, Peers DEF Sized, WireSized, Queued
  <2> QED
    BY <1>3, <2>1, <2>3, Peers DEF Sized
<1>4. ASSUME NEW e \in Ends, wire[e] # <<>>, wire' = [wire EXCEPT ![e] = Tail(@)],
             buffered' = buffered
      PROVE  Sized'
  <2>1. wire'[e] = Tail(wire[e]) /\ wire'[Peer(e)] = wire[Peer(e)] /\ wire[e] \in Seq(Messages)
    BY <1>4, TailTaken DEF Typed
  <2>2. Head(wire[e]) \in Messages
    BY <1>4, <2>1
  <2>3. WireSized(e)'
    BY <1>4, <2>1, <2>2, QueueFacts DEF Sized, WireSized
  <2>4. WireSized(Peer(e))'
    BY <2>1, Peers DEF Sized, WireSized
  <2> QED
    BY <1>4, <2>3, <2>4, Peers DEF Sized
<1>5. ASSUME wire' = wire, buffered' = buffered PROVE Sized'
  BY <1>5 DEF Sized, WireSized
<1>6. ASSUME NEW e \in Ends, NEW size \in Sizes, NEW files \in FileLists(e),
             StartSend(e, size, files)
      PROVE  Sized' /\ EofMeansClosed'
  <2>1. PICK n \in Nat : files \in [1 .. n -> owned[e] \cup {0}]
    BY FilesNamed
  <2>2. files \in [1 .. n -> Fds] /\ size \in Nat /\ size # 0 /\ Serialized(e, size, files)
    BY <1>6, <2>1, Numbers DEF Typed, StartSend
  <2>3. /\ buffered' = [buffered EXCEPT ![e] = buffered'[e]]
        /\ buffered'[e] = NoBody \/ Taken(e, size, Named(e, files))
    BY <2>2, SerializedDoes
  <2>4. \A f \in Ends : buffered'[f].size # 0
    <3>1. buffered'[e].size # 0
      BY <2>2, <2>3 DEF NoBody, Taken, Body
    <3> QED
      BY <2>3, <3>1 DEF Sized, Typed
  <2>5. Sized'
    <3>1. CASE buffered[e] = NoBody
      <4>1. wire' = wire
        BY <1>6, <3>1, FlushQueues DEF StartSend
      <4> QED
        BY <2>4, <4>1 DEF Sized, WireSized
    <3>2. CASE buffered[e] # NoBody
      <4>1. /\ Message(buffered[e], Attached(e)) \in Messages
            /\ Queued(e, Message(buffered[e], Attached(e)))
        BY <1>6, <3>2, FlushQueues DEF StartSend
      <4>2. Message(buffered[e], Attached(e)).body.size # 0
        BY DEF Message, Sized
      <4> QED
        BY <1>3, <2>4, <4>1, <4>2
    <3> QED
      BY <3>1, <3>2
  <2> QED
    BY <1>2, <1>6, <2>5 DEF StartSend
<1>7. ASSUME NEW e \in Ends, PollComplete(e) PROVE Sized' /\ EofMeansClosed'
  <2>1. /\ Message(buffered[e], Attached(e)) \in Messages
        /\ Queued(e, Message(buffered[e], Attached(e)))
    BY <1>7, FlushQueues DEF PollComplete
  <2>2. Message(buffered[e], Attached(e)).body.size # 0
    BY DEF Message, Sized
  <2>3. \A f \in Ends : buffered'[f].size # 0
    BY <1>7 DEF PollComplete, Sized, NoBody, Typed
  <2> QED
    BY <1>2, <1>3, <1>7, <2>1, <2>2, <2>3 DEF PollComplete
<1>8. ASSUME NEW e \in Ends, Poll(e) PROVE Sized' /\ EofMeansClosed'
  <2>1. wire[e] # <<>> /\ wire' = [wire EXCEPT ![e] = Tail(@)] /\ buffered' = buffered
    BY <1>8 DEF Poll
  <2>2. wire[e] \in Seq(Messages) /\ Head(wire[e]) \in Messages
    BY <2>1, RecvDoes DEF Typed
  <2>3. Head(wire[e]).body.size # 0
    BY <2>1, <2>2, QueueFacts DEF Sized, WireSized
  <2>4. Deserialize(e, Head(wire[e]).body, RecvCmsg(e), RecvTable(e))
    BY <1>8, <2>3 DEF Poll
  <2>5. /\ outcome' = [outcome EXCEPT ![e] = outcome'[e]]
        /\ outcome'[e] \in [kind : {"message", "error"}, intact : BOOLEAN]
    <3>1. /\ Head(wire[e]).body \in Bodies
          /\ RecvTable(e) \in [Fds -> Resources] /\ RecvCmsg(e) \in Cmsgs
      BY <2>1, RecvDoes DEF Messages
    <3> QED
      BY <2>4, <3>1, DeserializeTyped
  <2>6. outcome'[e].kind # "eof"
    BY <2>5
  <2>7. EofMeansClosed'
    BY <1>1, <2>5, <2>6, Peers DEF EofMeansClosed, Typed
  <2> QED
    BY <1>4, <2>1, <2>7
<1>9. ASSUME NEW e \in Ends, PollEmpty(e) PROVE Sized' /\ EofMeansClosed'
  <2>1. Sized'
    BY <1>5, <1>9 DEF PollEmpty
  <2>2. CASE outcome' = outcome
    BY <1>2, <2>1, <2>2
  <2>3. CASE outcome' # outcome
    <3>1. Ended(e) /\ outcome' = [outcome EXCEPT ![e] = Outcome("eof", TRUE)]
      BY <1>9, <2>3 DEF PollEmpty
    <3> QED
      BY <1>1, <2>1, <3>1, Peers DEF EofMeansClosed, Ended, Typed
  <2> QED
    BY <2>2, <2>3
<1>10. ASSUME NEW e \in Ends, RawWrite(e) PROVE Sized' /\ EofMeansClosed'
  <2> DEFINE m == Message(Body(1, <<>>), Attached(e))
  <2>1. m \in Messages
    <3>1. Body(1, <<>>) \in Bodies
      BY Numbers DEF Body, Bodies
    <3> QED
      BY <1>10, <3>1, AttachedOpen DEF RawWrite, Message, Messages
  <2>2. m.body.size # 0
    BY DEF Message, Body
  <2>3. Queued(e, m)
    BY <1>10, <2>1, SentQueued DEF RawWrite
  <2>4. \A f \in Ends : buffered'[f].size # 0
    BY <1>10 DEF RawWrite, Sized
  <2> HIDE DEF m
  <2> QED
    BY <1>2, <1>3, <1>10, <2>1, <2>2, <2>3, <2>4 DEF RawWrite
<1>11. ASSUME NEW e \in Ends, RawRead(e) PROVE Sized' /\ EofMeansClosed'
  BY <1>2, <1>4, <1>11 DEF RawRead
<1>12. ASSUME NEW e \in Ends, DropChannel(e) PROVE Sized' /\ EofMeansClosed'
  BY <1>2, <1>12 DEF DropChannel, Sized, WireSized, NoBody, Typed
<1>13. ASSUME NEW e \in Ends,
              RawShutdown(e) \/ FromRaw \/ UNCHANGED vars \/ \E f \in owned[e] : DropFile(e, f)
       PROVE  Sized' /\ EofMeansClosed'
  BY <1>2, <1>5, <1>13 DEF RawShutdown, FromRaw, vars, DropFile
<1> QED
  BY <1>6, <1>7, <1>8, <1>9, <1>10, <1>11, <1>12, <1>13 DEF Next, Ends

\* poll takes neither EAGAIN nor a message for the end of the stream: it reports
\* the end only when the peer has gone or the socket was shut down, whatever the
\* users do, as long as no value serializes to nothing.
THEOREM EofMeansClosedHolds ==
  ASSUME 0 \notin Sizes
  PROVE  Spec => []EofMeansClosed
<1>1. Init => Sized /\ EofMeansClosed
  BY DEF Init, Sized, WireSized, NoBody, EofMeansClosed, Outcome
<1>2. Typed /\ Sized /\ EofMeansClosed /\ [Next]_vars => Sized' /\ EofMeansClosed'
  BY EofStep
<1> QED
  BY <1>1, <1>2, AlwaysTyped, PTL DEF Spec
-----------------------------------------------------------------------------
(***************************************************************************)
(* Descriptors and messages of users that read only while nothing is       *)
(* buffered, or send bytes only                                            *)
(***************************************************************************)

\* The ways of using a channel that the code gets right.
Disciplined == ~MayStarve /\ "split" \notin Uses

Modes == use \in {"flush_first", "bytes"} /\ (use = "bytes" => ~raw)

\* What a message has to bring along: its resources, once for each pass.
Copies(want) == [i \in 1 .. Passes * Len(want) |-> want[Cycle(want, i)]]

\* A body that start_send takes: the descriptors that count are the last ones.
Fits(b) ==
  /\ b.size <= MaxMessageSize
  /\ b.base = (Passes - 1) * Len(b.want)
  /\ Passes * Len(b.want) <= MaxFds
  /\ use = "bytes" => b.want = <<>>

\* While a message is buffered the control message has duplicates of its
\* descriptors, which no user can close.
Holding(e) ==
  /\ cmsg[e].present
  /\ cmsg[e].count = Passes * Len(buffered[e].want)
  /\ \A i \in 1 .. cmsg[e].count :
       /\ cmsg[e].fds[i] \notin owned[e]
       /\ table[e][cmsg[e].fds[i]] = buffered[e].want[Cycle(buffered[e].want, i)]
       /\ table[e][cmsg[e].fds[i]] # NotOpen

\* What a File will close is open, and not the standard input.  Users that send
\* bytes have no files, and what is left in the control message stays open.
Sender(e) ==
  /\ table[e][0] # NotOpen
  /\ \A f \in owned[e] : f # 0 /\ table[e][f] # NotOpen
  /\ buffered[e] # NoBody => ~raw /\ Fits(buffered[e])
  /\ buffered[e] # NoBody /\ use = "flush_first" => Holding(e)
  /\ use = "bytes" =>
       /\ owned[e] = {}
       /\ \A i \in 1 .. MaxFds : table[e][cmsg[e].fds[i]] # NotOpen

\* What is on its way to end e is deserialized as it was serialized.
Carries(m) == Fits(m.body) /\ (use = "flush_first" => m.rights = Copies(m.body.want))
Carried(e) == ~raw => \A j \in DOMAIN wire[e] : Carries(wire[e][j])

Results(e) == outcome[e].kind # "error" /\ (outcome[e].kind = "message" => outcome[e].intact)

IndInv == Modes /\ \A e \in Ends : Sender(e) /\ Carried(e) /\ Results(e)

\* Before anything is sent.
LEMMA InitInv == ASSUME Disciplined, Init PROVE IndInv
<1>1. Modes
  BY ChannelAssumption DEF Disciplined, Init, Modes
<1>2. ASSUME NEW e \in Ends PROVE Sender(e) /\ Carried(e) /\ Results(e)
  <2>1. FirstFiles(e) \in Nat /\ FirstFiles(e) < FdLimit /\ (use = "bytes" => FirstFiles(e) = 0)
    BY Numbers DEF FirstFiles
  <2>2. \A f \in 0 .. FirstFiles(e) : f \in Fds /\ table[e][f] # NotOpen
    BY <2>1, Numbers DEF Init, Fds, Opened
  <2>3. \A i \in 1 .. MaxFds : cmsg[e].fds[i] = 0
    BY DEF Init, NewCmsg
  <2>4. table[e][0] # NotOpen /\ \A f \in owned[e] : f # 0 /\ table[e][f] # NotOpen
    BY <2>1, <2>2 DEF Init
  <2>5. use = "bytes" => owned[e] = {}
    BY <2>1 DEF Init
  <2>6. Sender(e)
    BY <2>3, <2>4, <2>5 DEF Init, Sender
  <2> QED
    BY <2>6 DEF Init, Carried, Results, Outcome
<1> QED
  BY <1>1, <1>2 DEF IndInv

\* An end that nothing happens to.
LEMMA SenderKept ==
  ASSUME NEW e \in Ends, Sender(e), use' = use, raw' => raw,
         table'[e] = table[e], owned'[e] = owned[e], cmsg'[e] = cmsg[e],
         buffered'[e] = buffered[e]
  PROVE  Sender(e)'
<1>1. Holding(e) => Holding(e)'
  BY DEF Holding
<1>2. Fits(buffered[e]) => Fits(buffered[e])'
  BY DEF Fits
<1> QED
  BY <1>1, <1>2 DEF Sender

LEMMA CarriedKept ==
  ASSUME NEW e \in Ends, Carried(e), use' = use, raw' = raw, wire'[e] = wire[e]
  PROVE  Carried(e)'
BY DEF Carried, Carries, Fits

\* A queue that a message is put behind, or whose first one is taken.
LEMMA CarriedQueued ==
  ASSUME Typed, NEW e \in Ends, Carried(e), Carried(Peer(e)), use' = use, raw' = raw,
         NEW m \in Messages, Queued(e, m), ~raw => Carries(m)
  PROVE  \A f \in Ends : Carried(f)'
<1>1. Carried(e)'
  BY CarriedKept DEF Queued
<1>2. wire[Peer(e)] \in Seq(Messages) /\ wire'[Peer(e)] = Append(wire[Peer(e)], m)
  BY Peers DEF Typed, Queued
<1>3. Carried(Peer(e))'
  BY <1>2, QueueFacts DEF Carried, Carries, Fits
<1> QED
  BY <1>1, <1>3, Peers

LEMMA CarriedTail ==
  ASSUME Typed, NEW e \in Ends, Carried(e), Carried(Peer(e)), use' = use, raw' = raw,
         wire[e] # <<>>, wire' = [wire EXCEPT ![e] = Tail(@)]
  PROVE  \A f \in Ends : Carried(f)'
<1>1. /\ wire[e] \in Seq(Messages) /\ Head(wire[e]) \in Messages
      /\ wire'[e] = Tail(wire[e]) /\ wire'[Peer(e)] = wire[Peer(e)]
  BY TailTaken, RecvDoes DEF Typed
<1>2. Carried(Peer(e))'
  BY <1>1, CarriedKept, Peers
<1>3. Carried(e)'
  BY <1>1, QueueFacts DEF Carried, Carries, Fits
<1> QED
  BY <1>2, <1>3, Peers

\* What goes out with a buffered message is what its value named.
LEMMA FlushCarries ==
  ASSUME Typed, IndInv, NEW e \in Ends, buffered[e] # NoBody
  PROVE  Carries(Message(buffered[e], Attached(e)))
<1>1. CASE use = "flush_first"
  <2>1. Holding(e) /\ Fits(buffered[e])
    BY <1>1 DEF IndInv, Sender
  <2>2. Attached(e) = Copies(buffered[e].want)
    BY <2>1 DEF Attached, Copies, Holding
  <2> QED
    BY <2>1, <2>2 DEF Carries, Message
<1>2. CASE use # "flush_first"
  BY <1>2 DEF IndInv, Sender, Carries, Message
<1> QED
  BY <1>1, <1>2

\* Serializing a value leaves the end in good order.
LEMMA StartSendKeeps ==
  ASSUME Typed, IndInv, NEW e \in Ends, NEW size \in Sizes, NEW files \in FileLists(e),
         StartSend(e, size, files)
  PROVE  Sender(e)'
<1> DEFINE want == Named(e, files)
<1>1. PICK n \in Nat : files \in [1 .. n -> owned[e] \cup {0}]
  BY FilesNamed
<1>2. files \in [1 .. n -> Fds] /\ size \in Nat /\ Serialized(e, size, files)
  BY <1>1, Numbers DEF Typed, StartSend
<1>3. /\ \A f \in Fds : table[e][f] # NotOpen => table'[e][f] = table[e][f]
      /\ cmsg'[e] \in Cmsgs
      /\ buffered'[e] = NoBody \/ Taken(e, size, want)
      /\ buffered'[e] = NoBody => cmsg' = cmsg
  BY <1>2, SerializedDoes
<1>4. Sender(e) /\ owned[e] \subseteq Fds /\ cmsg[e] \in Cmsgs
  BY DEF IndInv, Typed
<1>5a. ~raw
  BY DEF StartSend
<1>5b. owned' = owned /\ raw' = raw /\ use' = use
  BY DEF StartSend
<1>6. \A i \in 1 .. n : table[e][files[i]] # NotOpen
  BY <1>1, <1>4 DEF Sender
<1>7. /\ Len(want) = n /\ want \in Seq(Resources)
      /\ \A i \in 1 .. n : want[i] = table[e][files[i]]
  BY <1>2 DEF Named, Typed
<1>8. use = "bytes" => want = <<>>
  <2> HAVE use = "bytes"
  <2>1. DOMAIN files = 1 .. 0
    BY DEF FileLists
  <2>2. n = 0
    BY <1>1, <2>1
  <2> HIDE DEF want
  <2> QED
    BY <1>7, <2>2, EmptySeq
<1> HIDE DEF want
<1>9. table'[e][0] # NotOpen /\ \A f \in owned'[e] : f # 0 /\ table'[e][f] # NotOpen
  BY <1>3, <1>4, <1>5b, Numbers DEF Sender
<1>10. buffered'[e] # NoBody => ~raw' /\ Fits(buffered[e])'
  <2> HAVE buffered'[e] # NoBody
  <2>1. Taken(e, size, want) /\ buffered'[e] = Body(size, want)
    BY <1>3 DEF Taken
  <2>2. /\ buffered'[e].size = size /\ buffered'[e].want = want
        /\ buffered'[e].base = (Passes - 1) * Len(want)
    BY <2>1 DEF Body
  <2>3. size <= MaxMessageSize /\ Passes * Len(want) <= MaxFds
    BY <2>1 DEF Taken
  <2> QED
    BY <1>5a, <1>5b, <1>8, <2>2, <2>3 DEF Fits
<1>11. buffered'[e] # NoBody => Holding(e)'
  <2> HAVE buffered'[e] # NoBody
  <2>1. Taken(e, size, want) /\ buffered'[e].want = want
    BY <1>3 DEF Taken, Body
  <2>2. \A i \in 1 .. cmsg'[e].count : Cycle(want, i) \in 1 .. n
    <3>1. cmsg'[e].count = Passes * n
      BY <1>7, <2>1 DEF Taken
    <3>2. CASE n = 0
      BY <3>1, <3>2, Numbers
    <3>3. CASE n # 0
      <4>1. \A i \in 1 .. cmsg'[e].count : i \in Nat \ {0}
        BY <1>3, Numbers DEF Cmsgs
      <4> QED
        BY <1>7, <3>3, <4>1, Cycles DEF Cycle
    <3> QED
      BY <3>2, <3>3
  <2>3. \A i \in 1 .. cmsg'[e].count : want[Cycle(want, i)] # NotOpen
    BY <1>6, <1>7, <2>2
  <2>4. \A i \in 1 .. cmsg'[e].count : cmsg'[e].fds[i] \notin owned'[e]
    BY <1>4, <1>5b, <2>1 DEF Taken, FreeFds, Sender
  <2> QED
    BY <2>1, <2>3, <2>4 DEF Taken, Holding
<1>12. use = "bytes" => \A i \in 1 .. MaxFds : table'[e][cmsg'[e].fds[i]] # NotOpen
  <2> SUFFICES ASSUME use = "bytes", NEW i \in 1 .. MaxFds
               PROVE  table'[e][cmsg'[e].fds[i]] # NotOpen
    OBVIOUS
  <2>1. cmsg[e].fds[i] \in Fds /\ table[e][cmsg[e].fds[i]] # NotOpen
    BY <1>4 DEF Sender, Cmsgs
  <2>2. cmsg'[e].fds[i] = cmsg[e].fds[i]
    <3>1. CASE buffered'[e] = NoBody
      BY <1>3, <3>1
    <3>2. CASE Taken(e, size, want)
      <4>1. Len(want) = 0
        BY <1>8
      <4>2. cmsg'[e].count = 0
        BY <3>2, <4>1, Numbers DEF Taken
      <4> QED
        BY <3>2, <4>2, Numbers DEF Taken
    <3> QED
      BY <1>3, <3>1, <3>2
  <2> QED
    BY <1>3, <2>1, <2>2
<1> QED
  BY <1>4, <1>5b, <1>9, <1>10, <1>11, <1>12 DEF Sender

\* Receiving leaves the end in good order.
LEMMA RecvKeeps ==
  ASSUME Typed, IndInv, NEW e \in Ends, wire[e] # <<>>, use' = use, raw' = raw,
         buffered'[e] = buffered[e], use = "flush_first" => buffered[e] = NoBody,
         table'[e] = RecvTable(e), cmsg'[e] = RecvCmsg(e),
         NEW new \in SUBSET Fds, owned'[e] = owned[e] \cup new,
         \A f \in new : f # 0 /\ RecvTable(e)[f] # NotOpen, use = "bytes" => new = {}
  PROVE  Sender(e)'
<1>1. /\ Head(wire[e]) \in Messages /\ RecvCmsg(e) \in Cmsgs
      /\ \A f \in Fds : table[e][f] # NotOpen => RecvTable(e)[f] = table[e][f]
      /\ Arrives(e, Head(wire[e]), RecvCount(e))
  BY RecvDoes
<1>2. Sender(e) /\ owned[e] \subseteq Fds /\ cmsg[e] \in Cmsgs
  BY DEF IndInv, Typed
<1>3. table'[e][0] # NotOpen /\ \A f \in owned'[e] : f # 0 /\ table'[e][f] # NotOpen
  BY <1>1, <1>2, Numbers DEF Sender
<1>4. Fits(buffered[e]) => Fits(buffered[e])'
  BY DEF Fits
<1>5. use = "bytes" => \A i \in 1 .. MaxFds : table'[e][cmsg'[e].fds[i]] # NotOpen
  <2> SUFFICES ASSUME use = "bytes", NEW i \in 1 .. MaxFds
               PROVE  RecvTable(e)[RecvCmsg(e).fds[i]] # NotOpen
    OBVIOUS
  <2>r. PICK r : r = RecvCount(e)
    OBVIOUS
  <2>m. PICK m \in Messages : m = Head(wire[e])
    BY <1>1
  <2>1. Arrives(e, m, r)
    BY <1>1, <2>r, <2>m
  <2>2. CASE i <= r
    <3>1. i \in 1 .. r /\ i \in 1 .. Len(m.rights) /\ m.rights \in Seq(Opened)
      BY <2>1, <2>2 DEF Arrives, Messages
    <3>2. m.rights[i] \in Opened
      BY <3>1
    <3> QED
      BY <2>1, <3>1, <3>2, Numbers DEF Arrives
  <2>3. CASE i > r
    <3>1. cmsg[e].fds[i] \in Fds /\ table[e][cmsg[e].fds[i]] # NotOpen
      BY <1>2 DEF Sender, Cmsgs
    <3> QED
      BY <1>1, <2>1, <2>3, <3>1 DEF Arrives
  <2> QED
    BY <2>1, <2>2, <2>3 DEF Arrives
<1>6. use \in {"flush_first", "bytes"}
  BY DEF IndInv, Modes
<1> QED
  BY <1>2, <1>3, <1>4, <1>5, <1>6 DEF Sender

\* A message that arrives at an end that may read is deserialized as it was sent.
LEMMA PollDelivers ==
  ASSUME Disciplined, Typed, IndInv, NEW e \in Ends, ~raw, wire[e] # <<>>, MayReceive(e),
         NEW i \in 1 .. Len(Head(wire[e]).body.want)
  PROVE  LET b == Head(wire[e]).body
             f == RecvCmsg(e).fds[b.base + i]
         IN  /\ b.base + i <= RecvCmsg(e).count
             /\ f \in FreeFds(table[e])
             /\ RecvTable(e)[f] = b.want[i] /\ b.want[i] # NotOpen
<1>m. PICK m : m = Head(wire[e])
  OBVIOUS
<1>r. PICK r : r = RecvCount(e)
  OBVIOUS
<1>1. /\ m \in Messages /\ wire[e] \in Seq(Messages)
      /\ Arrives(e, m, r)
  BY <1>m, <1>r, RecvDoes DEF Typed
<1>2. Carries(m)
  <2>1. 1 \in DOMAIN wire[e] /\ m = wire[e][1]
    BY <1>1, <1>m, QueueFacts
  <2> QED
    BY <2>1 DEF IndInv, Carried
<1>n. PICK n : n = Len(m.body.want)
  OBVIOUS
<1>3. m.body.want \in Seq(Resources) /\ n \in Nat \ {0} /\ i \in 1 .. n
  BY <1>1, <1>m, <1>n DEF Messages, Bodies
<1>4. use = "flush_first"
  <2>1. use # "bytes"
    BY <1>2, <1>3, <1>n DEF Carries, Fits
  <2> QED
    BY <2>1 DEF IndInv, Modes
<1>5. m.rights = Copies(m.body.want) /\ m.rights \in Seq(Opened)
  BY <1>1, <1>2, <1>4 DEF Carries, Messages
<1>q. PICK q \in Nat : q = Passes - 1
  BY Numbers
<1>b. PICK x \in Nat : x = q * n
  BY <1>3
<1>6. Passes * n = x + n /\ x + i \in 1 .. x + n
  BY <1>3, <1>q, <1>b, Numbers
<1>7. Len(m.rights) = x + n /\ x + n <= MaxFds /\ m.body.base = x
  <2>1. Passes * n <= MaxFds /\ m.body.base = (Passes - 1) * n
    BY <1>2, <1>n DEF Carries, Fits
  <2>2. m.body.base = x
    BY <2>1, <1>q, <1>b
  <2>3. x + n \in Nat /\ DOMAIN m.rights = 1 .. x + n
    BY <1>3, <1>5, <1>6, <1>n DEF Copies
  <2> QED
    BY <1>5, <1>6, <2>1, <2>2, <2>3
<1>8. ~Starved(e)
  BY <1>4 DEF MayReceive, Disciplined
<1>9. r = x + n
  BY <1>1, <1>7, <1>8 DEF Arrives
<1>10. m.rights[x + i] = m.body.want[i]
  <2>1. Len(m.body.want) \in Nat \ {0} /\ i \in 1 .. Len(m.body.want)
    BY <1>3, <1>n
  <2>2. Cycle(m.body.want, q * Len(m.body.want) + i) = i
    BY <2>1, Cycled
  <2>3. Cycle(m.body.want, x + i) = i
    BY <1>n, <1>b, <2>2
  <2> QED
    BY <1>5, <1>6, <1>n, <2>3 DEF Copies
<1>11. m.rights[x + i] \in Opened
  BY <1>5, <1>6, <1>7
<1>12. /\ RecvCmsg(e).count = r
       /\ RecvCmsg(e).fds[x + i] \in FreeFds(table[e])
       /\ RecvTable(e)[RecvCmsg(e).fds[x + i]] = m.rights[x + i]
  BY <1>1, <1>3, <1>6, <1>9 DEF Arrives
<1>13. m.body.want[i] # NotOpen
  BY <1>10, <1>11, Numbers
<1>14. /\ m.body.base + i <= RecvCmsg(e).count
       /\ RecvCmsg(e).fds[m.body.base + i] \in FreeFds(table[e])
       /\ RecvTable(e)[RecvCmsg(e).fds[m.body.base + i]] = m.body.want[i]
  BY <1>6, <1>7, <1>9, <1>10, <1>12
<1> QED
  BY <1>m, <1>13, <1>14

\* poll returns every message whole.
LEMMA PollKeeps ==
  ASSUME Disciplined, Typed, IndInv, NEW e \in Ends, Poll(e)
  PROVE  Sender(e)' /\ Results(e)'
<1>1. /\ ~raw /\ wire[e] # <<>> /\ MayReceive(e) /\ cmsg'[e] = RecvCmsg(e)
      /\ UNCHANGED <<buffered, raw, use>>
      /\ use = "flush_first" => buffered[e] = NoBody
  BY DEF Poll, MayRead, Typed
<1>b. PICK b : b = Head(wire[e]).body
  OBVIOUS
<1>2. /\ Head(wire[e]) \in Messages /\ b \in Bodies
      /\ RecvTable(e) \in [Fds -> Resources] /\ RecvCmsg(e) \in Cmsgs
  BY <1>1, <1>b, RecvDoes DEF Messages
<1>3. Fits(b)
  <2>1. 1 \in DOMAIN wire[e] /\ Head(wire[e]) = wire[e][1]
    BY <1>1, <1>2, QueueFacts DEF Typed
  <2> QED
    BY <1>1, <1>b, <2>1 DEF IndInv, Carried, Carries
<1>4. CASE b.size = 0
  <2>1. /\ table'[e] = RecvTable(e) /\ owned'[e] = owned[e] \cup {}
        /\ outcome'[e] = Outcome("eof", TRUE)
    BY <1>4, <1>b DEF Poll, Report, Typed
  <2>2. {} \in SUBSET Fds /\ buffered'[e] = buffered[e] /\ use' = use /\ raw' = raw
    BY <1>1
  <2>3. Sender(e)'
    BY <1>1, <2>1, <2>2, RecvKeeps
  <2> QED
    BY <2>1, <2>3 DEF Results, Outcome
<1>5. CASE b.size # 0
  <2> DEFINE new == {RecvCmsg(e).fds[b.base + i] : i \in 1 .. Len(b.want)}
  <2>1. Deserialize(e, b, RecvCmsg(e), RecvTable(e))
    BY <1>5, <1>b DEF Poll
  <2>2. \A i \in 1 .. Len(b.want) :
          /\ b.base + i <= RecvCmsg(e).count
          /\ RecvCmsg(e).fds[b.base + i] \in FreeFds(table[e])
          /\ RecvTable(e)[RecvCmsg(e).fds[b.base + i]] = b.want[i] /\ b.want[i] # NotOpen
    BY <1>1, <1>b, PollDelivers
  <2>3. /\ table'[e] = RecvTable(e) /\ owned'[e] = owned[e] \cup new
        /\ outcome'[e] = Outcome("message", TRUE)
    <3>1. b.size <= MaxMessageSize
      BY <1>3 DEF Fits
    <3>c. PICK c \in Cmsgs : c = RecvCmsg(e)
      BY <1>2
    <3>t. PICK t \in [Fds -> Resources] : t = RecvTable(e)
      BY <1>2
    <3>p. b \in Bodies
      BY <1>2
    <3>d. Deserialize(e, b, c, t)
      BY <2>1, <3>c, <3>t
    <3>2. \A i \in 1 .. Len(b.want) :
             /\ b.base + i <= c.count
             /\ t[c.fds[b.base + i]] = b.want[i] /\ b.want[i] # NotOpen
      BY <2>2, <3>c, <3>t
    <3>3. /\ table'[e] = t
          /\ owned'[e] = owned[e] \cup {c.fds[b.base + i] : i \in 1 .. Len(b.want)}
          /\ outcome'[e] = Outcome("message", TRUE)
      BY <3>p, <3>d, <3>1, <3>2, DeserializeWhole
    <3> QED
      BY <3>3, <3>c, <3>t
  <2>4. \A f \in new : f \in Fds /\ f # 0 /\ RecvTable(e)[f] # NotOpen
    BY <2>2 DEF FreeFds, IndInv, Sender
  <2>5. use = "bytes" => new = {}
    BY <1>3 DEF Fits
  <2> HIDE DEF new
  <2>6. Sender(e)'
    <3>1. new \in SUBSET Fds
      BY <2>4
    <3> QED
      BY <1>1, <2>3, <2>4, <2>5, <3>1, RecvKeeps
  <2> QED
    BY <2>3, <2>6 DEF Results, Outcome
<1> QED
  BY <1>4, <1>5

\* An end that another one's step leaves alone.
LEMMA Elsewhere ==
  ASSUME IndInv, Typed, NEW e \in Ends, use' = use, raw' = raw,
         Sender(e)', Results(e)',
         table'[Peer(e)] = table[Peer(e)], owned'[Peer(e)] = owned[Peer(e)],
         cmsg'[Peer(e)] = cmsg[Peer(e)], buffered'[Peer(e)] = buffered[Peer(e)],
         outcome'[Peer(e)] = outcome[Peer(e)], \A f \in Ends : Carried(f)'
  PROVE  IndInv'
<1>1. Peer(e) \in Ends /\ Sender(Peer(e)) /\ Results(Peer(e))
  BY Peers DEF IndInv
<1>2. Sender(Peer(e))'
  BY <1>1, SenderKept
<1>3. Results(Peer(e))'
  BY <1>1 DEF Results
<1>4. Modes'
  BY DEF IndInv, Modes
<1> QED
  BY <1>2, <1>3, <1>4, Peers DEF IndInv

\* A step that changes only what is on its way.
LEMMA OnlyWires ==
  ASSUME IndInv, use' = use, raw' => raw,
         UNCHANGED <<table, owned, cmsg, buffered, outcome>>, \A f \in Ends : Carried(f)'
  PROVE  IndInv'
<1>1. Modes'
  BY DEF IndInv, Modes
<1>2. ASSUME NEW e \in Ends PROVE Sender(e)'
  BY SenderKept DEF IndInv
<1>3. ASSUME NEW e \in Ends PROVE Results(e)'
  BY DEF IndInv, Results
<1> QED
  BY <1>1, <1>2, <1>3 DEF IndInv

\* The queues when start_send or poll_complete have sent what was buffered.
LEMMA FlushKeeps ==
  ASSUME Typed, IndInv, NEW e \in Ends, buffered[e] = NoBody \/ SendTaken(e),
         wire' = FlushedWire(e), use' = use, raw' = raw
  PROVE  \A f \in Ends : Carried(f)'
<1>1. CASE buffered[e] = NoBody
  BY <1>1, FlushQueues, CarriedKept DEF IndInv
<1>2. CASE buffered[e] # NoBody
  <2>1. /\ Message(buffered[e], Attached(e)) \in Messages
        /\ Queued(e, Message(buffered[e], Attached(e)))
    BY <1>2, FlushQueues
  <2>2. Carries(Message(buffered[e], Attached(e)))
    BY <1>2, FlushCarries
  <2>3. Carried(e) /\ Carried(Peer(e))
    BY Peers DEF IndInv
  <2> QED
    BY <2>1, <2>2, <2>3, CarriedQueued
<1> QED
  BY <1>1, <1>2

\* Every step of disciplined users keeps the channel in good order.
LEMMA StepInv ==
  ASSUME Disciplined, Typed, IndInv, [Next]_vars
  PROVE  IndInv'
<1>1. ASSUME NEW e \in Ends, NEW size \in Sizes, NEW files \in FileLists(e),
             StartSend(e, size, files)
      PROVE  IndInv'
  <2>1. PICK n \in Nat : files \in [1 .. n -> owned[e] \cup {0}]
    BY FilesNamed
  <2>2. files \in [1 .. n -> Fds] /\ size \in Nat /\ Serialized(e, size, files)
    BY <1>1, <2>1, Numbers DEF Typed, StartSend
  <2>3. /\ table' = [table EXCEPT ![e] = table'[e]]
        /\ cmsg' = [cmsg EXCEPT ![e] = cmsg'[e]]
        /\ buffered' = [buffered EXCEPT ![e] = buffered'[e]]
    BY <2>2, SerializedDoes
  <2>4. /\ table'[Peer(e)] = table[Peer(e)] /\ cmsg'[Peer(e)] = cmsg[Peer(e)]
        /\ buffered'[Peer(e)] = buffered[Peer(e)]
    BY <2>3, Peers DEF Typed
  <2>5. owned' = owned /\ outcome' = outcome /\ use' = use /\ raw' = raw
    BY <1>1 DEF StartSend
  <2>6. \A f \in Ends : Carried(f)'
    BY <1>1, <2>5, FlushKeeps DEF StartSend
  <2>7. Sender(e)'
    BY <1>1, StartSendKeeps
  <2>8. Results(e)'
    BY <2>5 DEF IndInv, Results
  <2> QED
    BY <2>4, <2>5, <2>6, <2>7, <2>8, Elsewhere
<1>2. ASSUME NEW e \in Ends, PollComplete(e) PROVE IndInv'
  <2>1. /\ buffered' = [buffered EXCEPT ![e] = NoBody]
        /\ UNCHANGED <<table, owned, cmsg, raw, use, outcome>>
    BY <1>2 DEF PollComplete
  <2>2. \A f \in Ends : Carried(f)'
    BY <1>2, <2>1, FlushKeeps DEF PollComplete
  <2>3. buffered'[e] = NoBody /\ buffered'[Peer(e)] = buffered[Peer(e)]
    BY <2>1, Peers DEF Typed
  <2>4. Sender(e)'
    BY <2>1, <2>3 DEF IndInv, Sender
  <2>5. Results(e)'
    BY <2>1 DEF IndInv, Results
  <2> QED
    BY <2>1, <2>2, <2>3, <2>4, <2>5, Elsewhere
<1>3. ASSUME NEW e \in Ends, Poll(e) PROVE IndInv'
  <2>1. /\ wire[e] # <<>> /\ wire' = [wire EXCEPT ![e] = Tail(@)]
        /\ cmsg' = [cmsg EXCEPT ![e] = RecvCmsg(e)]
        /\ buffered' = buffered /\ raw' = raw /\ use' = use
    BY <1>3 DEF Poll
  <2>2. Carried(e) /\ Carried(Peer(e)) /\ Peer(e) \in Ends
    BY Peers DEF IndInv
  <2>3. \A f \in Ends : Carried(f)'
    BY <2>1, <2>2, CarriedTail
  <2>4. Sender(e)' /\ Results(e)'
    BY <1>3, PollKeeps
  <2>5. /\ table'[Peer(e)] = table[Peer(e)] /\ owned'[Peer(e)] = owned[Peer(e)]
        /\ outcome'[Peer(e)] = outcome[Peer(e)]
    <3>1. CASE Head(wire[e]).body.size = 0
      BY <1>3, <3>1, Peers DEF Poll, Report, Typed
    <3>2. CASE Head(wire[e]).body.size # 0
      <4>1. Deserialize(e, Head(wire[e]).body, RecvCmsg(e), RecvTable(e))
        BY <1>3, <3>2 DEF Poll
      <4>2. /\ Head(wire[e]).body \in Bodies
            /\ RecvTable(e) \in [Fds -> Resources] /\ RecvCmsg(e) \in Cmsgs
        BY <2>1, RecvDoes DEF Messages
      <4>3. /\ table' = [table EXCEPT ![e] = table'[e]]
            /\ owned' = [owned EXCEPT ![e] = owned'[e]]
            /\ outcome' = [outcome EXCEPT ![e] = outcome'[e]]
        BY <4>1, <4>2, DeserializeTyped
      <4> QED
        BY <4>3, Peers DEF Typed
    <3> QED
      BY <3>1, <3>2
  <2>6. cmsg'[Peer(e)] = cmsg[Peer(e)]
    BY <2>1, Peers DEF Typed
  <2> QED
    BY <2>1, <2>3, <2>4, <2>5, <2>6, Elsewhere
<1>4. ASSUME NEW e \in Ends, PollEmpty(e) PROVE IndInv'
  <2>1. /\ cmsg' = [cmsg EXCEPT ![e] = [ResetFdCount(cmsg[e]) EXCEPT !.present = ~Ended(e)]]
        /\ outcome' = [outcome EXCEPT ![e] = Outcome("eof", TRUE)] \/ outcome' = outcome
        /\ table' = table /\ owned' = owned /\ buffered' = buffered /\ wire' = wire
        /\ raw' = raw /\ use' = use /\ (use = "flush_first" => buffered[e] = NoBody)
    BY <1>4 DEF PollEmpty, MayRead
  <2>2. cmsg[e] \in Cmsgs /\ Ended(e) \in BOOLEAN
    BY Peers DEF Typed, Ended
  <2>3. [ResetFdCount(cmsg[e]) EXCEPT !.present = ~Ended(e)].fds = cmsg[e].fds
    <3>1. ResetFdCount(cmsg[e]) \in Cmsgs /\ ResetFdCount(cmsg[e]).fds = cmsg[e].fds
      BY <2>2, Reset
    <3>2. \A b \in BOOLEAN : [ResetFdCount(cmsg[e]) EXCEPT !.present = ~b].fds = cmsg[e].fds
      BY <3>1, PresentSet
    <3> QED
      BY <2>2, <3>2
  <2>4. cmsg'[e].fds = cmsg[e].fds /\ cmsg'[Peer(e)] = cmsg[Peer(e)]
    BY <2>1, <2>3, Peers DEF Typed
  <2>5. Sender(e)'
    <3>1. Sender(e)
      BY DEF IndInv
    <3>2. Fits(buffered[e]) => Fits(buffered[e])'
      BY <2>1 DEF Fits
    <3> QED
      BY <2>1, <2>4, <3>1, <3>2 DEF Sender
  <2>6. Results(e)'
    BY <2>1 DEF IndInv, Results, Outcome, Typed
  <2>7. outcome'[Peer(e)] = outcome[Peer(e)]
    BY <2>1, Peers DEF Typed
  <2>8. \A f \in Ends : Carried(f)'
    BY <2>1, CarriedKept DEF IndInv
  <2> QED
    BY <2>1, <2>4, <2>5, <2>6, <2>7, <2>8, Elsewhere
<1>5. ASSUME NEW e \in Ends, RawWrite(e) PROVE IndInv'
  <2>1. raw /\ raw' = raw /\ use' = use /\ UNCHANGED <<table, owned, cmsg, buffered, outcome>>
    BY <1>5 DEF RawWrite
  <2>2. \A f \in Ends : Carried(f)'
    BY <2>1 DEF Carried
  <2> QED
    BY <2>1, <2>2, OnlyWires
<1>6. ASSUME NEW e \in Ends, RawRead(e) PROVE IndInv'
  <2>1. /\ raw /\ wire[e] # <<>>
        /\ cmsg' = [cmsg EXCEPT ![e] = RecvCmsg(e)]
        /\ table' = [table EXCEPT ![e] = RecvTable(e)]
        /\ owned' = owned /\ buffered' = buffered /\ outcome' = outcome
        /\ raw' = raw /\ use' = use
    BY <1>6 DEF RawRead
  <2>2. \A f \in Ends : Carried(f)'
    BY <2>1 DEF Carried
  <2>3. /\ table'[e] = RecvTable(e) /\ cmsg'[e] = RecvCmsg(e)
        /\ table'[Peer(e)] = table[Peer(e)] /\ cmsg'[Peer(e)] = cmsg[Peer(e)]
    BY <2>1, Peers DEF Typed
  <2>4. use # "bytes" /\ buffered[e] = NoBody
    BY <2>1 DEF IndInv, Modes, Sender
  <2>5. {} \in SUBSET Fds /\ owned'[e] = owned[e] \cup {} /\ buffered'[e] = buffered[e]
    BY <2>1
  <2>6. Sender(e)'
    BY <2>1, <2>3, <2>4, <2>5, RecvKeeps
  <2>7. Results(e)'
    BY <2>1 DEF IndInv, Results
  <2> QED
    BY <2>1, <2>2, <2>3, <2>6, <2>7, Elsewhere
<1>7. ASSUME NEW e \in Ends, RawShutdown(e) PROVE IndInv'
  <2>1. UNCHANGED <<table, owned, cmsg, buffered, wire, raw, use, outcome>>
    BY <1>7 DEF RawShutdown
  <2>2. \A f \in Ends : Carried(f)'
    BY <2>1, CarriedKept DEF IndInv
  <2> QED
    BY <2>1, <2>2, OnlyWires
<1>8. ASSUME NEW e \in Ends, DropChannel(e) PROVE IndInv'
  <2>1. /\ buffered' = [buffered EXCEPT ![e] = NoBody] /\ wire' = [wire EXCEPT ![e] = <<>>]
        /\ UNCHANGED <<table, owned, cmsg, raw, use, outcome>>
    BY <1>8 DEF DropChannel
  <2>2. buffered'[e] = NoBody /\ buffered'[Peer(e)] = buffered[Peer(e)]
    BY <2>1, Peers DEF Typed
  <2>3. wire'[e] = <<>> /\ wire'[Peer(e)] = wire[Peer(e)]
    BY <2>1, Peers DEF Typed
  <2>4. Carried(Peer(e))'
    BY <2>1, <2>3, CarriedKept, Peers DEF IndInv
  <2>5. \A f \in Ends : Carried(f)'
    BY <2>3, <2>4, Peers DEF Carried
  <2>6. Sender(e)'
    BY <2>1, <2>2 DEF IndInv, Sender
  <2>7. Results(e)'
    BY <2>1 DEF IndInv, Results
  <2> QED
    BY <2>1, <2>2, <2>5, <2>6, <2>7, Elsewhere
<1>9. ASSUME NEW e \in Ends, NEW f \in owned[e], DropFile(e, f) PROVE IndInv'
  <2>1. /\ table' = [table EXCEPT ![e] = [table[e] EXCEPT ![f] = NotOpen]]
        /\ owned' = [owned EXCEPT ![e] = @ \ {f}]
        /\ cmsg' = cmsg /\ buffered' = buffered /\ wire' = wire /\ outcome' = outcome
        /\ raw' = raw /\ use' = use
    BY <1>9 DEF DropFile
  <2>2. /\ table'[e] = [table[e] EXCEPT ![f] = NotOpen]
        /\ table[e] \in [Fds -> Resources] /\ owned'[e] = owned[e] \ {f}
        /\ table'[Peer(e)] = table[Peer(e)] /\ owned'[Peer(e)] = owned[Peer(e)]
    BY <2>1, Peers DEF Typed
  <2>3. \A g \in Fds : g # f => table'[e][g] = table[e][g]
    BY <2>2
  <2>4. Sender(e) /\ cmsg[e] \in Cmsgs /\ owned[e] \subseteq Fds
    BY DEF IndInv, Typed
  <2>5. use = "flush_first"
    BY <2>4 DEF IndInv, Modes, Sender
  <2>6. table'[e][0] # NotOpen /\ \A g \in owned'[e] : g # 0 /\ table'[e][g] # NotOpen
    BY <2>2, <2>3, <2>4, Numbers DEF Sender
  <2>7. Holding(e) => Holding(e)'
    <3>1. \A i \in 1 .. cmsg[e].count : cmsg[e].fds[i] \in Fds
      BY <2>4, Numbers DEF Cmsgs
    <3> QED
      BY <2>1, <2>2, <2>3, <3>1 DEF Holding
  <2>8. Fits(buffered[e]) => Fits(buffered[e])'
    BY <2>1 DEF Fits
  <2>9. Sender(e)'
    BY <2>1, <2>4, <2>5, <2>6, <2>7, <2>8 DEF Sender
  <2>10. Results(e)'
    BY <2>1 DEF IndInv, Results
  <2>11. \A g \in Ends : Carried(g)'
    BY <2>1, CarriedKept DEF IndInv
  <2> QED
    BY <2>1, <2>2, <2>9, <2>10, <2>11, Elsewhere
<1>10. CASE FromRaw
  <2>1. /\ \A e \in Ends : wire'[e] = <<>>
        /\ UNCHANGED <<table, owned, cmsg, buffered, use, outcome>> /\ (raw' => raw)
    BY <1>10 DEF FromRaw
  <2>2. \A e \in Ends : Carried(e)'
    BY <2>1 DEF Carried
  <2> QED
    BY <2>1, <2>2, OnlyWires
<1>11. CASE UNCHANGED vars
  <2>1. UNCHANGED <<table, owned, cmsg, buffered, wire, raw, use, outcome>>
    BY <1>11 DEF vars
  <2>2. \A f \in Ends : Carried(f)'
    BY <2>1, CarriedKept DEF IndInv
  <2> QED
    BY <2>1, <2>2, OnlyWires
<1> QED
  BY <1>1, <1>2, <1>3, <1>4, <1>5, <1>6, <1>7, <1>8, <1>9, <1>10, <1>11 DEF Next

LEMMA AlwaysInv == ASSUME Disciplined PROVE Spec => []IndInv
<1>1. Init => IndInv
  BY InitInv
<1>2. Typed /\ IndInv /\ [Next]_vars => IndInv'
  BY StepInv
<1> QED
  BY <1>1, <1>2, AlwaysTyped, PTL DEF Spec

\* What a message brings along are its own descriptors, one copy for each pass of
\* the serializer, although poll and start_send share one control message.
THEOREM RightsMatchHolds ==
  ASSUME Disciplined
  PROVE  Spec => []RightsMatch
<1>1. IndInv => RightsMatch
  BY DEF IndInv, Modes, Carried, Carries, Copies, RightsMatch
<1> QED
  BY <1>1, AlwaysInv, PTL

\* The duplicates that send makes stay open until the message was sent, whatever
\* its user drops meanwhile.
THEOREM BufferedSendableHolds ==
  ASSUME Disciplined
  PROVE  Spec => []BufferedSendable
<1>1. Typed /\ IndInv => BufferedSendable
  <2> SUFFICES ASSUME Typed, IndInv, NEW e \in Ends, buffered[e] # NoBody, cmsg[e].present,
                      NEW i \in 1 .. cmsg[e].count
               PROVE  table[e][cmsg[e].fds[i]] # NotOpen
    BY DEF BufferedSendable, Attached
  <2>1. i \in 1 .. MaxFds
    BY Numbers DEF Typed, Cmsgs
  <2> QED
    BY <2>1 DEF IndInv, Modes, Sender, Holding
<1> QED
  BY <1>1, AlwaysTyped, AlwaysInv, PTL

\* poll refuses no message: every index of a body is in the range of the control
\* message, and the descriptor there is open.
THEOREM NothingRefusedHolds ==
  ASSUME Disciplined
  PROVE  Spec => []NothingRefused
<1>1. IndInv => NothingRefused
  BY DEF IndInv, Results, NothingRefused
<1> QED
  BY <1>1, AlwaysInv, PTL

\* A value that poll returns has the very files that start_send was given.
THEOREM ReceivedIntactHolds ==
  ASSUME Disciplined
  PROVE  Spec => []ReceivedIntact
<1>1. IndInv => ReceivedIntact
  BY DEF IndInv, Results, ReceivedIntact
<1> QED
  BY <1>1, AlwaysInv, PTL
=============================================================================
