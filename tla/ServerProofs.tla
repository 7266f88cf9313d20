---------------------------- MODULE ServerProofs -----------------------------
(***************************************************************************)
(* Proofs about Server, for every number of connections and descriptors,   *)
(* every sequence of frames, and all sizes of the buffers.                 *)
(***************************************************************************)
EXTENDS Server, DataLemmas

\* A connection has one socket at most, and that is open.
SocketsApart ==
  /\ \A f, g \in Fds : sock[f] # None /\ sock[f] = sock[g] => f = g
  /\ \A f \in Fds : sock[f] # None => state[sock[f]] \in {"open", "fin", "reset"}

\* A connection is accepted once.
BacklogApart ==
  /\ \A i, j \in 1..Len(backlog) : backlog[i] = backlog[j] => i = j
  /\ \A i \in 1..Len(backlog) :
       /\ state[backlog[i]] \in {"pending", "fin", "reset"}
       /\ \A f \in Fds : sock[f] # backlog[i]

\* The poll set has an entry for each descriptor once; none of them is closed
\* before its turn, and index stays inside.
InRound == {"poll", "accept", "loop", "read", "write"}

RoundValid ==
  /\ Len(owner) = Len(pollset)
  /\ Len(pollset) <= Cardinality(Fds)
  /\ pc \in InRound =>
       \A i, j \in 1..Len(pollset) : pollset[i].fd = pollset[j].fd => i = j
  /\ pc \in {"init", "build", "poll", "accept"} => index = 1
  /\ pc \in {"poll", "accept"} =>
       \A i \in 1..Len(pollset) : clients[pollset[i].fd] # None
  /\ pc = "loop" => index <= Len(pollset) + 1
  /\ pc \in {"read", "write"} =>
       index <= Len(pollset) /\ clients[pollset[index].fd] # None

OwnersKept ==
  pc \in InRound =>
    \A i \in index..Len(pollset) :
      clients[pollset[i].fd] # None => sock[pollset[i].fd] = owner[i]

-----------------------------------------------------------------------------
(* What is known of one connection.                                        *)

In(c) == Buffer(c, "in")
Out(c) == Buffer(c, "out")

\* The replies answer the frames of c that follow the first from ones, and then
\* noise; complete is how many there are to answer.
Numbered(c, replies, from, complete) ==
  \A i \in 1..Len(replies) :
    replies[i] = [conn |-> c, n |-> IF from + i <= complete THEN from + i ELSE 0]

RepliesNumbered(c, had, away, out, complete) ==
  /\ Numbered(c, had, 0, complete)
  /\ Numbered(c, away, Len(had), complete)
  /\ Numbered(c, out, Len(had) + Len(away), complete)

\* The frames that end in units follow the first from ones.
Contiguous(units, from) ==
  \A i \in 1..Len(units) : units[i].last => units[i].n = from + 1 + Completed(units, i - 1)

Whole(units) == Completed(units, Len(units))

NoneEnds(units) == \A i \in 1..Len(units) : ~units[i].last

NoiseBehind(units) ==
  \A i, j \in 1..Len(units) : i <= j /\ units[i].n = 0 => ~units[j].last

\* The socket holds the frames without an answer, from the next one on and without
\* a gap, noise is behind them, and there are more answers than frames only when
\* nothing but noise is left.
UnitsContiguous(answered, in, unread, complete, malformed) ==
  /\ Contiguous(unread, answered)
  /\ NoiseBehind(unread)
  /\ IsNoisy(in) => NoneEnds(unread)
  /\ IsNoisy(in) \/ IsNoisy(unread) => malformed
  /\ \/ answered + Whole(unread) = complete
     \/ malformed /\ answered >= complete /\ NoneEnds(unread)

\* The replies a peer had, those on their way and those in the output buffer; the
\* units in the input buffer and the unread ones; the kinds of the frames the peer
\* sent and how much of the last is left to send.
ConnValid(c, had, away, out, in, unread, status, kinds, left) ==
  /\ RepliesNumbered(c, had, away, out, Complete(kinds, left))
  /\ NoneEnds(in)
  /\ status # "closed" =>
       UnitsContiguous(Len(had) + Len(away) + Len(out), in, unread,
                       Complete(kinds, left), Malformed(kinds))
  /\ Len(kinds) <= MaxFrames
  /\ left > 0 => Len(kinds) > 0 /\ ~Malformed(kinds)
  /\ status = "new" => unread = <<>>

ConnInv(c) ==
  ConnValid(c, got[c], snd[c], Out(c), In(c), rcv[c], state[c], sent[c], rest[c])

IInv ==
  /\ TypeOK
  /\ SocketsApart
  /\ BacklogApart
  /\ RoundValid
  /\ OwnersKept
  /\ \A c \in Conns : ConnInv(c)

-----------------------------------------------------------------------------
(* Counting frames.                                                        *)

\* One unit more completes a frame when it is the last of it.
LEMMA CompletedStep ==
  ASSUME NEW units, NEW n \in Nat
  PROVE  /\ Completed(units, n) \in Nat
         /\ Completed(units, 0) = 0
         /\ units[n + 1].last => Completed(units, n + 1) = Completed(units, n) + 1
         /\ ~units[n + 1].last => Completed(units, n + 1) = Completed(units, n)
<1>. DEFINE ends(m) == {i \in 1..m : units[i].last}
<1>1. ASSUME NEW m \in Nat PROVE IsFiniteSet(ends(m)) /\ Cardinality(ends(m)) \in Nat
  <2>1. IsFiniteSet(1..m)
    BY FS_Interval
  <2>2. ends(m) \in SUBSET (1..m)
    OBVIOUS
  <2>. HIDE DEF ends
  <2>. QED  BY <2>1, <2>2, FS_Subset, FS_CardinalityType
<1>2. ends(0) = {}
  OBVIOUS
<1>3. CASE units[n + 1].last
  <2>1. ends(n + 1) = ends(n) \cup {n + 1} /\ n + 1 \notin ends(n)
    BY <1>3
  <2>2. IsFiniteSet(ends(n))
    BY <1>1
  <2>3. Cardinality(ends(n + 1)) = Cardinality(ends(n)) + 1
    <3>. HIDE DEF ends
    <3>. QED  BY <2>1, <2>2, FS_AddElement
  <2>4. Completed(units, n + 1) = Completed(units, n) + 1
    BY <2>3 DEF Completed
  <2>5. Completed(units, n) \in Nat /\ Completed(units, 0) = 0
    BY <1>1, <1>2, FS_EmptySet DEF Completed
  <2>. QED  BY <1>3, <2>4, <2>5
<1>4. CASE ~units[n + 1].last
  <2>1. ends(n + 1) = ends(n)
    BY <1>4
  <2>. QED  BY <1>1, <1>2, <1>4, <2>1, FS_EmptySet DEF Completed
<1>. QED  BY <1>3, <1>4

\* Units that agree complete the same frames.
LEMMA CompletedSame ==
  ASSUME NEW s, NEW t, NEW n \in Nat, \A i \in 1..n : s[i] = t[i]
  PROVE  Completed(s, n) = Completed(t, n)
  BY DEF Completed

\* The frames that end in the first k + m units: those in the first k, and
\* those in the m that follow.
LEMMA CompletedSum ==
  ASSUME NEW s, NEW t, NEW k \in Nat, NEW m \in Nat, \A i \in 1..m : t[i] = s[k + i]
  PROVE  Completed(s, k + m) = Completed(s, k) + Completed(t, m)
<1>. DEFINE P == {n \in Nat : n <= m => Completed(s, k + n) = Completed(s, k) + Completed(t, n)}
<1>1. 0 \in P
  BY CompletedStep
<1>2. ASSUME NEW n \in P PROVE n + 1 \in P
  <2>1. CASE n + 1 <= m
    <3>1. t[n + 1] = s[k + (n + 1)] /\ k + (n + 1) = (k + n) + 1
      BY <2>1
    <3>2. Completed(s, k + n) = Completed(s, k) + Completed(t, n)
      BY <2>1
    <3>3. /\ s[(k + n) + 1].last => Completed(s, (k + n) + 1) = Completed(s, k + n) + 1
          /\ ~s[(k + n) + 1].last => Completed(s, (k + n) + 1) = Completed(s, k + n)
          /\ t[n + 1].last => Completed(t, n + 1) = Completed(t, n) + 1
          /\ ~t[n + 1].last => Completed(t, n + 1) = Completed(t, n)
          /\ Completed(s, k) \in Nat /\ Completed(t, n) \in Nat
      BY CompletedStep
    <3>4. Completed(s, k + (n + 1)) = Completed(s, k) + Completed(t, n + 1)
      BY <3>1, <3>2, <3>3
    <3>. QED  BY <3>4
  <2>2. CASE ~(n + 1 <= m)
    BY <2>2
  <2>. QED  BY <2>1, <2>2
<1>3. P = Nat
  <2>1. P \in SUBSET Nat
    OBVIOUS
  <2>. HIDE DEF P
  <2>. QED  BY <1>1, <1>2, <2>1, SetInduction
<1>. QED  BY <1>3

\* The j-th frame that is complete ends at EndOf.
LEMMA EndOfProps ==
  ASSUME NEW units \in Seq(Unit), NEW n \in 0..Len(units), NEW j \in 1..Completed(units, n)
  PROVE  /\ EndOf(units, j) \in 1..Len(units)
         /\ units[EndOf(units, j)].last
         /\ Completed(units, EndOf(units, j)) = j
<1>. DEFINE P == {m \in Nat : \A l \in 1..Completed(units, m) :
                                \E i \in 1..m : units[i].last /\ Completed(units, i) = l}
<1>1. 0 \in P
  BY CompletedStep
<1>2. ASSUME NEW m \in P PROVE m + 1 \in P
  <2>. SUFFICES ASSUME NEW l \in 1..Completed(units, m + 1)
                PROVE  \E i \in 1..(m + 1) : units[i].last /\ Completed(units, i) = l
    OBVIOUS
  <2>1. /\ Completed(units, m) \in Nat
        /\ units[m + 1].last => Completed(units, m + 1) = Completed(units, m) + 1
        /\ ~units[m + 1].last => Completed(units, m + 1) = Completed(units, m)
    BY CompletedStep
  <2>2. CASE l <= Completed(units, m)
    <3>1. l \in 1..Completed(units, m)
      BY <2>1, <2>2
    <3>2. PICK i \in 1..m : units[i].last /\ Completed(units, i) = l
      BY <3>1
    <3>. QED  BY <3>2
  <2>3. CASE ~(l <= Completed(units, m))
    <3>1. units[m + 1].last /\ Completed(units, m + 1) = l
      BY <2>1, <2>3
    <3>. QED  BY <3>1
  <2>. QED  BY <2>2, <2>3
<1>3. P = Nat
  <2>1. P \in SUBSET Nat
    OBVIOUS
  <2>. HIDE DEF P
  <2>. QED  BY <1>1, <1>2, <2>1, SetInduction
<1>4. Len(units) \in Nat
  BY LenProperties
<1>5. PICK i \in 1..n : units[i].last /\ Completed(units, i) = j
  BY <1>3, <1>4
<1>6. i \in 1..Len(units)
  BY <1>4
<1>. QED  BY <1>5, <1>6 DEF EndOf

\* Extraction stops so that no complete frame is left.
LEMMA EndOfExtractedProps ==
  ASSUME NEW in \in Seq(Unit)
  PROVE  /\ EndOfExtracted(in) \in 0..Len(in)
         /\ \A i \in 1..Len(in) : in[i].last => i <= EndOfExtracted(in)
<1>. DEFINE ends == {i \in DOMAIN in : in[i].last}
<1>1. Len(in) \in Nat /\ DOMAIN in = 1..Len(in)
  BY LenProperties
<1>2. CASE ends # {}
  <2>1. EndOfExtracted(in) = CHOOSE i \in ends : \A j \in ends : j <= i
    BY <1>2 DEF EndOfExtracted
  <2>2. ends \in SUBSET Int /\ Len(in) \in Int /\ \A i \in ends : i <= Len(in)
    BY <1>1
  <2>3. \E i \in ends : \A j \in ends : j <= i
    <3>. HIDE DEF ends
    <3>. QED  BY <1>2, <2>2, GreatestElement
  <2>4. EndOfExtracted(in) \in ends /\ \A j \in ends : j <= EndOfExtracted(in)
    <3>. HIDE DEF ends
    <3>. QED  BY <2>1, <2>3
  <2>. QED  BY <1>1, <2>4
<1>3. CASE ends = {}
  <2>1. EndOfExtracted(in) = 0
    BY <1>3 DEF EndOfExtracted
  <2>. QED  BY <1>1, <1>3, <2>1
<1>. QED  BY <1>2, <1>3

\* Units none of which ends a frame complete none.
LEMMA NoneEndsWhole ==
  ASSUME NEW units, Len(units) \in Nat
  PROVE  /\ NoneEnds(units) => Whole(units) = 0 /\ \A from : Contiguous(units, from)
         /\ Whole(units) = 0 => NoneEnds(units)
<1>. DEFINE ends == {i \in 1..Len(units) : units[i].last}
<1>1. IsFiniteSet(ends)
  <2>1. IsFiniteSet(1..Len(units)) /\ ends \in SUBSET (1..Len(units))
    BY FS_Interval
  <2>. HIDE DEF ends
  <2>. QED  BY <2>1, FS_Subset
<1>2. Whole(units) = Cardinality(ends)
  BY DEF Whole, Completed
<1>3. NoneEnds(units) <=> ends = {}
  BY DEF NoneEnds
<1>4. Whole(units) = 0 <=> ends = {}
  <2>. HIDE DEF ends
  <2>. QED  BY <1>1, <1>2, FS_EmptySet
<1>. QED  BY <1>3, <1>4 DEF NoneEnds, Contiguous

-----------------------------------------------------------------------------
(* Buffers that are joined and cut.                                        *)

\* The units of a stream followed by those behind them are numbered without a gap.
LEMMA UnitsJoined ==
  ASSUME NEW s \in Seq(Unit), NEW t \in Seq(Unit), NEW from \in Nat
  PROVE  /\ Whole(s) \in Nat /\ Whole(t) \in Nat
         /\ Whole(s \o t) = Whole(s) + Whole(t)
         /\ Contiguous(s, from) /\ Contiguous(t, from + Whole(s)) =>
              Contiguous(s \o t, from)
<1>1. /\ Len(s) \in Nat /\ Len(t) \in Nat
      /\ Len(s \o t) = Len(s) + Len(t)
      /\ \A i \in 1..Len(s) : (s \o t)[i] = s[i]
      /\ \A i \in 1..Len(t) : t[i] = (s \o t)[Len(s) + i]
  OBVIOUS
<1>2. \A i \in 0..Len(s) : Completed(s \o t, i) = Completed(s, i)
  <2>. TAKE i \in 0..Len(s)
  <2>1. i \in Nat /\ \A j \in 1..i : (s \o t)[j] = s[j]
    BY <1>1
  <2>2. QED  BY <2>1, CompletedSame
<1>3. \A i \in 0..Len(t) :
        Completed(s \o t, Len(s) + i) = Completed(s, Len(s)) + Completed(t, i)
  <2>. TAKE i \in 0..Len(t)
  <2>1. i \in Nat /\ \A j \in 1..i : t[j] = (s \o t)[Len(s) + j]
    BY <1>1
  <2>2. Completed(s \o t, Len(s) + i) = Completed(s \o t, Len(s)) + Completed(t, i)
    <3>. HIDE <1>1
    <3>. DEFINE st == s \o t
    <3>1. Len(s) \in Nat /\ \A j \in 1..i : t[j] = st[Len(s) + j]
      BY <1>1, <2>1
    <3>. HIDE DEF st
    <3>2. Completed(st, Len(s) + i) = Completed(st, Len(s)) + Completed(t, i)
      BY <2>1, <3>1, CompletedSum
    <3>. QED  BY <3>2 DEF st
  <2>3. Len(s) \in 0..Len(s)
    BY <1>1
  <2>4. QED  BY <1>2, <2>2, <2>3
<1>4. Whole(s) \in Nat /\ Whole(t) \in Nat
  BY <1>1, CompletedStep DEF Whole
<1>5. Whole(s \o t) = Whole(s) + Whole(t)
  <2>1. Len(t) \in 0..Len(t)
    BY <1>1
  <2>2. QED  BY <1>1, <1>3, <2>1 DEF Whole
<1>6. ASSUME Contiguous(s, from), Contiguous(t, from + Whole(s))
      PROVE  Contiguous(s \o t, from)
  <2>. DEFINE st == s \o t
  <2>1. ASSUME NEW i \in 1..Len(s), st[i].last
        PROVE  st[i].n = from + 1 + Completed(st, i - 1)
    <3>1. i - 1 \in 0..Len(s) /\ st[i] = s[i]
      BY <1>1
    <3>2. s[i].n = from + 1 + Completed(s, i - 1)
      BY <1>6, <2>1, <3>1 DEF Contiguous
    <3>3. Completed(st, i - 1) = Completed(s, i - 1)
      BY <1>2, <3>1
    <3>. QED  BY <3>1, <3>2, <3>3
  <2>2. ASSUME NEW i \in 1..Len(t), st[Len(s) + i].last
        PROVE  st[Len(s) + i].n = from + 1 + Completed(st, Len(s) + i - 1)
    <3>1. /\ i - 1 \in 0..Len(t) /\ st[Len(s) + i] = t[i]
          /\ Len(s) + i - 1 = Len(s) + (i - 1) /\ i - 1 \in Nat
      BY <1>1
    <3>2. t[i].n = from + Whole(s) + 1 + Completed(t, i - 1)
      BY <1>6, <2>2, <3>1 DEF Contiguous
    <3>3. Completed(st, Len(s) + (i - 1)) = Whole(s) + Completed(t, i - 1)
      BY <1>3, <3>1 DEF Whole
    <3>4. Completed(t, i - 1) \in Nat
      BY <3>1, CompletedStep
    <3>. HIDE DEF st
    <3>. QED  BY <1>4, <3>1, <3>2, <3>3, <3>4
  <2>3. ASSUME NEW i \in 1..Len(st), st[i].last
        PROVE  st[i].n = from + 1 + Completed(st, i - 1)
    <3>1. CASE i \in 1..Len(s)
      BY <2>1, <2>3, <3>1
    <3>2. CASE i \notin 1..Len(s)
      <4>1. i - Len(s) \in 1..Len(t) /\ i = Len(s) + (i - Len(s))
        BY <1>1, <3>2
      <4>2. PICK j \in 1..Len(t) : i = Len(s) + j
        BY <4>1
      <4>. HIDE DEF st
      <4>. QED  BY <2>2, <2>3, <4>2
    <3>. QED  BY <3>1, <3>2
  <2>. QED  BY <2>3 DEF Contiguous
<1>. QED  BY <1>4, <1>5, <1>6

\* So are both parts of what is cut.
LEMMA UnitsCut ==
  ASSUME NEW s \in Seq(Unit), NEW k \in 0..Len(s), NEW from \in Nat
  PROVE  LET a == SubSeq(s, 1, k)
             b == SubSeq(s, k + 1, Len(s))
         IN /\ Whole(a) \in Nat /\ Whole(b) \in Nat
            /\ Whole(a) = Completed(s, k)
            /\ Whole(s) = Whole(a) + Whole(b)
            /\ Contiguous(s, from) => Contiguous(a, from) /\ Contiguous(b, from + Whole(a))
<1>. DEFINE a == SubSeq(s, 1, k)
            b == SubSeq(s, k + 1, Len(s))
<1>1. /\ Len(s) \in Nat /\ k \in Nat /\ k <= Len(s)
      /\ Len(a) = k /\ \A i \in 1..k : a[i] = s[i]
      /\ Len(b) = Len(s) - k /\ \A i \in 1..(Len(s) - k) : b[i] = s[k + i]
  BY CutSeq
<1>. HIDE DEF a, b
<1>2. \A i \in 0..k : Completed(a, i) = Completed(s, i)
  <2>. TAKE i \in 0..k
  <2>1. i \in Nat /\ \A j \in 1..i : a[j] = s[j]
    BY <1>1
  <2>2. QED  BY <2>1, CompletedSame
<1>3. \A i \in 0..(Len(s) - k) : Completed(s, k + i) = Completed(s, k) + Completed(b, i)
  <2>. TAKE i \in 0..(Len(s) - k)
  <2>1. k \in Nat /\ i \in Nat /\ \A j \in 1..i : b[j] = s[k + j]
    BY <1>1
  <2>2. QED  BY <2>1, CompletedSum
<1>4. /\ Whole(a) = Completed(s, k) /\ Whole(a) \in Nat
      /\ Whole(b) \in Nat /\ Whole(s) = Whole(a) + Whole(b)
  <2>1. k \in 0..k /\ Len(s) - k \in 0..(Len(s) - k) /\ k + (Len(s) - k) = Len(s)
    BY <1>1
  <2>2. Completed(s, k) \in Nat /\ Completed(b, Len(b)) \in Nat
    BY <1>1, CompletedStep
  <2>3. Completed(a, k) = Completed(s, k)
    BY <1>2, <2>1
  <2>4. Completed(s, Len(s)) = Completed(s, k) + Completed(b, Len(s) - k)
    BY <1>3, <2>1
  <2>. QED  BY <1>1, <2>2, <2>3, <2>4 DEF Whole
<1>5. ASSUME Contiguous(s, from) PROVE Contiguous(a, from)
  <2>. SUFFICES ASSUME NEW i \in 1..Len(a), a[i].last
                PROVE  a[i].n = from + 1 + Completed(a, i - 1)
    BY DEF Contiguous
  <2>1. /\ i \in 1..Len(s) /\ i - 1 \in 0..k /\ a[i] = s[i]
    BY <1>1
  <2>2. s[i].n = from + 1 + Completed(s, i - 1)
    BY <1>5, <2>1 DEF Contiguous
  <2>3. Completed(a, i - 1) = Completed(s, i - 1)
    BY <1>2, <2>1
  <2>. QED  BY <2>1, <2>2, <2>3
<1>6. ASSUME Contiguous(s, from) PROVE Contiguous(b, from + Whole(a))
  <2>. SUFFICES ASSUME NEW i \in 1..Len(b), b[i].last
                PROVE  b[i].n = from + Whole(a) + 1 + Completed(b, i - 1)
    BY DEF Contiguous
  <2>1. /\ k + i \in 1..Len(s) /\ i - 1 \in 0..(Len(s) - k) /\ i \in 1..(Len(s) - k)
        /\ (k + i) - 1 = k + (i - 1) /\ i - 1 \in Nat /\ s[k + i].last
    BY <1>1
  <2>2. s[k + i].n = from + 1 + Completed(s, (k + i) - 1)
    BY <1>6, <2>1 DEF Contiguous
  <2>3. Completed(s, k + (i - 1)) = Completed(s, k) + Completed(b, i - 1)
    BY <1>3, <2>1
  <2>4. Completed(b, i - 1) \in Nat /\ b[i] = s[k + i]
    BY <1>1, <2>1, CompletedStep
  <2>5. b[i].n = from + 1 + Completed(s, k + (i - 1))
    BY <2>1, <2>2, <2>4
  <2>6. Completed(s, k + (i - 1)) = Whole(a) + Completed(b, i - 1) /\ Whole(a) \in Nat
    BY <1>4, <2>3
  <2>7. from + 1 + (Whole(a) + Completed(b, i - 1)) = from + Whole(a) + 1 + Completed(b, i - 1)
    BY <2>4, <2>6
  <2>. QED  BY <2>5, <2>6, <2>7
<1>. QED  BY <1>4, <1>5, <1>6 DEF a, b

\* The same of replies that follow one another,
LEMMA RepliesJoined ==
  ASSUME NEW c, NEW S, NEW s \in Seq(S), NEW t \in Seq(S), NEW from \in Nat, NEW complete,
         Numbered(c, s, from, complete), Numbered(c, t, from + Len(s), complete)
  PROVE  Numbered(c, s \o t, from, complete)
<1>. DEFINE answer(i) == [conn |-> c, n |-> IF i <= complete THEN i ELSE 0]
<1>1. /\ \A i \in 1..Len(s) : s[i] = answer(from + i)
      /\ \A i \in 1..Len(t) : t[i] = answer(from + Len(s) + i)
  BY DEF Numbered
<1>2. Numbered(c, s \o t, from, complete) <=>
        \A i \in 1..Len(s \o t) : (s \o t)[i] = answer(from + i)
  BY DEF Numbered
<1>. HIDE DEF answer
<1>3. Len(s) \in Nat /\ Len(t) \in Nat /\ Len(s \o t) = Len(s) + Len(t)
  OBVIOUS
<1>4. ASSUME NEW i \in 1..Len(s \o t) PROVE (s \o t)[i] = answer(from + i)
  <2>1. CASE i \in 1..Len(s)
    BY <1>1, <2>1
  <2>2. CASE i \notin 1..Len(s)
    <3>1. i - Len(s) \in 1..Len(t) /\ from + Len(s) + (i - Len(s)) = from + i
      BY <1>3, <2>2
    <3>2. (s \o t)[i] = t[i - Len(s)]
      BY <1>3, <2>2
    <3>. QED  BY <1>1, <3>1, <3>2
  <2>. QED  BY <2>1, <2>2
<1>. QED  BY <1>2, <1>4

\* of both parts of replies that are cut,
LEMMA RepliesCut ==
  ASSUME NEW c, NEW s \in Seq(Reply), NEW k \in 0..Len(s), NEW from \in Nat, NEW complete,
         Numbered(c, s, from, complete)
  PROVE  /\ Numbered(c, SubSeq(s, 1, k), from, complete)
         /\ Numbered(c, SubSeq(s, k + 1, Len(s)), from + k, complete)
<1>. DEFINE a == SubSeq(s, 1, k)
            b == SubSeq(s, k + 1, Len(s))
            answer(i) == [conn |-> c, n |-> IF i <= complete THEN i ELSE 0]
<1>1. /\ Len(s) \in Nat /\ k \in Nat /\ k <= Len(s)
      /\ Len(a) = k /\ \A i \in 1..k : a[i] = s[i]
      /\ Len(b) = Len(s) - k /\ \A i \in 1..(Len(s) - k) : b[i] = s[k + i]
  BY CutSeq
<1>. HIDE DEF a, b
<1>2. \A i \in 1..Len(s) : s[i] = answer(from + i)
  BY DEF Numbered
<1>3. \A r, f : Numbered(c, r, f, complete) <=> \A i \in 1..Len(r) : r[i] = answer(f + i)
  BY DEF Numbered
<1>. HIDE DEF answer
<1>4. \A i \in 1..Len(a) : a[i] = answer(from + i)
  <2>. TAKE i \in 1..Len(a)
  <2>1. i \in 1..Len(s) /\ i \in 1..k
    BY <1>1
  <2>2. QED  BY <1>1, <1>2, <2>1
<1>5. \A i \in 1..Len(b) : b[i] = answer(from + k + i)
  <2>. TAKE i \in 1..Len(b)
  <2>1. k + i \in 1..Len(s) /\ i \in 1..(Len(s) - k) /\ from + (k + i) = from + k + i
    BY <1>1
  <2>2. QED  BY <1>1, <1>2, <2>1
<1>. QED  BY <1>3, <1>4, <1>5 DEF a, b

\* and of replies that were given before there was a frame more.
LEMMA RepliesStay ==
  ASSUME NEW c, NEW s, Len(s) \in Nat, NEW from \in Nat, NEW complete \in Nat,
         NEW complete1 \in Nat, complete <= complete1, from + Len(s) <= complete,
         Numbered(c, s, from, complete)
  PROVE  Numbered(c, s, from, complete1)
<1>. SUFFICES ASSUME NEW i \in 1..Len(s)
              PROVE  s[i] = [conn |-> c, n |-> IF from + i <= complete1 THEN from + i ELSE 0]
  BY DEF Numbered
<1>1. from + i <= complete /\ from + i <= complete1
  OBVIOUS
<1>2. s[i] = [conn |-> c, n |-> IF from + i <= complete THEN from + i ELSE 0]
  BY DEF Numbered
<1>. QED  BY <1>1, <1>2

\* The j-th frame that ends in units is the j-th behind the first from ones.
LEMMA FrameEnds ==
  ASSUME NEW units \in Seq(Unit), NEW from \in Nat, Contiguous(units, from),
         NEW n \in 0..Len(units), NEW j \in 1..Completed(units, n)
  PROVE  \E i \in 1..Len(units) : /\ i = EndOf(units, j) /\ units[i].last
                                 /\ units[i] \in Unit /\ units[i].n = from + j
<1>1. PICK i \in 1..Len(units) :
        i = EndOf(units, j) /\ units[i].last /\ Completed(units, i) = j
  BY EndOfProps
<1>2. units[i].n = from + 1 + Completed(units, i - 1)
  BY <1>1 DEF Contiguous
<1>3. i - 1 \in Nat /\ (i - 1) + 1 = i /\ units[i] \in Unit
  BY LenProperties, ElementOfSeq
<1>4. Completed(units, (i - 1) + 1) = Completed(units, i - 1) + 1 /\ Completed(units, i - 1) \in Nat
  BY <1>1, <1>3, CompletedStep
<1>5. Completed(units, i) = Completed(units, i - 1) + 1
  BY <1>3, <1>4
<1>6. units[i].n = from + j
  BY <1>1, <1>2, <1>4, <1>5
<1>. QED  BY <1>1, <1>3, <1>6

\* Extraction answers the complete frames, each once and in order, and then noise;
\* none of them is left.
LEMMA Extraction ==
  ASSUME NEW c \in Conns, NEW in \in Seq(Unit), NEW from \in Nat, NEW complete \in Nat,
         Contiguous(in, from), Whole(in) = 0 \/ from + Whole(in) <= complete,
         NEW skip \in 0..(Len(in) - EndOfExtracted(in)), NEW errors \in Nat,
         errors > 0 => from + Whole(in) >= complete, NEW total, total = Whole(in) + errors
  PROVE  /\ Replies(c, Frames(in), errors) \in Seq(Reply)
         /\ Len(Replies(c, Frames(in), errors)) = total
         /\ Numbered(c, Replies(c, Frames(in), errors), from, complete)
         /\ Left(in, skip) \in Seq(Unit)
         /\ NoneEnds(Left(in, skip))
         /\ IsNoisy(Left(in, skip)) => IsNoisy(in)
<1>. DEFINE e == EndOfExtracted(in)
            k == Completed(in, e)
            frames == Frames(in)
            first == [i \in DOMAIN frames |-> [conn |-> c, n |-> frames[i].n]]
            second == [i \in 1..errors |-> [conn |-> c, n |-> 0]]
<1>1. /\ Len(in) \in Nat /\ e \in 0..Len(in) /\ e \in Nat
      /\ \A i \in 1..Len(in) : in[i].last => i <= e
      /\ \A i \in 1..Len(in) : in[i] \in Unit
  BY EndOfExtractedProps, LenProperties, ElementOfSeq
<1>2. k \in Nat /\ k = Whole(in)
  <2>. DEFINE a == SubSeq(in, 1, e)
              b == SubSeq(in, e + 1, Len(in))
  <2>1. /\ Whole(a) = k /\ Whole(in) = Whole(a) + Whole(b)
        /\ Whole(a) \in Nat /\ Whole(b) \in Nat
    BY <1>1, UnitsCut
  <2>2. Len(b) = Len(in) - e /\ \A i \in 1..(Len(in) - e) : b[i] = in[e + i]
    BY <1>1, CutSeq
  <2>. HIDE DEF a, b
  <2>3. Len(b) \in Nat /\ NoneEnds(b)
    <3>1. \A i \in 1..(Len(in) - e) : e + i \in 1..Len(in) /\ ~(e + i <= e)
      BY <1>1
    <3>2. \A i \in 1..(Len(in) - e) : ~in[e + i].last
      BY <1>1, <3>1
    <3>. QED  BY <1>1, <2>2, <3>2 DEF NoneEnds
  <2>4. Whole(b) = 0
    BY <2>3, NoneEndsWhole
  <2>. QED  BY <2>1, <2>4
<1>3. frames = [j \in 1..k |-> in[EndOf(in, j)]]
  BY DEF Frames
<1>4. ASSUME NEW j \in 1..k
      PROVE  frames[j].n = from + j /\ from + j \in 0..MaxFrames
  <2>1. PICK i \in 1..Len(in) : i = EndOf(in, j) /\ in[i] \in Unit /\ in[i].n = from + j
    BY <1>1, FrameEnds
  <2>. QED  BY <1>3, <2>1 DEF Unit
<1>. HIDE DEF k, e, frames
<1>5. DOMAIN frames = 1..k
  BY <1>3
<1>6. /\ first \in Seq(Reply) /\ Len(first) = k
      /\ \A i \in 1..k : first[i] = [conn |-> c, n |-> from + i]
  <2>1. \A i \in 1..k : [conn |-> c, n |-> frames[i].n] \in Reply
    BY <1>4 DEF Reply
  <2>2. first \in [1..k -> Reply]
    BY <1>5, <2>1
  <2>3. \A i \in 1..k : first[i] = [conn |-> c, n |-> from + i]
    BY <1>4, <1>5
  <2>. HIDE DEF first
  <2>4. first \in Seq(Reply)
    BY <1>2, <2>2, SeqDef
  <2>5. Len(first) = k
    BY <1>2, <2>2, <2>4, LenProperties
  <2>. QED  BY <2>3, <2>4, <2>5
<1>7. /\ second \in Seq(Reply) /\ Len(second) = errors
      /\ \A i \in 1..errors : second[i] = [conn |-> c, n |-> 0]
  <2>1. [conn |-> c, n |-> 0] \in Reply
    BY ServerAssumption DEF Reply
  <2>2. second \in [1..errors -> Reply] /\ \A i \in 1..errors : second[i] = [conn |-> c, n |-> 0]
    BY <2>1
  <2>. HIDE DEF second
  <2>. QED  BY <2>2, SeqDef
<1>8. Replies(c, frames, errors) = first \o second
  BY DEF Replies
<1>. HIDE DEF first, second
<1>9. Numbered(c, first, from, complete)
  <2>. SUFFICES ASSUME NEW i \in 1..k
                PROVE  first[i] = [conn |-> c, n |-> IF from + i <= complete THEN from + i ELSE 0]
    BY <1>6 DEF Numbered
  <2>1. from + i <= complete
    BY <1>2
  <2>. QED  BY <1>6, <2>1
<1>10. Numbered(c, second, from + Len(first), complete)
  <2>. SUFFICES ASSUME NEW i \in 1..errors
                PROVE  second[i] = [conn |-> c, n |-> IF from + Len(first) + i <= complete
                                                     THEN from + Len(first) + i ELSE 0]
    BY <1>7 DEF Numbered
  <2>1. ~(from + Len(first) + i <= complete)
    BY <1>2, <1>6
  <2>. QED  BY <1>7, <2>1
<1>11. /\ Replies(c, frames, errors) \in Seq(Reply)
       /\ Len(Replies(c, frames, errors)) = Whole(in) + errors
       /\ Numbered(c, Replies(c, frames, errors), from, complete)
  <2>1. first \o second \in Seq(Reply) /\ Len(first \o second) = Len(first) + Len(second)
    BY <1>6, <1>7, JoinSeq
  <2>2. Numbered(c, first \o second, from, complete)
    BY <1>6, <1>7, <1>9, <1>10, RepliesJoined
  <2>. QED  BY <1>2, <1>6, <1>7, <1>8, <2>1, <2>2
<1>12. /\ Left(in, skip) \in Seq(Unit) /\ Len(Left(in, skip)) = Len(in) - (e + skip)
       /\ e + skip \in Nat
       /\ \A i \in 1..(Len(in) - (e + skip)) : Left(in, skip)[i] = in[(e + skip) + i]
  <2>1. e + skip \in 0..Len(in) /\ e + skip \in Nat
    BY <1>1 DEF e
  <2>2. Left(in, skip) = SubSeq(in, (e + skip) + 1, Len(in))
    BY DEF Left, e
  <2>. QED  BY <2>1, <2>2, CutSeq
<1>13. \A i \in 1..Len(Left(in, skip)) :
         /\ (e + skip) + i \in 1..Len(in) /\ ~((e + skip) + i <= e)
         /\ Left(in, skip)[i] = in[(e + skip) + i]
  BY <1>1, <1>12
<1>14. NoneEnds(Left(in, skip))
  BY <1>1, <1>13 DEF NoneEnds
<1>15. IsNoisy(Left(in, skip)) => IsNoisy(in)
  <2>1. DOMAIN Left(in, skip) = 1..Len(Left(in, skip)) /\ DOMAIN in = 1..Len(in)
    BY <1>12, LenProperties
  <2>. QED  BY <1>13, <2>1 DEF IsNoisy
<1>. QED  BY <1>11, <1>12, <1>14, <1>15 DEF frames

-----------------------------------------------------------------------------
(* What the steps make of a connection.                                    *)

\* What is complete of the frames a peer sent is a number of them.
LEMMA CompleteIs ==
  ASSUME NEW kinds \in Seq(Kinds), NEW left \in 0..MaxInput, left > 0 => Len(kinds) > 0
  PROVE  /\ Complete(kinds, left) \in Nat /\ Complete(kinds, left) <= Len(kinds)
         /\ left = 0 /\ ~Malformed(kinds) => Complete(kinds, left) = Len(kinds)
         /\ left > 0 \/ Malformed(kinds) => Complete(kinds, left) = Len(kinds) - 1
<1>1. Len(kinds) \in Nat /\ (Malformed(kinds) => Len(kinds) > 0)
  BY LenProperties, EmptySeq DEF Malformed
<1>. QED  BY <1>1 DEF Complete

\* A single unit, of the frame that is next.
LEMMA OneUnit ==
  ASSUME NEW u \in Unit, NEW from \in Nat, u.last => u.n = from + 1
  PROVE  /\ Contiguous(<<u>>, from)
         /\ u.last => Whole(<<u>>) = 1
         /\ ~u.last => Whole(<<u>>) = 0
<1>1. Len(<<u>>) = 1 /\ <<u>>[1] = u /\ 0 \in Nat /\ 0 + 1 = 1
  OBVIOUS
<1>2. Completed(<<u>>, 0) = 0
  BY <1>1, CompletedStep
<1>3. /\ u.last => Completed(<<u>>, 1) = 1
      /\ ~u.last => Completed(<<u>>, 1) = 0
  <2>1. /\ <<u>>[0 + 1].last => Completed(<<u>>, 0 + 1) = Completed(<<u>>, 0) + 1
        /\ ~<<u>>[0 + 1].last => Completed(<<u>>, 0 + 1) = Completed(<<u>>, 0)
    BY <1>1, CompletedStep
  <2>. QED  BY <1>1, <1>2, <2>1
<1>4. Contiguous(<<u>>, from)
  <2>. SUFFICES ASSUME NEW i \in 1..1, <<u>>[i].last
                PROVE  <<u>>[i].n = from + 1 + Completed(<<u>>, i - 1)
    BY <1>1 DEF Contiguous
  <2>1. i = 1 /\ i - 1 = 0 /\ u.last
    BY <1>1
  <2>2. from + 1 + 0 = from + 1
    OBVIOUS
  <2>. QED  BY <1>1, <1>2, <2>1, <2>2
<1>. QED  BY <1>1, <1>3, <1>4 DEF Whole

\* The peer sends a unit: of noise, or of a frame.
LEMMA UnitArrives ==
  ASSUME NEW c \in Conns,
         NEW had \in Seq(Reply), NEW away \in Seq(Reply), NEW out \in Seq(Reply),
         NEW in \in Seq(Unit), NEW unread \in Seq(Unit), NEW status,
         NEW kinds \in Seq(Kinds), NEW left \in 0..MaxInput,
         ConnValid(c, had, away, out, in, unread, status, kinds, left),
         status \notin {"new", "closed"},
         NEW kinds1 \in Seq(Kinds), NEW left1 \in 0..MaxInput, NEW u \in Unit,
         Len(kinds1) <= MaxFrames, left1 > 0 => Len(kinds1) > 0 /\ ~Malformed(kinds1),
         \/ /\ u = Noise /\ Malformed(kinds1)
            /\ Complete(kinds1, left1) = Complete(kinds, left)
         \/ /\ u.n # 0 /\ ~Malformed(kinds)
            /\ u.last => u.n = Complete(kinds, left) + 1
            /\ Complete(kinds1, left1) = Complete(kinds, left) + (IF u.last THEN 1 ELSE 0)
  PROVE  ConnValid(c, had, away, out, in, Append(unread, u), status, kinds1, left1)
<1>. DEFINE answered == Len(had) + Len(away) + Len(out)
            complete == Complete(kinds, left)
            complete1 == Complete(kinds1, left1)
            unread1 == Append(unread, u)
            t == <<u>>
<1>1. /\ Len(had) \in Nat /\ Len(away) \in Nat /\ Len(out) \in Nat /\ answered \in Nat
      /\ Len(unread) \in Nat /\ answered = Len(had) + Len(away) + Len(out)
  BY LenProperties
<1>2. complete \in Nat /\ complete1 \in Nat
  BY CompleteIs DEF ConnValid
<1>3. /\ RepliesNumbered(c, had, away, out, complete) /\ NoneEnds(in)
      /\ UnitsContiguous(answered, in, unread, complete, Malformed(kinds))
  BY DEF ConnValid
<1>4. /\ Len(unread1) = Len(unread) + 1 /\ unread1[Len(unread) + 1] = u
      /\ \A i \in 1..Len(unread) : unread1[i] = unread[i]
      /\ DOMAIN unread1 = 1..Len(unread1) /\ DOMAIN unread = 1..Len(unread)
  BY LenProperties, AppendProperties
<1>5. unread1 = unread \o t /\ t \in Seq(Unit)
  BY AppendProperties, ConcatProperties
<1>6. Whole(unread) \in Nat
  BY <1>1, CompletedStep DEF Whole
<1>. HIDE DEF answered, complete, complete1, unread1, t
<1>7. ASSUME u.last => u.n = answered + Whole(unread) + 1
      PROVE  /\ Contiguous(unread1, answered)
             /\ u.last => Whole(unread1) = Whole(unread) + 1
             /\ ~u.last => Whole(unread1) = Whole(unread)
  <2>1. answered + Whole(unread) \in Nat
    BY <1>1, <1>6
  <2>2. /\ Contiguous(t, answered + Whole(unread))
        /\ u.last => Whole(t) = 1
        /\ ~u.last => Whole(t) = 0
    BY <1>7, <2>1, OneUnit DEF t
  <2>3. Contiguous(unread, answered)
    BY <1>3 DEF UnitsContiguous
  <2>4. Contiguous(unread1, answered) /\ Whole(unread1) = Whole(unread) + Whole(t)
    BY <1>1, <1>5, <2>2, <2>3, UnitsJoined
  <2>. QED  BY <1>6, <2>2, <2>4
<1>8. CASE u = Noise /\ Malformed(kinds1) /\ complete1 = complete
  <2>1. u.n = 0 /\ ~u.last
    BY <1>8 DEF Noise
  <2>2. Contiguous(unread1, answered) /\ Whole(unread1) = Whole(unread)
    BY <1>7, <2>1
  <2>3. NoiseBehind(unread1)
    <3>. SUFFICES ASSUME NEW i \in 1..Len(unread1), NEW j \in 1..Len(unread1), i <= j,
                         unread1[i].n = 0
                  PROVE  ~unread1[j].last
      BY DEF NoiseBehind
    <3>1. CASE j = Len(unread) + 1
      BY <1>4, <2>1, <3>1
    <3>2. CASE j # Len(unread) + 1
      <4>1. i \in 1..Len(unread) /\ j \in 1..Len(unread)
        BY <1>1, <1>4, <3>2
      <4>2. unread[i].n = 0 /\ (unread[j].last => unread1[j].last) /\ unread1[j] = unread[j]
        BY <1>4, <4>1
      <4>. QED  BY <1>3, <4>1, <4>2 DEF UnitsContiguous, NoiseBehind
    <3>. QED  BY <3>1, <3>2
  <2>4. NoneEnds(unread) => NoneEnds(unread1)
    <3>1. \A i \in 1..Len(unread1) : i \in 1..Len(unread) \/ i = Len(unread) + 1
      BY <1>1, <1>4
    <3>. QED  BY <1>4, <2>1, <3>1 DEF NoneEnds
  <2>5. UnitsContiguous(answered, in, unread1, complete1, Malformed(kinds1))
    BY <1>3, <1>8, <2>2, <2>3, <2>4 DEF UnitsContiguous
  <2>. QED  BY <1>3, <1>8, <2>5 DEF ConnValid, answered, complete, complete1, unread1
<1>9. CASE /\ u.n # 0 /\ ~Malformed(kinds) /\ (u.last => u.n = complete + 1)
           /\ complete1 = complete + (IF u.last THEN 1 ELSE 0)
  <2>1. answered + Whole(unread) = complete /\ ~IsNoisy(in) /\ ~IsNoisy(unread)
    BY <1>3, <1>9 DEF UnitsContiguous
  <2>2. /\ Contiguous(unread1, answered)
        /\ u.last => Whole(unread1) = Whole(unread) + 1
        /\ ~u.last => Whole(unread1) = Whole(unread)
    BY <1>7, <1>9, <2>1
  <2>3. answered + Whole(unread1) = complete1
    <3>1. CASE u.last
      BY <1>1, <1>6, <1>9, <2>1, <2>2, <3>1
    <3>2. CASE ~u.last
      BY <1>1, <1>6, <1>9, <2>1, <2>2, <3>2
    <3>. QED  BY <3>1, <3>2
  <2>4. \A i \in 1..Len(unread1) : unread1[i].n # 0
    <3>1. \A i \in 1..Len(unread1) : i \in 1..Len(unread) \/ i = Len(unread) + 1
      BY <1>1, <1>4
    <3>. QED  BY <1>4, <1>9, <2>1, <3>1 DEF IsNoisy
  <2>5. NoiseBehind(unread1) /\ ~IsNoisy(unread1)
    BY <1>4, <2>4 DEF NoiseBehind, IsNoisy
  <2>6. UnitsContiguous(answered, in, unread1, complete1, Malformed(kinds1))
    BY <2>1, <2>2, <2>3, <2>5 DEF UnitsContiguous
  <2>7. RepliesNumbered(c, had, away, out, complete1)
    <3>1. complete <= complete1
      BY <1>2, <1>9
    <3>2. /\ 0 + Len(had) <= complete /\ Len(had) + Len(away) <= complete
          /\ (Len(had) + Len(away)) + Len(out) <= complete
      BY <1>1, <1>2, <1>6, <2>1
    <3>. QED  BY <1>1, <1>2, <1>3, <3>1, <3>2, RepliesStay DEF RepliesNumbered
  <2>. QED  BY <1>3, <2>6, <2>7 DEF ConnValid, answered, complete1, unread1
<1>. QED  BY <1>8, <1>9 DEF complete, complete1

\* The peer reads a reply.
LEMMA ReplyRead ==
  ASSUME NEW c \in Conns,
         NEW had \in Seq(Reply), NEW away \in Seq(Reply), NEW out \in Seq(Reply),
         NEW in \in Seq(Unit), NEW unread \in Seq(Unit), NEW status,
         NEW kinds \in Seq(Kinds), NEW left \in 0..MaxInput,
         ConnValid(c, had, away, out, in, unread, status, kinds, left),
         away # <<>>
  PROVE  ConnValid(c, WithReply(had, Head(away)), Tail(away), out, in, unread, status,
                   kinds, left)
<1>. DEFINE had1 == WithReply(had, Head(away))
            away1 == Tail(away)
            complete == Complete(kinds, left)
            answer(i) == [conn |-> c, n |-> IF i <= complete THEN i ELSE 0]
<1>1. Len(had) \in Nat /\ Len(away) \in Nat /\ Len(out) \in Nat /\ Len(away) > 0
  BY LenProperties, EmptySeq
<1>2. /\ Len(away1) = Len(away) - 1 /\ Head(away) = away[1]
      /\ \A i \in 1..(Len(away) - 1) : away1[i] = away[i + 1]
  BY <1>1
<1>3. /\ \A i \in 1..Len(had) : had[i] = answer(0 + i)
      /\ \A i \in 1..Len(away) : away[i] = answer(Len(had) + i)
      /\ \A i \in 1..Len(out) : out[i] = answer(Len(had) + Len(away) + i)
  BY DEF ConnValid, RepliesNumbered, Numbered
<1>4. complete \in Nat
  BY CompleteIs DEF ConnValid
<1>5. \A r, from : Numbered(c, r, from, complete) <=> \A i \in 1..Len(r) : r[i] = answer(from + i)
  BY DEF Numbered
<1>6. \A i : /\ i <= complete => answer(i).n = i
             /\ ~(i <= complete) => answer(i) = [conn |-> c, n |-> 0]
  OBVIOUS
<1>. HIDE DEF away1, answer, complete
<1>7. CASE had1 = Append(had, Head(away))
  <2>. DEFINE h == Append(had, Head(away))
  <2>1. /\ Len(h) = Len(had) + 1 /\ h[Len(had) + 1] = away[1]
        /\ \A i \in 1..Len(had) : h[i] = had[i]
    BY <1>1, <1>2
  <2>. HIDE DEF h
  <2>2. Numbered(c, h, 0, complete)
    <3>. SUFFICES ASSUME NEW i \in 1..Len(h) PROVE h[i] = answer(0 + i)
      BY <1>5
    <3>1. CASE i \in 1..Len(had)
      BY <1>3, <2>1, <3>1
    <3>2. CASE i \notin 1..Len(had)
      <4>1. i = Len(had) + 1 /\ 1 \in 1..Len(away) /\ 0 + i = Len(had) + 1
        BY <1>1, <2>1, <3>2
      <4>. QED  BY <1>3, <2>1, <4>1
    <3>. QED  BY <3>1, <3>2
  <2>3. Numbered(c, away1, Len(h), complete)
    <3>. SUFFICES ASSUME NEW i \in 1..Len(away1) PROVE away1[i] = answer(Len(h) + i)
      BY <1>5
    <3>1. i \in 1..(Len(away) - 1) /\ i + 1 \in 1..Len(away) /\ Len(had) + (i + 1) = Len(h) + i
      BY <1>1, <1>2, <2>1
    <3>. QED  BY <1>2, <1>3, <3>1
  <2>4. Len(h) + Len(away1) = Len(had) + Len(away)
    BY <1>1, <1>2, <2>1
  <2>5. Numbered(c, out, Len(h) + Len(away1), complete)
    BY <1>3, <1>5, <2>4
  <2>. QED  BY <1>7, <2>2, <2>3, <2>4, <2>5 DEF ConnValid, RepliesNumbered, complete, away1, h
<1>8. CASE had1 # Append(had, Head(away))
  <2>1. had1 = had /\ had # <<>> /\ Last(had).n = 0
    BY <1>8 DEF WithReply
  <2>2. Len(had) \in 1..Len(had) /\ had[Len(had)].n = 0
    BY <1>1, <2>1, EmptySeq DEF Last
  <2>3. ~(Len(had) <= complete)
    <3>1. had[Len(had)] = answer(Len(had))
      <4>1. 0 + Len(had) = Len(had)
        BY <1>1
      <4>. QED  BY <1>3, <2>2, <4>1
    <3>. QED  BY <1>6, <2>2, <3>1
  <2>4. \A i \in Nat : answer(Len(had) + i) = [conn |-> c, n |-> 0]
    <3>1. \A i \in Nat : ~(Len(had) + i <= complete)
      BY <1>1, <1>4, <2>3
    <3>. QED  BY <1>6, <3>1
  <2>5. Numbered(c, had, 0, complete)
    BY <1>3, <1>5
  <2>6. Numbered(c, away1, Len(had), complete)
    <3>. SUFFICES ASSUME NEW i \in 1..Len(away1) PROVE away1[i] = answer(Len(had) + i)
      BY <1>5
    <3>1. i \in 1..(Len(away) - 1) /\ i + 1 \in 1..Len(away) /\ i \in Nat /\ i + 1 \in Nat
      BY <1>1, <1>2
    <3>. QED  BY <1>2, <1>3, <2>4, <3>1
  <2>7. Numbered(c, out, Len(had) + Len(away1), complete)
    <3>. SUFFICES ASSUME NEW i \in 1..Len(out)
                  PROVE  out[i] = answer(Len(had) + Len(away1) + i)
      BY <1>5
    <3>1. /\ Len(away1) + i \in Nat /\ Len(away) + i \in Nat
          /\ Len(had) + Len(away1) + i = Len(had) + (Len(away1) + i)
          /\ Len(had) + Len(away) + i = Len(had) + (Len(away) + i)
      BY <1>1, <1>2
    <3>. QED  BY <1>3, <2>4, <3>1
  <2>8. ASSUME status # "closed"
        PROVE  UnitsContiguous(Len(had) + Len(away1) + Len(out), in, unread, complete,
                               Malformed(kinds))
    <3>1. UnitsContiguous(Len(had) + Len(away) + Len(out), in, unread, complete,
                          Malformed(kinds))
      BY <2>8 DEF ConnValid, complete
    <3>2. Len(unread) \in Nat /\ Whole(unread) \in Nat
      BY LenProperties, CompletedStep DEF Whole
    <3>3. ~(Len(had) + Len(away) + Len(out) + Whole(unread) = complete)
      BY <1>1, <1>4, <2>3, <3>2
    <3>4. Malformed(kinds) /\ NoneEnds(unread)
      BY <3>1, <3>3 DEF UnitsContiguous
    <3>5. Contiguous(unread, Len(had) + Len(away1) + Len(out))
      BY <3>2, <3>4, NoneEndsWhole
    <3>6. Len(had) + Len(away1) + Len(out) >= complete
      BY <1>1, <1>2, <1>4, <2>3
    <3>. QED  BY <3>1, <3>4, <3>5, <3>6 DEF UnitsContiguous
  <2>. QED  BY <2>1, <2>5, <2>6, <2>7, <2>8 DEF ConnValid, RepliesNumbered, complete, away1
<1>. QED  BY <1>7, <1>8

\* The connection changes its state and is not closed.
LEMMA StateChanges ==
  ASSUME NEW c, NEW had, NEW away, NEW out, NEW in, NEW unread, NEW status,
         NEW kinds, NEW left,
         ConnValid(c, had, away, out, in, unread, status, kinds, left),
         status # "closed", NEW status1, status1 \notin {"new", "closed"}
  PROVE  ConnValid(c, had, away, out, in, unread, status1, kinds, left)
  BY DEF ConnValid

\* It is closed, and its buffers are dropped.
LEMMA ConnectionClosed ==
  ASSUME NEW c, NEW had, NEW away, NEW out, NEW in, NEW unread, NEW status,
         NEW kinds, NEW left,
         ConnValid(c, had, away, out, in, unread, status, kinds, left)
  PROVE  ConnValid(c, had, away, <<>>, <<>>, <<>>, "closed", kinds, left)
<1>1. /\ Numbered(c, <<>>, Len(had) + Len(away), Complete(kinds, left))
      /\ NoneEnds(<<>>)
  BY DEF Numbered, NoneEnds
<1>. QED  BY <1>1 DEF ConnValid, RepliesNumbered

\* The server reads n units and answers what is complete, and noise.
LEMMA UnitsReceived ==
  ASSUME NEW c \in Conns,
         NEW had \in Seq(Reply), NEW away \in Seq(Reply), NEW out \in Seq(Reply),
         NEW in \in Seq(Unit), NEW unread \in Seq(Unit), NEW status,
         NEW kinds \in Seq(Kinds), NEW left \in 0..MaxInput,
         ConnValid(c, had, away, out, in, unread, status, kinds, left),
         status \notin {"new", "closed"},
         NEW n \in 0..Len(unread), NEW all, all = in \o SubSeq(unread, 1, n),
         NEW skip \in 0..(Len(all) - EndOfExtracted(all)), NEW errors \in Nat,
         errors > 0 => IsNoisy(all)
  PROVE  /\ Replies(c, Frames(all), errors) \in Seq(Reply) /\ Left(all, skip) \in Seq(Unit)
         /\ ConnValid(c, had, away, out \o Replies(c, Frames(all), errors), Left(all, skip),
                      SubSeq(unread, n + 1, Len(unread)), status, kinds, left)
<1>. DEFINE a == SubSeq(unread, 1, n)
            b == SubSeq(unread, n + 1, Len(unread))
            replies == Replies(c, Frames(all), errors)
            from == Len(had) + Len(away) + Len(out)
            complete == Complete(kinds, left)
            malformed == Malformed(kinds)
<1>1. /\ Len(had) \in Nat /\ Len(away) \in Nat /\ Len(out) \in Nat
      /\ Len(unread) \in Nat /\ Len(in) \in Nat
      /\ from \in Nat /\ Len(had) + Len(away) \in Nat
      /\ from = Len(had) + Len(away) + Len(out)
  BY LenProperties
<1>2. complete \in Nat
  BY CompleteIs DEF ConnValid
<1>3. /\ a \in Seq(Unit) /\ Len(a) = n /\ \A i \in 1..n : a[i] = unread[i]
      /\ b \in Seq(Unit) /\ Len(b) = Len(unread) - n
      /\ \A i \in 1..(Len(unread) - n) : b[i] = unread[n + i]
  BY CutSeq
<1>4. /\ RepliesNumbered(c, had, away, out, complete) /\ NoneEnds(in)
      /\ UnitsContiguous(from, in, unread, complete, malformed)
  BY DEF ConnValid
<1>5. /\ Contiguous(unread, from) /\ NoiseBehind(unread)
      /\ IsNoisy(in) => NoneEnds(unread)
      /\ IsNoisy(in) \/ IsNoisy(unread) => malformed
      /\ \/ from + Whole(unread) = complete
         \/ malformed /\ from >= complete /\ NoneEnds(unread)
  BY <1>4 DEF UnitsContiguous
<1>. HIDE DEF from, complete, malformed
<1>6. /\ Whole(a) \in Nat /\ Whole(b) \in Nat /\ Whole(unread) = Whole(a) + Whole(b)
      /\ Contiguous(a, from) /\ Contiguous(b, from + Whole(a))
  BY <1>1, <1>5, UnitsCut
<1>. HIDE DEF a, b, replies
<1>7. all = in \o a /\ all \in Seq(Unit) /\ Len(all) = Len(in) + Len(a)
      /\ Len(a) \in Nat /\ Len(b) \in Nat
  BY <1>3, ConcatProperties, LenProperties DEF a
<1>8. Contiguous(all, from) /\ Whole(all) = Whole(a)
  <2>1. Whole(in) = 0 /\ Contiguous(in, from)
    BY <1>1, <1>4, NoneEndsWhole
  <2>2. Contiguous(a, from + Whole(in)) /\ a \in Seq(Unit)
    <3>1. from + 0 = from
      BY <1>1
    <3>. QED  BY <1>3, <1>6, <2>1, <3>1
  <2>3. Contiguous(in \o a, from) /\ Whole(in \o a) = Whole(in) + Whole(a)
    BY <1>1, <2>1, <2>2, UnitsJoined
  <2>4. 0 + Whole(a) = Whole(a)
    BY <1>6
  <2>. QED  BY <1>7, <2>1, <2>3, <2>4
<1>9. NoneEnds(unread) => Whole(a) = 0 /\ Whole(b) = 0 /\ NoneEnds(b)
  <2>1. NoneEnds(unread) => Whole(unread) = 0
    BY <1>1, NoneEndsWhole
  <2>2. NoneEnds(unread) => Whole(a) = 0 /\ Whole(b) = 0
    BY <1>6, <2>1
  <2>. QED  BY <1>7, <2>2, NoneEndsWhole
<1>10. IsNoisy(a) => NoneEnds(b) /\ malformed
  <2>. SUFFICES ASSUME IsNoisy(a) PROVE NoneEnds(b) /\ malformed
    OBVIOUS
  <2>1. PICK i \in 1..n : unread[i].n = 0
    <3>1. DOMAIN a = 1..n
      BY <1>3, LenProperties
    <3>. QED  BY <1>3, <3>1 DEF IsNoisy
  <2>2. i \in 1..Len(unread) /\ DOMAIN unread = 1..Len(unread)
    BY <1>1, LenProperties
  <2>3. malformed
    BY <1>5, <2>1, <2>2 DEF IsNoisy
  <2>4. \A j \in 1..Len(b) : ~b[j].last
    <3>. TAKE j \in 1..Len(b)
    <3>1. j \in 1..(Len(unread) - n) /\ n + j \in 1..Len(unread) /\ i <= n + j
      <4>1. PICK l \in Nat : l = Len(unread) /\ n \in 0..l /\ i \in 1..n /\ j \in 1..(l - n)
        BY <1>1, <1>3
      <4>2. n + j \in 1..l /\ i <= n + j
        BY <4>1
      <4>. QED  BY <4>1, <4>2
    <3>2. ~unread[n + j].last
      BY <1>5, <2>1, <2>2, <3>1 DEF NoiseBehind
    <3>3. QED  BY <1>3, <3>1, <3>2
  <2>. QED  BY <2>3, <2>4 DEF NoneEnds
<1>11. IsNoisy(all) => NoneEnds(b) /\ malformed /\ from + Whole(a) >= complete
  <2>. SUFFICES ASSUME IsNoisy(all)
                PROVE  NoneEnds(b) /\ malformed /\ from + Whole(a) >= complete
    OBVIOUS
  <2>1. IsNoisy(in) \/ IsNoisy(a)
    <3>1. PICK i \in 1..Len(all) : all[i].n = 0
      BY <1>7, LenProperties DEF IsNoisy
    <3>2. DOMAIN in = 1..Len(in) /\ DOMAIN a = 1..Len(a)
      BY <1>3, LenProperties
    <3>3. CASE i \in 1..Len(in)
      <4>1. all[i] = in[i]
        BY <1>3, <1>7, <3>3, JoinSeq
      <4>. QED  BY <3>1, <3>2, <3>3, <4>1 DEF IsNoisy
    <3>4. CASE i \notin 1..Len(in)
      <4>1. PICK j \in 1..Len(a) : i = Len(in) + j
        <5>1. i - Len(in) \in 1..Len(a) /\ i = Len(in) + (i - Len(in))
          BY <1>1, <1>7, <3>1, <3>4
        <5>. QED  BY <5>1
      <4>2. all[i] = a[j]
        BY <1>3, <1>7, <4>1, JoinSeq
      <4>. QED  BY <3>1, <3>2, <4>2 DEF IsNoisy
    <3>. QED  BY <3>3, <3>4
  <2>2. NoneEnds(b) /\ malformed
    BY <1>5, <1>9, <1>10, <2>1
  <2>3. Whole(b) = 0
    BY <1>7, <2>2, NoneEndsWhole
  <2>. QED  BY <1>1, <1>2, <1>5, <1>6, <1>9, <2>2, <2>3
<1>12. /\ replies \in Seq(Reply) /\ Len(replies) = Whole(a) + errors
       /\ Numbered(c, replies, from, complete)
       /\ Left(all, skip) \in Seq(Unit) /\ NoneEnds(Left(all, skip))
       /\ IsNoisy(Left(all, skip)) => IsNoisy(all)
  <2>1. Whole(all) = 0 \/ from + Whole(all) <= complete
    <3>1. CASE from + Whole(unread) = complete
      <4>1. PICK f, x, y \in Nat : f = from /\ x = Whole(a) /\ y = Whole(b)
        BY <1>1, <1>6
      <4>2. f + (x + y) = complete
        BY <1>6, <3>1, <4>1
      <4>3. f + x <= complete
        BY <4>2
      <4>. QED  BY <1>8, <4>1, <4>3
    <3>2. CASE NoneEnds(unread)
      BY <1>8, <1>9, <3>2
    <3>. QED  BY <1>5, <3>1, <3>2
  <2>2. errors > 0 => from + Whole(all) >= complete
    BY <1>8, <1>11
  <2>3. PICK whole \in Seq(Unit) :
          /\ whole = all /\ Contiguous(whole, from)
          /\ Whole(whole) = 0 \/ from + Whole(whole) <= complete
          /\ errors > 0 => from + Whole(whole) >= complete
          /\ skip \in 0..(Len(whole) - EndOfExtracted(whole))
    BY <1>7, <1>8, <2>1, <2>2
  <2>4. /\ Replies(c, Frames(whole), errors) \in Seq(Reply)
        /\ Len(Replies(c, Frames(whole), errors)) = Whole(whole) + errors
        /\ Numbered(c, Replies(c, Frames(whole), errors), from, complete)
        /\ Left(whole, skip) \in Seq(Unit) /\ NoneEnds(Left(whole, skip))
        /\ IsNoisy(Left(whole, skip)) => IsNoisy(whole)
    <3>1. from \in Nat /\ complete \in Nat
      BY <1>1, <1>2
    <3>2. PICK total : total = Whole(whole) + errors
      OBVIOUS
    <3>3. Len(Replies(c, Frames(whole), errors)) = total
      BY <2>3, <3>1, <3>2, Extraction
    <3>. QED  BY <2>3, <3>1, <3>2, <3>3, Extraction
  <2>. QED  BY <1>8, <2>3, <2>4 DEF replies
<1>13. /\ Len(out \o replies) = Len(out) + Len(replies)
       /\ Len(had) + Len(away) + Len(out \o replies) = from + Whole(a) + errors
  <2>1. Len(out \o replies) = Len(out) + Len(replies)
    BY <1>12, ConcatProperties
  <2>2. PICK h, w, o, x, e \in Nat :
          h = Len(had) /\ w = Len(away) /\ o = Len(out) /\ x = Whole(a) /\ e = errors
    BY <1>1, <1>6
  <2>3. from = h + w + o /\ Len(out \o replies) = o + (x + e)
    BY <1>1, <1>12, <2>1, <2>2
  <2>4. h + w + (o + (x + e)) = (h + w + o) + x + e
    OBVIOUS
  <2>. QED  BY <2>1, <2>2, <2>3, <2>4
<1>14. RepliesNumbered(c, had, away, out \o replies, complete)
  <2>1. /\ Numbered(c, had, 0, complete) /\ Numbered(c, away, Len(had), complete)
        /\ Numbered(c, out, Len(had) + Len(away), complete)
    BY <1>4 DEF RepliesNumbered
  <2>2. Numbered(c, out \o replies, Len(had) + Len(away), complete)
    BY <1>1, <1>12, <2>1, RepliesJoined
  <2>. QED  BY <2>1, <2>2 DEF RepliesNumbered
<1>15. UnitsContiguous(from + Whole(a) + errors, Left(all, skip), b, complete, malformed)
  <2>1. Contiguous(b, from + Whole(a) + errors)
    <3>1. CASE errors = 0
      <4>1. from + Whole(a) + errors = from + Whole(a)
        BY <1>1, <1>6, <3>1
      <4>. QED  BY <1>6, <4>1
    <3>2. CASE errors > 0
      BY <1>7, <1>11, <3>2, NoneEndsWhole
    <3>. QED  BY <3>1, <3>2
  <2>2. NoiseBehind(b)
    <3>. SUFFICES ASSUME NEW i \in 1..Len(b), NEW j \in 1..Len(b), i <= j, b[i].n = 0
                  PROVE  ~b[j].last
      BY DEF NoiseBehind
    <3>1. i \in 1..(Len(unread) - n) /\ j \in 1..(Len(unread) - n)
      BY <1>3
    <3>2. b[i] = unread[n + i] /\ b[j] = unread[n + j]
      BY <1>3, <3>1
    <3>3. n + i \in 1..Len(unread) /\ n + j \in 1..Len(unread) /\ n + i <= n + j
      <4>1. PICK l \in Nat : l = Len(unread) /\ n \in 0..l
        BY <1>1
      <4>2. n + i \in 1..l /\ n + j \in 1..l /\ n + i <= n + j
        BY <3>1, <4>1
      <4>. QED  BY <4>1, <4>2
    <3>. QED  BY <1>5, <3>2, <3>3 DEF NoiseBehind
  <2>3. IsNoisy(Left(all, skip)) => NoneEnds(b) /\ malformed
    BY <1>11, <1>12
  <2>4. IsNoisy(b) => malformed
    <3>1. ASSUME NEW i \in 1..Len(b), b[i].n = 0 PROVE IsNoisy(unread)
      <4>1. n + i \in 1..Len(unread) /\ b[i] = unread[n + i]
        BY <1>1, <1>3
      <4>. QED  BY <3>1, <4>1, LenProperties DEF IsNoisy
    <3>. QED  BY <1>3, <1>5, <3>1, LenProperties DEF IsNoisy
  <2>5. \/ from + Whole(a) + errors + Whole(b) = complete
        \/ malformed /\ from + Whole(a) + errors >= complete /\ NoneEnds(b)
    <3>0. PICK f, x, y, k, e \in Nat :
            f = from /\ x = Whole(a) /\ y = Whole(b) /\ k = complete /\ e = errors
      BY <1>1, <1>2, <1>6
    <3>1. CASE errors > 0
      <4>1. NoneEnds(b) /\ malformed /\ f + x >= k
        BY <1>11, <3>0, <3>1
      <4>2. f + x + e >= k
        BY <4>1
      <4>. QED  BY <3>0, <4>1, <4>2
    <3>2. CASE errors = 0 /\ from + Whole(unread) = complete
      <4>1. f + (x + y) = k /\ e = 0
        BY <1>6, <3>0, <3>2
      <4>2. f + x + e + y = k
        BY <4>1
      <4>. QED  BY <3>0, <4>2
    <3>3. CASE errors = 0 /\ malformed /\ from >= complete /\ NoneEnds(unread)
      BY <1>1, <1>2, <1>6, <1>9, <3>3
    <3>. QED  BY <1>5, <3>1, <3>2, <3>3
  <2>. QED  BY <2>1, <2>2, <2>3, <2>4, <2>5 DEF UnitsContiguous
<1>16. /\ Len(kinds) <= MaxFrames /\ (left > 0 => Len(kinds) > 0 /\ ~malformed)
  BY DEF ConnValid, malformed
<1>. QED
  BY <1>12, <1>13, <1>14, <1>15, <1>16 DEF ConnValid, complete, malformed, replies, b

\* The server hands n replies to the kernel.
LEMMA RepliesSent ==
  ASSUME NEW c \in Conns,
         NEW had \in Seq(Reply), NEW away \in Seq(Reply), NEW out \in Seq(Reply),
         NEW in, NEW unread, NEW status, NEW kinds, NEW left,
         ConnValid(c, had, away, out, in, unread, status, kinds, left),
         NEW n \in 0..Len(out)
  PROVE  ConnValid(c, had, away \o SubSeq(out, 1, n), SubSeq(out, n + 1, Len(out)),
                   in, unread, status, kinds, left)
<1>. DEFINE a == SubSeq(out, 1, n)
            b == SubSeq(out, n + 1, Len(out))
            complete == Complete(kinds, left)
<1>1. /\ Len(had) \in Nat /\ Len(away) \in Nat /\ Len(out) \in Nat
      /\ Len(had) + Len(away) \in Nat /\ n \in Nat
  BY LenProperties
<1>2. a \in Seq(Reply) /\ Len(a) = n /\ b \in Seq(Reply) /\ Len(b) = Len(out) - n
  BY CutSeq
<1>3. /\ Numbered(c, had, 0, complete) /\ Numbered(c, away, Len(had), complete)
      /\ Numbered(c, out, Len(had) + Len(away), complete)
  BY DEF ConnValid, RepliesNumbered
<1>. HIDE DEF complete
<1>4. /\ Numbered(c, a, Len(had) + Len(away), complete)
      /\ Numbered(c, b, Len(had) + Len(away) + n, complete)
  BY <1>1, <1>3, RepliesCut
<1>. HIDE DEF a, b
<1>5. Numbered(c, away \o a, Len(had), complete)
  BY <1>1, <1>2, <1>3, <1>4, RepliesJoined
<1>6. Len(away \o a) = Len(away) + n
  BY <1>2, ConcatProperties
<1>7. /\ Len(had) + Len(away \o a) = Len(had) + Len(away) + n
      /\ Len(had) + Len(away \o a) + Len(b) = Len(had) + Len(away) + Len(out)
  BY <1>1, <1>2, <1>6
<1>8. RepliesNumbered(c, had, away \o a, b, complete)
  BY <1>3, <1>4, <1>5, <1>7 DEF RepliesNumbered
<1>9. ConnValid(c, had, away \o a, b, in, unread, status, kinds, left)
  BY <1>7, <1>8 DEF ConnValid, complete
<1>. QED  BY <1>9 DEF a, b

-----------------------------------------------------------------------------
(* The buffers of a connection are those of the client on its socket.      *)

\* The buffers of a connection are those of the client at its descriptor.
LEMMA BufferOf ==
  ASSUME SocketsApart, NEW f \in Fds, sock[f] # None
  PROVE  In(sock[f]) = clients[f].in /\ Out(sock[f]) = clients[f].out
<1>1. \A g \in Fds : sock[g] = sock[f] => g = f
  BY DEF SocketsApart
<1>2. (CHOOSE g \in Fds : sock[g] = sock[f]) = f
  BY <1>1
<1>. QED  BY <1>2 DEF In, Out, Buffer

\* A connection without a descriptor has nothing in them.
LEMMA NoBuffer ==
  ASSUME NEW c, \A f \in Fds : sock[f] # c
  PROVE  In(c) = <<>> /\ Out(c) = <<>>
  BY DEF In, Out, Buffer

\* They have their types.
LEMMA BuffersTyped ==
  ASSUME TypeOK, SocketsApart, NEW c \in Conns
  PROVE  In(c) \in Seq(Unit) /\ Out(c) \in Seq(Reply)
<1>1. CASE \A f \in Fds : sock[f] # c
  BY <1>1, NoBuffer, EmptySeq
<1>2. CASE \E f \in Fds : sock[f] = c
  <2>1. PICK f \in Fds : sock[f] = c
    BY <1>2
  <2>2. sock[f] # None /\ clients[f] # None /\ clients[f] \in Client
    BY <2>1, ServerAssumption DEF TypeOK
  <2>. QED  BY <2>1, <2>2, BufferOf DEF Client
<1>. QED  BY <1>1, <1>2

\* The same after a step,
LEMMA BufferOfNext ==
  ASSUME SocketsApart', NEW f \in Fds, NEW c, c # None, sock'[f] = c
  PROVE  In(c)' = clients'[f].in /\ Out(c)' = clients'[f].out
<1>1. \A g \in Fds : sock'[g] = c => g = f
  BY DEF SocketsApart
<1>2. (CHOOSE g \in Fds : sock'[g] = c) = f
  BY <1>1
<1>. QED  BY <1>2 DEF In, Out, Buffer

\* for a connection with a descriptor and for one without.
LEMMA NoBufferNext ==
  ASSUME NEW c, \A f \in Fds : sock'[f] # c
  PROVE  In(c)' = <<>> /\ Out(c)' = <<>>
  BY DEF In, Out, Buffer

\* What is true of a connection stays true when a step is about another one.
LEMMA Unaffected ==
  ASSUME SocketsApart, SocketsApart', NEW c, c # None, ConnInv(c),
         \A f \in Fds : sock'[f] = c <=> sock[f] = c,
         \A f \in Fds : sock[f] = c => clients'[f] = clients[f],
         got'[c] = got[c], snd'[c] = snd[c], rcv'[c] = rcv[c],
         state'[c] = state[c], sent'[c] = sent[c], rest'[c] = rest[c]
  PROVE  ConnInv(c)' /\ In(c)' = In(c) /\ Out(c)' = Out(c)
<1>1. In(c)' = In(c) /\ Out(c)' = Out(c)
  <2>1. CASE \A f \in Fds : sock[f] # c
    <3>1. \A f \in Fds : sock'[f] # c
      BY <2>1
    <3>. QED  BY <2>1, <3>1, NoBuffer, NoBufferNext
  <2>2. CASE \E f \in Fds : sock[f] = c
    <3>1. PICK f \in Fds : sock[f] = c
      BY <2>2
    <3>2. sock'[f] = c /\ sock[f] # None /\ clients'[f] = clients[f]
      BY <3>1
    <3>3. In(c) = clients[f].in /\ Out(c) = clients[f].out
      BY <3>1, <3>2, BufferOf
    <3>4. In(c)' = clients'[f].in /\ Out(c)' = clients'[f].out
      BY <3>2, BufferOfNext
    <3>. QED  BY <3>2, <3>3, <3>4
  <2>. QED  BY <2>1, <2>2
<1>. QED  BY <1>1 DEF ConnInv

\* Steps that leave the clients, the kernel and the peers alone.
LEMMA OnlyControl ==
  ASSUME IInv, UNCHANGED <<clients, kernel, peers>>
  PROVE  /\ SocketsApart' /\ BacklogApart' /\ \A c \in Conns : ConnInv(c)'
<1>. USE DEF IInv
<1>1. /\ clients' = clients /\ sock' = sock /\ backlog' = backlog /\ rcv' = rcv
      /\ snd' = snd /\ state' = state /\ sent' = sent /\ rest' = rest /\ got' = got
  BY DEF kernel, peers
<1>2. SocketsApart'
  BY <1>1 DEF SocketsApart
<1>3. BacklogApart'
  BY <1>1 DEF BacklogApart
<1>4. ASSUME NEW c \in Conns PROVE ConnInv(c)'
  <2>1. c # None
    BY ServerAssumption
  <2>. QED  BY <1>1, <1>2, <2>1, Unaffected
<1>. QED  BY <1>2, <1>3, <1>4

\* A step that moves the loop only keeps the types.
LEMMA ControlTyped ==
  ASSUME TypeOK, UNCHANGED <<clients, kernel, peers>>,
         pc' \in {"init", "build", "poll", "accept", "loop", "read", "write",
                  "stopped", "destroyed"},
         running' \in BOOLEAN, arrivals' \in BOOLEAN, pollset' \in Seq(Pollfd),
         index' \in 1..(Cardinality(Fds) + 1), owner' \in Seq(Conns),
         stopCalled' \in BOOLEAN
  PROVE  TypeOK'
  BY DEF TypeOK, kernel, peers

-----------------------------------------------------------------------------
(* Each step preserves the invariant: the steps of run().                  *)

\* The steps that move the loop only keep the invariant.
LEMMA ControlPreserves ==
  ASSUME IInv,
         Stop \/ Startup \/ StartupFails \/ PollFails \/ AcceptFails \/ AcceptDone
           \/ LoopDone \/ HandleEntry \/ ReceiveNothing \/ TransmitDone \/ LeaveLoop
  PROVE  IInv'
<1>. USE DEF IInv
<1>1. UNCHANGED <<clients, kernel, peers>>
  BY DEF Stop, Startup, StartupFails, PollFails, AcceptFails, AcceptDone, LoopDone, HandleEntry,
         ReceiveNothing, TransmitDone, LeaveLoop
<1>2. Len(pollset) \in Nat /\ Cardinality(Fds) \in Nat
  BY ServerAssumption, FS_CardinalityType, LenProperties DEF TypeOK
<1>3. index' \in Nat /\ (index' = index \/ index' = 1 \/ index' = index + 1)
  <2>1. index' = index \/ index' = 1 \/ index' = index + 1
    BY DEF Stop, Startup, StartupFails, PollFails, AcceptFails, AcceptDone, LoopDone,
           HandleEntry, ReceiveNothing, TransmitDone, LeaveLoop, NextEntry
  <2>2. index \in Nat
    BY DEF TypeOK
  <2>. QED  BY <2>1, <2>2
<1>4. ASSUME index' = index + 1 PROVE index <= Len(pollset)
  BY <1>1, <1>2, <1>4
     DEF TypeOK, RoundValid, Stop, Startup, StartupFails, PollFails, AcceptFails, AcceptDone, LoopDone,
         HandleEntry, ReceiveNothing, TransmitDone, LeaveLoop, Goto, NextEntry, round
<1>5. index' \in 1..(Cardinality(Fds) + 1)
  BY <1>2, <1>3, <1>4 DEF TypeOK, RoundValid
<1>6. TypeOK'
  <2>1. /\ pc' \in {"init", "build", "poll", "accept", "loop", "read", "write",
                    "stopped", "destroyed"}
        /\ running' \in BOOLEAN /\ stopCalled' \in BOOLEAN
    BY DEF TypeOK, Stop, Startup, StartupFails, PollFails, AcceptFails, AcceptDone, LoopDone,
           HandleEntry, ReceiveNothing, TransmitDone, LeaveLoop, Goto, NextEntry, round
  <2>2. arrivals' \in BOOLEAN /\ pollset' \in Seq(Pollfd) /\ owner' \in Seq(Conns)
    BY EmptySeq
       DEF TypeOK, Stop, Startup, StartupFails, PollFails, AcceptFails, AcceptDone, LoopDone,
           HandleEntry, ReceiveNothing, TransmitDone, LeaveLoop, EndRound, round
  <2>. QED  BY <1>1, <1>5, <2>1, <2>2, ControlTyped
<1>7. RoundValid' /\ OwnersKept'
  <2>1. clients' = clients /\ sock' = sock
    BY <1>1 DEF kernel
  <2>2. CASE PollFails \/ LoopDone
    <3>1. pollset' = <<>> /\ owner' = <<>> /\ pc' \in {"stopped", "build"} /\ index' \in Nat
          /\ (pc' = "build" => index' = 1)
      BY <1>3, <2>2 DEF PollFails, LoopDone, EndRound, Goto
    <3>. QED  BY <1>2, <3>1, EmptySeq DEF RoundValid, OwnersKept, InRound
  <2>3. CASE Stop
    <3>1. pc' = pc /\ index' = index /\ pollset' = pollset /\ owner' = owner
      BY <2>3 DEF Stop, round
    <3>. QED  BY <2>1, <3>1 DEF RoundValid, OwnersKept
  <2>4. CASE Startup \/ StartupFails \/ LeaveLoop
    <3>1. /\ pc' \in {"build", "stopped"} /\ pc \in {"init", "build"}
          /\ index' = index /\ pollset' = pollset /\ owner' = owner
      BY <2>4 DEF Startup, StartupFails, LeaveLoop, Goto, round
    <3>. QED  BY <2>1, <3>1 DEF RoundValid, OwnersKept, InRound
  <2>5. CASE AcceptFails \/ AcceptDone
    <3>1. /\ pc = "accept" /\ pc' = "loop"
          /\ index' = index /\ pollset' = pollset /\ owner' = owner
      BY <2>5 DEF AcceptFails, AcceptDone, Goto, round
    <3>. QED  BY <1>2, <2>1, <3>1 DEF RoundValid, OwnersKept, InRound
  <2>6. CASE HandleEntry \/ ReceiveNothing \/ TransmitDone
    <3>1. /\ pc \in {"loop", "read", "write"} /\ pollset' = pollset /\ owner' = owner
          /\ \/ pc' = "loop" /\ index' = index + 1
             \/ pc' \in {"read", "write"} /\ index' = index /\ clients[pollset[index].fd] # None
          /\ index <= Len(pollset)
      BY <2>6
         DEF HandleEntry, ReceiveNothing, TransmitDone, NextEntry, round, RoundValid,
             Current, CurrentFd
    <3>2. RoundValid'
      <4>1. index \in Nat /\ pc \in InRound
        BY <3>1 DEF TypeOK, InRound
      <4>2. \A i, j \in 1..Len(pollset) : pollset[i].fd = pollset[j].fd => i = j
        BY <4>1 DEF RoundValid
      <4>3. Len(owner) = Len(pollset) /\ Len(pollset) <= Cardinality(Fds)
        BY DEF RoundValid
      <4>4. CASE pc' = "loop" /\ index' = index + 1
        BY <1>2, <2>1, <3>1, <4>1, <4>2, <4>3, <4>4 DEF RoundValid
      <4>5. CASE /\ pc' \in {"read", "write"} /\ index' = index
                 /\ clients[pollset[index].fd] # None
        BY <1>2, <2>1, <3>1, <4>1, <4>2, <4>3, <4>5 DEF RoundValid
      <4>. QED  BY <3>1, <4>4, <4>5
    <3>3. OwnersKept'
      <4>1. index' >= index /\ index \in Nat /\ index' \in Nat
        BY <3>1 DEF TypeOK
      <4>2. \A i \in index'..Len(pollset) : i \in index..Len(pollset)
        BY <1>2, <4>1
      <4>. QED  BY <2>1, <3>1, <4>2 DEF OwnersKept, InRound
    <3>. QED  BY <3>2, <3>3
  <2>. QED  BY <2>2, <2>3, <2>4, <2>5, <2>6
<1>. QED  BY <1>1, <1>6, <1>7, OnlyControl

\* The new poll set has the descriptors of the clients.
LEMMA BuildPollSetPreserves ==
  ASSUME IInv, BuildPollSet
  PROVE  IInv'
<1>. USE DEF IInv
<1>. DEFINE order == SetToSeq(ClientFds)
<1>1. /\ UNCHANGED <<clients, kernel, peers>> /\ pc = "build" /\ pc' = "poll"
      /\ UNCHANGED <<running, arrivals, index, stopCalled>>
      /\ pollset' = [i \in DOMAIN order |->
                       [fd |-> order[i], out |-> WantsToWrite(order[i]),
                        readable |-> FALSE, writable |-> FALSE, hup |-> FALSE]]
      /\ owner' = [i \in DOMAIN order |-> sock[order[i]]]
  BY DEF BuildPollSet, Goto
<1>2. /\ clients' = clients /\ sock' = sock
  BY <1>1 DEF kernel
<1>3. IsFiniteSet(ClientFds) /\ Cardinality(ClientFds) <= Cardinality(Fds)
      /\ Cardinality(Fds) \in Nat
  <2>1. ClientFds \in SUBSET Fds
    BY DEF ClientFds
  <2>. QED  BY <2>1, ServerAssumption, FS_Subset, FS_CardinalityType
<1>4. /\ order \in Seq(ClientFds) /\ Len(order) = Cardinality(ClientFds)
      /\ \A i, j \in 1..Len(order) : order[i] = order[j] => i = j
  BY <1>3, SetToSeqProps
<1>. HIDE DEF order
<1>5. /\ DOMAIN order = 1..Len(order) /\ Len(order) \in Nat
      /\ \A i \in 1..Len(order) : order[i] \in Fds /\ clients[order[i]] # None
                                   /\ sock[order[i]] \in Conns
  <2>1. \A i \in 1..Len(order) : order[i] \in ClientFds
    BY <1>4, ElementOfSeq
  <2>2. \A f \in ClientFds : f \in Fds /\ clients[f] # None /\ sock[f] \in Conns
    BY DEF ClientFds, TypeOK
  <2>. QED  BY <1>4, <2>1, <2>2, LenProperties
<1>6. pollset' \in Seq(Pollfd) /\ Len(pollset') = Len(order)
  <2>1. \A i \in 1..Len(order) :
          [fd |-> order[i], out |-> WantsToWrite(order[i]),
           readable |-> FALSE, writable |-> FALSE, hup |-> FALSE] \in Pollfd
    BY <1>5 DEF Pollfd, WantsToWrite
  <2>2. pollset' \in [1..Len(order) -> Pollfd]
    BY <1>1, <1>5, <2>1
  <2>. QED  BY <1>5, <2>2, SeqDef
<1>7. owner' \in Seq(Conns) /\ Len(owner') = Len(order)
  <2>1. owner' \in [1..Len(order) -> Conns]
    BY <1>1, <1>5
  <2>. QED  BY <1>5, <2>1, SeqDef
<1>8. \A i \in 1..Len(order) : pollset'[i].fd = order[i] /\ owner'[i] = sock[order[i]]
  BY <1>1, <1>5
<1>9. TypeOK'
  BY <1>1, <1>6, <1>7, ControlTyped DEF TypeOK
<1>10. index = 1
  BY <1>1 DEF RoundValid
<1>11. RoundValid'
  BY <1>1, <1>2, <1>3, <1>4, <1>5, <1>6, <1>7, <1>8, <1>10 DEF RoundValid
<1>12. OwnersKept'
  BY <1>1, <1>2, <1>5, <1>6, <1>8, <1>10 DEF OwnersKept
<1>. QED  BY <1>1, <1>9, <1>11, <1>12, OnlyControl

\* So it has after poll().
LEMMA PollPreserves ==
  ASSUME IInv, Poll
  PROVE  IInv'
<1>. USE DEF IInv
<1>. DEFINE polled == [i \in DOMAIN pollset |-> Events(pollset[i])]
<1>1. /\ UNCHANGED <<clients, kernel, peers>> /\ pc = "poll"
      /\ UNCHANGED <<running, index, stopCalled>>
  BY DEF Poll, Goto
<1>2. clients' = clients /\ sock' = sock
  BY <1>1 DEF kernel
<1>3. index = 1
  BY <1>1 DEF RoundValid
<1>4. CASE /\ pc' = "accept" /\ pollset' = polled /\ arrivals' = (backlog # <<>>)
           /\ owner' = owner
  <2>1. Len(pollset) \in Nat /\ DOMAIN pollset = 1..Len(pollset)
        /\ \A i \in 1..Len(pollset) : pollset[i] \in Pollfd
    BY LenProperties, ElementOfSeq DEF TypeOK
  <2>2. \A e \in Pollfd : Events(e) \in Pollfd /\ Events(e).fd = e.fd
    BY DEF Events, Pollfd
  <2>3. polled \in [1..Len(pollset) -> Pollfd]
    BY <2>1, <2>2
  <2>4. pollset' \in Seq(Pollfd) /\ Len(pollset') = Len(pollset)
    BY <1>4, <2>1, <2>3, SeqDef
  <2>5. \A i \in 1..Len(pollset) : pollset'[i].fd = pollset[i].fd
    BY <1>4, <2>1, <2>2
  <2>6. TypeOK'
    <3>1. arrivals' \in BOOLEAN
      BY <1>4
    <3>. QED  BY <1>1, <1>4, <2>4, <3>1, ControlTyped DEF TypeOK
  <2>7. RoundValid'
    BY <1>1, <1>2, <1>3, <1>4, <2>1, <2>4, <2>5 DEF RoundValid, InRound
  <2>8. OwnersKept'
    BY <1>1, <1>2, <1>3, <1>4, <2>1, <2>4, <2>5 DEF OwnersKept, InRound
  <2>. QED  BY <1>1, <2>6, <2>7, <2>8, OnlyControl
<1>5. CASE pc' = "build" /\ EndRound
  <2>1. TypeOK'
    BY <1>1, <1>5, EmptySeq, ControlTyped DEF TypeOK, EndRound
  <2>2. Cardinality(Fds) \in Nat
    BY ServerAssumption, FS_CardinalityType
  <2>3. RoundValid' /\ OwnersKept'
    BY <1>1, <1>3, <1>5, <2>2, EmptySeq DEF RoundValid, OwnersKept, InRound, EndRound
  <2>. QED  BY <1>1, <2>1, <2>3, OnlyControl
<1>. QED  BY <1>4, <1>5 DEF Poll, Goto

-----------------------------------------------------------------------------
(* The steps of the peers.                                                 *)

\* A step of the peer of c.
LEMMA PeerPreserves ==
  ASSUME IInv, NEW c \in Conns, UNCHANGED <<server, sock>>, TypeOK', BacklogApart',
         \A f \in Fds : sock[f] = c => state'[c] \in {"open", "fin", "reset"},
         \A d \in Conns \ {c} :
           /\ got'[d] = got[d] /\ snd'[d] = snd[d] /\ rcv'[d] = rcv[d]
           /\ state'[d] = state[d] /\ sent'[d] = sent[d] /\ rest'[d] = rest[d],
         ConnValid(c, got'[c], snd'[c], Out(c), In(c), rcv'[c], state'[c], sent'[c], rest'[c])
  PROVE  IInv'
<1>. USE DEF IInv
<1>1. /\ pc' = pc /\ clients' = clients /\ pollset' = pollset /\ owner' = owner
      /\ index' = index /\ sock' = sock
  BY DEF server, round
<1>2. RoundValid' /\ OwnersKept'
  BY <1>1 DEF RoundValid, OwnersKept
<1>3. SocketsApart'
  <2>1. \A f \in Fds : sock[f] # None => sock[f] \in Conns
    BY DEF TypeOK
  <2>. QED  BY <1>1, <2>1 DEF SocketsApart
<1>4. In(c)' = In(c) /\ Out(c)' = Out(c)
  BY <1>1 DEF In, Out, Buffer
<1>5. ConnInv(c)'
  BY <1>4 DEF ConnInv
<1>6. ASSUME NEW d \in Conns \ {c} PROVE ConnInv(d)'
  <2>1. d # None
    BY ServerAssumption
  <2>. QED  BY <1>1, <1>3, <2>1, Unaffected
<1>. QED  BY <1>2, <1>3, <1>5, <1>6

\* The parts of a connection have their types.
LEMMA ConnTyped ==
  ASSUME IInv, NEW c \in Conns
  PROVE  /\ got[c] \in Seq(Reply) /\ snd[c] \in Seq(Reply) /\ Out(c) \in Seq(Reply)
         /\ In(c) \in Seq(Unit) /\ rcv[c] \in Seq(Unit)
         /\ state[c] \in {"new", "pending", "open", "fin", "reset", "closed"}
         /\ sent[c] \in Seq(Kinds) /\ rest[c] \in 0..MaxInput
         /\ ConnValid(c, got[c], snd[c], Out(c), In(c), rcv[c], state[c], sent[c], rest[c])
  BY BuffersTyped DEF IInv, TypeOK, ConnInv

\* A new connection has sent nothing.
LEMMA ConnectPreserves ==
  ASSUME IInv, NEW c \in Conns, Connect(c)
  PROVE  IInv'
<1>. USE DEF IInv
<1>1. /\ state[c] = "new" /\ state' = [state EXCEPT ![c] = "pending"]
      /\ backlog' = Append(backlog, c)
      /\ UNCHANGED <<server, sock, rcv, snd, sent, rest, got, stopCalled>>
  BY DEF Connect, peers
<1>2. TypeOK'
  <2>1. backlog' \in Seq(Conns)
    BY <1>1, AppendProperties DEF TypeOK
  <2>2. state' \in [Conns -> {"new", "pending", "open", "fin", "reset", "closed"}]
    BY <1>1 DEF TypeOK
  <2>. QED  BY <1>1, <2>1, <2>2 DEF TypeOK, server, round
<1>3. /\ Len(backlog) \in Nat /\ Len(backlog') = Len(backlog) + 1
      /\ \A i \in 1..Len(backlog) : backlog'[i] = backlog[i] /\ backlog[i] \in Conns
      /\ backlog'[Len(backlog) + 1] = c
  BY <1>1 DEF TypeOK
<1>4. /\ state'[c] = "pending" /\ \A d \in Conns \ {c} : state'[d] = state[d]
  BY <1>1 DEF TypeOK
<1>5. \A i \in 1..Len(backlog) : backlog[i] # c
  BY <1>1 DEF BacklogApart
<1>6. \A f \in Fds : sock[f] # c
  <2>1. c # None
    BY ServerAssumption
  <2>. QED  BY <1>1, <2>1 DEF SocketsApart
<1>7. BacklogApart'
  <2>1. \A i \in 1..Len(backlog') : i \in 1..Len(backlog) \/ i = Len(backlog) + 1
    BY <1>3
  <2>2. sock' = sock
    BY <1>1
  <2>3. ASSUME NEW i \in 1..Len(backlog'), NEW j \in 1..Len(backlog'),
               backlog'[i] = backlog'[j]
        PROVE  i = j
    BY <1>3, <1>5, <2>1, <2>3 DEF BacklogApart
  <2>4. ASSUME NEW i \in 1..Len(backlog')
        PROVE  /\ state'[backlog'[i]] \in {"pending", "fin", "reset"}
               /\ \A f \in Fds : sock'[f] # backlog'[i]
    <3>1. CASE i \in 1..Len(backlog)
      BY <1>3, <1>4, <1>5, <2>2, <3>1 DEF BacklogApart
    <3>2. CASE i = Len(backlog) + 1
      BY <1>3, <1>4, <1>6, <2>2, <3>2
    <3>. QED  BY <2>1, <3>1, <3>2
  <2>. QED  BY <2>3, <2>4 DEF BacklogApart
<1>8. ConnValid(c, got[c], snd[c], Out(c), In(c), rcv[c], "pending", sent[c], rest[c])
  <2>1. state[c] # "closed" /\ "pending" \notin {"new", "closed"}
    BY <1>1
  <2>2. ConnValid(c, got[c], snd[c], Out(c), In(c), rcv[c], state[c], sent[c], rest[c])
    BY ConnTyped
  <2>. QED  BY <2>1, <2>2, StateChanges
<1>. QED  BY <1>1, <1>2, <1>4, <1>6, <1>7, <1>8, PeerPreserves

\* A unit that a peer sends is behind all others of its connection.
LEMMA SendUnitPreserves ==
  ASSUME IInv, NEW c \in Conns, NEW u \in Unit, CanSend(c), SendUnit(c, u),
         NEW kinds \in Seq(Kinds), NEW left \in 0..MaxInput,
         sent' = [sent EXCEPT ![c] = kinds], rest' = [rest EXCEPT ![c] = left],
         Len(kinds) <= MaxFrames, left > 0 => Len(kinds) > 0 /\ ~Malformed(kinds),
         \/ /\ u = Noise /\ Malformed(kinds)
            /\ Complete(kinds, left) = Complete(sent[c], rest[c])
         \/ /\ u.n # 0 /\ ~Malformed(sent[c])
            /\ u.last => u.n = Complete(sent[c], rest[c]) + 1
            /\ Complete(kinds, left) = Complete(sent[c], rest[c]) + (IF u.last THEN 1 ELSE 0)
  PROVE  IInv'
<1>. USE DEF IInv
<1>1. /\ rcv' = [rcv EXCEPT ![c] = Append(rcv[c], u)] /\ state[c] \in {"pending", "open"}
      /\ UNCHANGED <<server, sock, backlog, snd, state, got, stopCalled>>
  BY DEF SendUnit, CanSend
<1>2. /\ rcv'[c] = Append(rcv[c], u) /\ rest'[c] = left /\ sent'[c] = kinds
      /\ \A d \in Conns \ {c} : rcv'[d] = rcv[d] /\ rest'[d] = rest[d] /\ sent'[d] = sent[d]
      /\ rcv' \in [Conns -> Seq(Unit)] /\ rest' \in [Conns -> 0..MaxInput]
      /\ sent' \in [Conns -> Seq(Kinds)]
  BY <1>1, AppendProperties DEF TypeOK
<1>3. TypeOK'
  BY <1>1, <1>2 DEF TypeOK, server, round
<1>4. BacklogApart'
  BY <1>1 DEF BacklogApart
<1>5. ConnValid(c, got[c], snd[c], Out(c), In(c), Append(rcv[c], u), state[c], kinds, left)
  <2>1. PICK g, s, o \in Seq(Reply), i, r \in Seq(Unit), st \in {"pending", "open"},
             k \in Seq(Kinds), l \in 0..MaxInput :
          /\ g = got[c] /\ s = snd[c] /\ o = Out(c) /\ i = In(c) /\ r = rcv[c]
          /\ st = state[c] /\ k = sent[c] /\ l = rest[c]
    BY <1>1, ConnTyped
  <2>2. ConnValid(c, g, s, o, i, r, st, k, l)
    BY <2>1, ConnTyped
  <2>3. ConnValid(c, g, s, o, i, Append(r, u), st, kinds, left)
    BY <2>1, <2>2, UnitArrives
  <2>. QED  BY <2>1, <2>3
<1>6. \A f \in Fds : sock[f] = c => state'[c] \in {"open", "fin", "reset"}
  <2>1. c # None
    BY ServerAssumption
  <2>. QED  BY <1>1, <2>1 DEF SocketsApart
<1>. QED  BY <1>1, <1>2, <1>3, <1>4, <1>5, <1>6, PeerPreserves

\* It begins the next frame,
LEMMA StartFramePreserves ==
  ASSUME IInv, NEW c \in Conns, NEW kind \in Kinds, StartFrame(c, kind)
  PROVE  IInv'
<1>. DEFINE n == Len(sent[c]) + 1
            kinds == Append(sent[c], kind)
            left == Size(kind) - 1
<1>1. /\ CanSend(c) /\ rest[c] = 0 /\ n <= MaxFrames /\ ~Malformed(sent[c])
      /\ sent' = [sent EXCEPT ![c] = kinds] /\ rest' = [rest EXCEPT ![c] = left]
      /\ SendUnit(c, IF kind = "bad" THEN Noise ELSE [n |-> n, last |-> Size(kind) = 1])
  BY DEF StartFrame
<1>2. left \in 0..MaxInput /\ (left = 0 <=> Size(kind) = 1) /\ (kind = "bad" => left = 0)
  BY ServerAssumption DEF Size
<1>3. /\ sent[c] \in Seq(Kinds) /\ Len(sent[c]) \in Nat /\ rest[c] \in 0..MaxInput
      /\ kinds \in Seq(Kinds) /\ Len(kinds) = n /\ n \in Nat /\ n > 0 /\ kinds[n] = kind
  BY ConnTyped, LenProperties, AppendProperties
<1>4. Malformed(kinds) <=> kind = "bad"
  <2>1. kinds # <<>>
    BY <1>3, EmptySeq
  <2>. QED  BY <1>3, <2>1 DEF Malformed, Last
<1>5. Complete(sent[c], rest[c]) = Len(sent[c])
  BY <1>1, <1>3, CompleteIs
<1>6. /\ left = 0 /\ kind # "bad" => Complete(kinds, left) = n
      /\ left > 0 \/ kind = "bad" => Complete(kinds, left) = n - 1
  BY <1>2, <1>3, <1>4, CompleteIs
<1>. HIDE DEF kinds, left, n
<1>7. CASE kind = "bad"
  <2>1. Noise \in Unit
    BY ServerAssumption DEF Noise, Unit
  <2>2. Complete(kinds, left) = Complete(sent[c], rest[c])
    BY <1>3, <1>5, <1>6, <1>7 DEF n
  <2>3. SendUnit(c, Noise) /\ Malformed(kinds) /\ Len(kinds) <= MaxFrames /\ ~(left > 0)
    BY <1>1, <1>2, <1>3, <1>4, <1>7
  <2>. QED  BY <1>1, <1>2, <1>3, <2>1, <2>2, <2>3, SendUnitPreserves
<1>8. CASE kind # "bad"
  <2>1. PICK u \in Unit : u.n = n /\ (u.last <=> left = 0) /\ SendUnit(c, u)
    <3>1. n \in 0..MaxFrames /\ (Size(kind) = 1) \in BOOLEAN
      BY <1>1, <1>3, ServerAssumption
    <3>2. [n |-> n, last |-> Size(kind) = 1] \in Unit
      BY <3>1, Zenon DEF Unit
    <3>3. SendUnit(c, [n |-> n, last |-> Size(kind) = 1])
      BY <1>1, <1>8
    <3>. QED  BY <1>2, <3>2, <3>3
  <2>2. u.n # 0
    BY <1>3, <2>1
  <2>3. /\ u.last => u.n = Complete(sent[c], rest[c]) + 1
        /\ Complete(kinds, left) = Complete(sent[c], rest[c]) + (IF u.last THEN 1 ELSE 0)
    <3>1. Complete(sent[c], rest[c]) = n - 1 /\ n - 1 \in Nat
      BY <1>3, <1>5 DEF n
    <3>2. CASE left = 0
      BY <1>3, <1>6, <1>8, <2>1, <3>1, <3>2
    <3>3. CASE left > 0
      BY <1>3, <1>6, <1>8, <2>1, <3>1, <3>3
    <3>. QED  BY <1>2, <3>2, <3>3
  <2>. QED  BY <1>1, <1>2, <1>3, <1>4, <1>8, <2>1, <2>2, <2>3, SendUnitPreserves
<1>. QED  BY <1>7, <1>8

\* goes on with the last,
LEMMA ContinueFramePreserves ==
  ASSUME IInv, NEW c \in Conns, ContinueFrame(c)
  PROVE  IInv'
<1>1. /\ sent[c] \in Seq(Kinds) /\ Len(sent[c]) \in Nat /\ Len(sent[c]) <= MaxFrames
      /\ rest[c] \in 0..MaxInput
      /\ rest[c] > 0 => Len(sent[c]) > 0 /\ ~Malformed(sent[c])
  BY ConnTyped, LenProperties DEF ConnValid
<1>2. CanSend(c) /\ rest[c] > 0 /\ sent' = sent /\ rest' = [rest EXCEPT ![c] = rest[c] - 1]
  BY DEF ContinueFrame
<1>3. PICK u \in Unit : u.n = Len(sent[c]) /\ (u.last <=> rest[c] = 1) /\ SendUnit(c, u)
  <2>1. Len(sent[c]) \in 0..MaxFrames /\ (rest[c] = 1) \in BOOLEAN
    BY <1>1, ServerAssumption
  <2>2. [n |-> Len(sent[c]), last |-> rest[c] = 1] \in Unit
    BY <2>1, Zenon DEF Unit
  <2>. QED  BY <2>2 DEF ContinueFrame
<1>4. PICK kinds \in Seq(Kinds), left \in 0..MaxInput : kinds = sent[c] /\ left = rest[c] - 1
  BY <1>1, <1>2, ServerAssumption
<1>5. sent' = [sent EXCEPT ![c] = kinds]
  BY <1>2, <1>4 DEF IInv, TypeOK
<1>6. /\ Complete(sent[c], rest[c]) = Len(sent[c]) - 1
      /\ left = 0 => Complete(kinds, left) = Len(sent[c])
      /\ left > 0 => Complete(kinds, left) = Len(sent[c]) - 1
  BY <1>1, <1>2, <1>4, CompleteIs
<1>7. /\ u.n # 0 /\ (u.last => u.n = Complete(sent[c], rest[c]) + 1)
      /\ Complete(kinds, left) = Complete(sent[c], rest[c]) + (IF u.last THEN 1 ELSE 0)
  <2>1. /\ rest[c] = 1 <=> left = 0
        /\ left = 0 \/ left > 0
        /\ Len(sent[c]) # 0 /\ Len(sent[c]) = (Len(sent[c]) - 1) + 1
        /\ Len(sent[c]) - 1 = (Len(sent[c]) - 1) + 0
    BY <1>1, <1>2, <1>4
  <2>. QED  BY <1>3, <1>6, <2>1
<1>. QED  BY <1>1, <1>2, <1>3, <1>4, <1>5, <1>7, SendUnitPreserves

\* or sends noise.
LEMMA SendNoisePreserves ==
  ASSUME IInv, NEW c \in Conns, SendNoise(c)
  PROVE  IInv'
<1>1. PICK kinds \in Seq(Kinds), left \in 0..MaxInput :
        /\ kinds = sent[c] /\ left = rest[c] /\ Len(kinds) <= MaxFrames
        /\ left > 0 => Len(kinds) > 0 /\ ~Malformed(kinds)
  BY ConnTyped DEF ConnValid
<1>2. /\ CanSend(c) /\ Malformed(sent[c]) /\ SendUnit(c, Noise)
      /\ sent' = [sent EXCEPT ![c] = kinds] /\ rest' = [rest EXCEPT ![c] = left]
  BY <1>1 DEF SendNoise, IInv, TypeOK
<1>3. Noise \in Unit
  BY ServerAssumption DEF Noise, Unit
<1>. QED  BY <1>1, <1>2, <1>3, SendUnitPreserves

\* A peer that reads gets the next reply.
LEMMA ReadReplyPreserves ==
  ASSUME IInv, NEW c \in Conns, ReadReply(c)
  PROVE  IInv'
<1>. USE DEF IInv
<1>1. /\ snd[c] # <<>>
      /\ got' = [got EXCEPT ![c] = WithReply(got[c], Head(snd[c]))]
      /\ snd' = [snd EXCEPT ![c] = Tail(snd[c])]
      /\ UNCHANGED <<server, sock, backlog, rcv, state, sent, rest, stopCalled>>
  BY DEF ReadReply
<1>2. /\ got[c] \in Seq(Reply) /\ snd[c] \in Seq(Reply)
      /\ WithReply(got[c], Head(snd[c])) \in Seq(Reply) /\ Tail(snd[c]) \in Seq(Reply)
  BY <1>1, ConnTyped, HeadTailProperties, AppendProperties DEF WithReply
<1>3. /\ got'[c] = WithReply(got[c], Head(snd[c])) /\ snd'[c] = Tail(snd[c])
      /\ \A d \in Conns \ {c} : got'[d] = got[d] /\ snd'[d] = snd[d]
      /\ got' \in [Conns -> Seq(Reply)] /\ snd' \in [Conns -> Seq(Reply)]
  BY <1>1, <1>2 DEF TypeOK
<1>4. TypeOK'
  BY <1>1, <1>3 DEF TypeOK, server, round
<1>5. BacklogApart'
  BY <1>1 DEF BacklogApart
<1>6. ConnValid(c, WithReply(got[c], Head(snd[c])), Tail(snd[c]), Out(c), In(c), rcv[c],
                state[c], sent[c], rest[c])
  BY <1>1, ConnTyped, ReplyRead
<1>7. \A f \in Fds : sock[f] = c => state'[c] \in {"open", "fin", "reset"}
  <2>1. c # None
    BY ServerAssumption
  <2>. QED  BY <1>1, <2>1 DEF SocketsApart
<1>. QED  BY <1>1, <1>3, <1>4, <1>5, <1>6, <1>7, PeerPreserves

\* A peer that hangs up takes nothing along that was received.
LEMMA HangupPreserves ==
  ASSUME IInv, NEW c \in Conns, NEW how \in {"fin", "reset"}, Hangup(c, how)
  PROVE  IInv'
<1>. USE DEF IInv
<1>1. /\ state[c] \in {"pending", "open", "fin"} /\ state' = [state EXCEPT ![c] = how]
      /\ UNCHANGED <<server, sock, backlog, rcv, snd, sent, rest, got, stopCalled>>
  BY DEF Hangup, peers
<1>2. state'[c] = how /\ \A d \in Conns \ {c} : state'[d] = state[d]
  BY <1>1 DEF TypeOK
<1>3. TypeOK'
  BY <1>1 DEF TypeOK, server, round
<1>4. BacklogApart'
  <2>1. \A i \in 1..Len(backlog) : backlog[i] \in Conns
    BY ElementOfSeq DEF TypeOK
  <2>. QED  BY <1>1, <1>2, <2>1 DEF BacklogApart
<1>5. ConnValid(c, got[c], snd[c], Out(c), In(c), rcv[c], how, sent[c], rest[c])
  <2>1. state[c] # "closed" /\ how \notin {"new", "closed"}
    BY <1>1
  <2>2. ConnValid(c, got[c], snd[c], Out(c), In(c), rcv[c], state[c], sent[c], rest[c])
    BY ConnTyped
  <2>. QED  BY <2>1, <2>2, StateChanges
<1>. QED  BY <1>1, <1>2, <1>3, <1>4, <1>5, PeerPreserves

-----------------------------------------------------------------------------
(* The steps that open, serve and close a client.                          *)

\* A connection that is accepted gets a descriptor that no other has.
LEMMA AcceptPreserves ==
  ASSUME IInv, Accept
  PROVE  IInv'
<1>. USE DEF IInv
<1>1. PICK c, f : /\ c = Head(backlog)
                  /\ f = CHOOSE g \in FreeFds : \A h \in FreeFds : g <= h
  OBVIOUS
<1>2. /\ pc = "accept" /\ backlog # <<>> /\ FreeFds # {}
      /\ backlog' = Tail(backlog)
      /\ sock' = [sock EXCEPT ![f] = c]
      /\ state' = [state EXCEPT ![c] = IF @ = "pending" THEN "open" ELSE @]
      /\ clients' = IF clients[f] = None
                    THEN [clients EXCEPT ![f] = [in |-> <<>>, out |-> <<>>]]
                    ELSE clients
      /\ UNCHANGED <<pc, running, arrivals, pollset, owner, index, rcv, snd, sent, rest, got,
                     stopCalled>>
  BY <1>1 DEF Accept, CallsAccept, round, peers
<1>3. f \in Fds /\ sock[f] = None /\ clients[f] = None
  <2>1. FreeFds \subseteq Nat /\ FreeFds # {}
    BY <1>2, ServerAssumption DEF FreeFds
  <2>2. \E g \in FreeFds : \A h \in FreeFds : g <= h
    BY <2>1, LeastElement
  <2>3. f \in FreeFds
    BY <1>1, <2>2
  <2>. QED  BY <2>3 DEF FreeFds, TypeOK
<1>4. /\ Len(backlog) \in Nat /\ Len(backlog) > 0 /\ c \in Conns /\ c = backlog[1]
      /\ backlog' \in Seq(Conns) /\ Len(backlog') = Len(backlog) - 1
      /\ \A i \in 1..(Len(backlog) - 1) : backlog'[i] = backlog[i + 1]
  BY <1>1, <1>2, EmptySeq, LenProperties, HeadTailProperties DEF TypeOK
<1>5. /\ c # None /\ state[c] \in {"pending", "fin", "reset"} /\ \A g \in Fds : sock[g] # c
  BY <1>4, ServerAssumption DEF BacklogApart
<1>6. /\ sock'[f] = c /\ \A g \in Fds \ {f} : sock'[g] = sock[g]
      /\ clients'[f] = [in |-> <<>>, out |-> <<>>]
      /\ \A g \in Fds \ {f} : clients'[g] = clients[g]
      /\ state'[c] \in {"open", "fin", "reset"}
      /\ \A d \in Conns \ {c} : state'[d] = state[d]
  BY <1>2, <1>3, <1>4, <1>5 DEF TypeOK
<1>7. clients'[f] \in Client /\ clients'[f] # None
  <2>1. [in |-> <<>>, out |-> <<>>] \in Client
    BY EmptySeq DEF Client
  <2>. QED  BY <1>6, <2>1, ServerAssumption
<1>8. TypeOK'
  <2>1. clients' \in [Fds -> Client \cup {None}]
    BY <1>2, <1>3, <1>6, <1>7 DEF TypeOK
  <2>2. sock' \in [Fds -> Conns \cup {None}]
    BY <1>2, <1>4 DEF TypeOK
  <2>3. state' \in [Conns -> {"new", "pending", "open", "fin", "reset", "closed"}]
    BY <1>2, <1>4, <1>5 DEF TypeOK
  <2>4. \A g \in Fds : clients'[g] = None <=> sock'[g] = None
    <3>1. clients'[f] # None /\ sock'[f] # None
      BY <1>5, <1>6, <1>7
    <3>. QED  BY <1>6, <3>1 DEF TypeOK
  <2>5. backlog' \in Seq(Conns)
    BY <1>4
  <2>. QED  BY <1>2, <2>1, <2>2, <2>3, <2>4, <2>5 DEF TypeOK
<1>9. SocketsApart'
  <2>1. \A g, h \in Fds : sock'[g] # None /\ sock'[g] = sock'[h] => g = h
    BY <1>5, <1>6 DEF SocketsApart
  <2>2. ASSUME NEW g \in Fds, sock'[g] # None
        PROVE  state'[sock'[g]] \in {"open", "fin", "reset"}
    <3>1. CASE g = f
      BY <1>6, <3>1
    <3>2. CASE g # f
      <4>1. sock'[g] = sock[g] /\ sock[g] \in Conns \ {c}
        BY <1>5, <1>6, <2>2, <3>2 DEF TypeOK
      <4>2. state[sock[g]] \in {"open", "fin", "reset"}
        BY <2>2, <4>1 DEF SocketsApart
      <4>. QED  BY <1>6, <4>1, <4>2
    <3>. QED  BY <3>1, <3>2
  <2>. QED  BY <2>1, <2>2 DEF SocketsApart
<1>10. BacklogApart'
  <2>1. \A i \in 1..Len(backlog') : i + 1 \in 1..Len(backlog) /\ backlog'[i] = backlog[i + 1]
    BY <1>4
  <2>2. \A i \in 1..Len(backlog') : backlog'[i] # c /\ backlog'[i] \in Conns
    <3>. TAKE i \in 1..Len(backlog')
    <3>1. i + 1 \in 1..Len(backlog) /\ i + 1 # 1 /\ 1 \in 1..Len(backlog)
      BY <1>4, <2>1
    <3>2. backlog[i + 1] # backlog[1]
      BY <3>1 DEF BacklogApart
    <3>3. backlog'[i] \in Conns
      BY <1>4, ElementOfSeq
    <3>4. QED  BY <1>4, <2>1, <3>2, <3>3
  <2>3. ASSUME NEW i \in 1..Len(backlog'), NEW j \in 1..Len(backlog'),
               backlog'[i] = backlog'[j]
        PROVE  i = j
    <3>1. i + 1 = j + 1
      BY <2>1, <2>3 DEF BacklogApart
    <3>. QED  BY <1>4, <3>1
  <2>4. ASSUME NEW i \in 1..Len(backlog')
        PROVE  /\ state'[backlog'[i]] \in {"pending", "fin", "reset"}
               /\ \A g \in Fds : sock'[g] # backlog'[i]
    <3>1. /\ state[backlog'[i]] \in {"pending", "fin", "reset"}
          /\ \A g \in Fds : sock[g] # backlog'[i]
      BY <2>1 DEF BacklogApart
    <3>2. backlog'[i] # c /\ backlog'[i] \in Conns
      BY <2>2
    <3>. QED  BY <1>6, <3>1, <3>2
  <2>. QED  BY <2>3, <2>4 DEF BacklogApart
<1>11. /\ Len(pollset) \in Nat /\ index = 1
       /\ \A i \in 1..Len(pollset) : pollset[i].fd \in Fds /\ clients[pollset[i].fd] # None
  <2>1. ASSUME NEW i \in 1..Len(pollset) PROVE pollset[i].fd \in Fds
    <3>1. pollset[i] \in Pollfd
      BY ElementOfSeq DEF TypeOK
    <3>. QED  BY <3>1 DEF Pollfd
  <2>. QED  BY <1>2, <2>1, LenProperties DEF TypeOK, RoundValid
<1>12. \A i \in 1..Len(pollset) : /\ clients'[pollset[i].fd] = clients[pollset[i].fd]
                                  /\ sock'[pollset[i].fd] = sock[pollset[i].fd]
  <2>1. \A i \in 1..Len(pollset) : pollset[i].fd \in Fds \ {f}
    BY <1>3, <1>11
  <2>. QED  BY <1>6, <2>1
<1>13. RoundValid' /\ OwnersKept'
  BY <1>2, <1>11, <1>12 DEF RoundValid, OwnersKept, InRound
<1>14. ConnInv(c)'
  <2>1. In(c) = <<>> /\ Out(c) = <<>>
    BY <1>5, NoBuffer
  <2>2. In(c)' = <<>> /\ Out(c)' = <<>>
    BY <1>3, <1>5, <1>6, <1>9, BufferOfNext
  <2>3. ConnValid(c, got[c], snd[c], <<>>, <<>>, rcv[c], state[c], sent[c], rest[c])
    BY <1>4, <2>1, ConnTyped
  <2>4. state[c] # "closed" /\ state'[c] \notin {"new", "closed"}
    BY <1>5, <1>6
  <2>5. ConnValid(c, got[c], snd[c], <<>>, <<>>, rcv[c], state'[c], sent[c], rest[c])
    BY <2>3, <2>4, StateChanges
  <2>. QED  BY <1>2, <2>2, <2>5 DEF ConnInv
<1>15. ASSUME NEW d \in Conns \ {c} PROVE ConnInv(d)'
  <2>1. d # None
    BY ServerAssumption
  <2>2. \A g \in Fds : sock'[g] = d <=> sock[g] = d
    BY <1>3, <1>6, <2>1
  <2>3. \A g \in Fds : sock[g] = d => clients'[g] = clients[g]
    BY <1>3, <1>6, <2>1
  <2>. QED  BY <1>2, <1>6, <1>9, <2>1, <2>2, <2>3, Unaffected
<1>. QED  BY <1>8, <1>9, <1>10, <1>13, <1>14, <1>15

\* The entry that is handled: its descriptor, client and connection.
LEMMA CurrentValid ==
  ASSUME IInv, pc \in {"loop", "read", "write"}, index <= Len(pollset),
         clients[CurrentFd] # None
  PROVE  /\ CurrentFd \in Fds /\ CurrentFd = pollset[index].fd
         /\ index \in 1..Len(pollset) /\ Len(pollset) \in Nat
         /\ CurrentConn \in Conns /\ CurrentConn # None /\ CurrentConn = sock[CurrentFd]
         /\ state[CurrentConn] \in {"open", "fin", "reset"}
         /\ clients[CurrentFd] \in Client
         /\ In(CurrentConn) = clients[CurrentFd].in
         /\ Out(CurrentConn) = clients[CurrentFd].out
<1>. USE DEF IInv
<1>1. Len(pollset) \in Nat /\ index \in 1..Len(pollset)
  BY LenProperties DEF TypeOK
<1>2. CurrentFd = pollset[index].fd /\ CurrentFd \in Fds
  <2>1. pollset[index] \in Pollfd
    BY <1>1, ElementOfSeq DEF TypeOK
  <2>. QED  BY <2>1 DEF CurrentFd, Current, Pollfd
<1>3. /\ CurrentConn = sock[CurrentFd] /\ CurrentConn # None /\ CurrentConn \in Conns
      /\ clients[CurrentFd] \in Client
  BY <1>2 DEF TypeOK, CurrentConn
<1>4. state[CurrentConn] \in {"open", "fin", "reset"}
  BY <1>2, <1>3 DEF SocketsApart
<1>5. In(CurrentConn) = clients[CurrentFd].in /\ Out(CurrentConn) = clients[CurrentFd].out
  BY <1>2, <1>3, BufferOf
<1>. QED  BY <1>1, <1>2, <1>3, <1>4, <1>5

\* The client of the current entry is closed; the connection is not heard of
\* again, and no other entry is affected.
LEMMA ClosePreserves ==
  ASSUME IInv, pc \in {"loop", "read", "write"}, index <= Len(pollset),
         clients[CurrentFd] # None, CloseFd(CurrentFd), NextEntry,
         UNCHANGED <<running, round, backlog, snd, peers, stopCalled>>
  PROVE  IInv'
<1>. USE DEF IInv
<1>1. PICK f \in Fds, c \in Conns :
        /\ f = CurrentFd /\ c = CurrentConn /\ f = pollset[index].fd /\ c = sock[f]
        /\ c # None /\ state[c] \in {"open", "fin", "reset"} /\ clients[f] # None
  BY CurrentValid
<1>2. /\ sock' = [sock EXCEPT ![f] = None] /\ clients' = [clients EXCEPT ![f] = None]
      /\ state' = [state EXCEPT ![c] = "closed"] /\ rcv' = [rcv EXCEPT ![c] = <<>>]
      /\ pc' = "loop" /\ index' = index + 1
      /\ UNCHANGED <<running, arrivals, pollset, owner, backlog, snd, sent, rest, got,
                     stopCalled>>
  BY <1>1 DEF CloseFd, WithoutClient, NextEntry, round, peers
<1>3. /\ sock'[f] = None /\ \A g \in Fds \ {f} : sock'[g] = sock[g]
      /\ clients'[f] = None /\ \A g \in Fds \ {f} : clients'[g] = clients[g]
      /\ state'[c] = "closed" /\ \A d \in Conns \ {c} : state'[d] = state[d]
      /\ rcv'[c] = <<>> /\ \A d \in Conns \ {c} : rcv'[d] = rcv[d]
  BY <1>2 DEF TypeOK
<1>4. /\ Len(pollset) \in Nat /\ index \in 1..Len(pollset)
      /\ Len(pollset) <= Cardinality(Fds) /\ Cardinality(Fds) \in Nat
  BY LenProperties, ServerAssumption, FS_CardinalityType DEF TypeOK, RoundValid
<1>5. TypeOK'
  <2>1. index' \in 1..(Cardinality(Fds) + 1)
    BY <1>2, <1>4
  <2>2. clients' \in [Fds -> Client \cup {None}] /\ sock' \in [Fds -> Conns \cup {None}]
    BY <1>2 DEF TypeOK
  <2>3. /\ state' \in [Conns -> {"new", "pending", "open", "fin", "reset", "closed"}]
        /\ rcv' \in [Conns -> Seq(Unit)]
    BY <1>2, EmptySeq DEF TypeOK
  <2>4. \A g \in Fds : clients'[g] = None <=> sock'[g] = None
    BY <1>3 DEF TypeOK
  <2>. QED  BY <1>2, <2>1, <2>2, <2>3, <2>4 DEF TypeOK
<1>6. \A g \in Fds : sock[g] = c => g = f
  BY <1>1 DEF SocketsApart
<1>7. SocketsApart'
  <2>1. \A g, h \in Fds : sock'[g] # None /\ sock'[g] = sock'[h] => g = h
    BY <1>3 DEF SocketsApart
  <2>2. ASSUME NEW g \in Fds, sock'[g] # None
        PROVE  state'[sock'[g]] \in {"open", "fin", "reset"}
    <3>1. g # f /\ sock'[g] = sock[g] /\ sock[g] \in Conns \ {c}
      BY <1>3, <1>6, <2>2 DEF TypeOK
    <3>2. state[sock[g]] \in {"open", "fin", "reset"}
      BY <2>2, <3>1 DEF SocketsApart
    <3>. QED  BY <1>3, <3>1, <3>2
  <2>. QED  BY <2>1, <2>2 DEF SocketsApart
<1>8. BacklogApart'
  <2>1. \A i \in 1..Len(backlog) : backlog[i] \in Conns /\ backlog[i] # c
    <3>1. \A i \in 1..Len(backlog) : backlog[i] \in Conns
      BY ElementOfSeq DEF TypeOK
    <3>2. \A i \in 1..Len(backlog) : sock[f] # backlog[i]
      BY DEF BacklogApart
    <3>. QED  BY <1>1, <3>1, <3>2
  <2>2. ASSUME NEW i \in 1..Len(backlog)
        PROVE  /\ state'[backlog[i]] \in {"pending", "fin", "reset"}
               /\ \A g \in Fds : sock'[g] # backlog[i]
    <3>1. /\ state[backlog[i]] \in {"pending", "fin", "reset"}
          /\ \A g \in Fds : sock[g] # backlog[i]
      BY DEF BacklogApart
    <3>2. backlog[i] # None
      BY <2>1, ServerAssumption
    <3>. QED  BY <1>3, <2>1, <3>1, <3>2
  <2>. QED  BY <1>2, <2>2 DEF BacklogApart
<1>9. \A i, j \in 1..Len(pollset) : pollset[i].fd = pollset[j].fd => i = j
  BY DEF RoundValid, InRound
<1>10. RoundValid'
  BY <1>2, <1>4, <1>9 DEF RoundValid
<1>11. OwnersKept'
  <2>. SUFFICES ASSUME NEW i \in (index + 1)..Len(pollset), clients'[pollset[i].fd] # None
                PROVE  sock'[pollset[i].fd] = owner[i]
    BY <1>2 DEF OwnersKept
  <2>1. i \in 1..Len(pollset) /\ i # index /\ i \in index..Len(pollset)
    BY <1>4
  <2>2. pollset[i].fd # f
    BY <1>1, <1>4, <1>9, <2>1
  <2>3. pollset[i] \in Pollfd
    BY <2>1, ElementOfSeq DEF TypeOK
  <2>4. pollset[i].fd \in Fds \ {f}
    BY <2>2, <2>3 DEF Pollfd
  <2>. QED  BY <1>3, <2>1, <2>4 DEF OwnersKept, InRound
<1>12. ConnInv(c)'
  <2>1. In(c)' = <<>> /\ Out(c)' = <<>>
    <3>1. \A g \in Fds : sock'[g] # c
      BY <1>1, <1>3, <1>6
    <3>. QED  BY <3>1, NoBufferNext
  <2>2. ConnValid(c, got[c], snd[c], <<>>, <<>>, <<>>, "closed", sent[c], rest[c])
    BY ConnTyped, ConnectionClosed
  <2>. QED  BY <1>2, <1>3, <2>1, <2>2 DEF ConnInv
<1>13. ASSUME NEW d \in Conns \ {c} PROVE ConnInv(d)'
  <2>1. d # None
    BY ServerAssumption
  <2>2. \A g \in Fds : sock'[g] = d <=> sock[g] = d
    BY <1>1, <1>3, <2>1
  <2>3. \A g \in Fds : sock[g] = d => clients'[g] = clients[g]
    BY <1>1, <1>3, <2>1
  <2>. QED  BY <1>2, <1>3, <1>7, <2>1, <2>2, <2>3, Unaffected
<1>. QED  BY <1>5, <1>7, <1>8, <1>10, <1>11, <1>12, <1>13

\* The client of the current entry is served: only its buffers and those of the
\* kernel for its connection change.
LEMMA ServePreserves ==
  ASSUME IInv, pc \in {"read", "write"},
         UNCHANGED <<pc, index, running, round, sock, backlog, state, peers, stopCalled>>,
         NEW in \in Seq(Unit), NEW out \in Seq(Reply),
         clients' = [clients EXCEPT ![CurrentFd] = [in |-> in, out |-> out]],
         rcv' \in [Conns -> Seq(Unit)], snd' \in [Conns -> Seq(Reply)],
         \A d \in Conns \ {CurrentConn} : rcv'[d] = rcv[d] /\ snd'[d] = snd[d],
         ConnValid(CurrentConn, got[CurrentConn], snd'[CurrentConn], out, in,
                   rcv'[CurrentConn], state[CurrentConn], sent[CurrentConn],
                   rest[CurrentConn])
  PROVE  IInv'
<1>. USE DEF IInv
<1>1. index <= Len(pollset) /\ clients[CurrentFd] # None
  BY DEF RoundValid, CurrentFd, Current
<1>2. PICK f \in Fds, c \in Conns :
        /\ f = CurrentFd /\ c = CurrentConn /\ c = sock[f] /\ c # None
  BY <1>1, CurrentValid
<1>3. /\ clients' = [clients EXCEPT ![f] = [in |-> in, out |-> out]]
      /\ UNCHANGED <<pc, index, running, arrivals, pollset, owner, sock, backlog, state,
                     sent, rest, got, stopCalled>>
      /\ \A d \in Conns \ {c} : rcv'[d] = rcv[d] /\ snd'[d] = snd[d]
      /\ ConnValid(c, got[c], snd'[c], out, in, rcv'[c], state[c], sent[c], rest[c])
  BY <1>2 DEF round, peers
<1>4. /\ clients'[f] = [in |-> in, out |-> out]
      /\ \A g \in Fds \ {f} : clients'[g] = clients[g]
      /\ clients'[f] \in Client /\ clients'[f] # None
  <2>1. [in |-> in, out |-> out] \in Client
    BY DEF Client
  <2>2. clients'[f] = [in |-> in, out |-> out]
    BY <1>3 DEF TypeOK
  <2>3. \A g \in Fds \ {f} : clients'[g] = clients[g]
    BY <1>3 DEF TypeOK
  <2>4. None \notin Client
    BY ServerAssumption
  <2>5. clients'[f] \in Client
    BY <2>1, <2>2
  <2>. QED  BY <2>2, <2>3, <2>4, <2>5
<1>5. \A g \in Fds : clients'[g] = None <=> clients[g] = None
  BY <1>1, <1>2, <1>4
<1>6. TypeOK'
  <2>1. clients' \in [Fds -> Client \cup {None}]
    BY <1>3, <1>4 DEF TypeOK
  <2>. QED  BY <1>3, <1>5, <2>1 DEF TypeOK
<1>7. SocketsApart' /\ BacklogApart'
  <2>1. sock' = sock /\ state' = state /\ backlog' = backlog
    BY <1>3
  <2>2. SocketsApart'
    BY <2>1 DEF SocketsApart
  <2>3. BacklogApart'
    BY <2>1 DEF BacklogApart
  <2>. QED  BY <2>2, <2>3
<1>8. \A i \in 1..Len(pollset) : pollset[i].fd \in Fds
  <2>. TAKE i \in 1..Len(pollset)
  <2>1. pollset[i] \in Pollfd
    BY ElementOfSeq DEF TypeOK
  <2>2. QED  BY <2>1 DEF Pollfd
<1>9. Len(pollset) \in Nat /\ index \in 1..Len(pollset)
  BY <1>1, LenProperties DEF TypeOK
<1>10. RoundValid'
  BY <1>3, <1>5, <1>8, <1>9 DEF RoundValid
<1>11. OwnersKept'
  <2>1. \A i \in index..Len(pollset) : i \in 1..Len(pollset)
    BY <1>9
  <2>. QED  BY <1>3, <1>5, <1>8, <2>1 DEF OwnersKept
<1>12. ConnInv(c)'
  <2>1. In(c)' = clients'[f].in /\ Out(c)' = clients'[f].out
    BY <1>2, <1>3, <1>7, BufferOfNext
  <2>2. In(c)' = in /\ Out(c)' = out
    BY <1>4, <2>1
  <2>. QED  BY <1>3, <2>2 DEF ConnInv
<1>13. ASSUME NEW d \in Conns \ {c} PROVE ConnInv(d)'
  <2>1. d # None
    BY ServerAssumption
  <2>2. \A g \in Fds : sock'[g] = d <=> sock[g] = d
    BY <1>3
  <2>3. \A g \in Fds : sock[g] = d => clients'[g] = clients[g]
    BY <1>2, <1>4
  <2>. QED  BY <1>3, <1>7, <2>1, <2>2, <2>3, Unaffected
<1>. QED  BY <1>6, <1>7, <1>10, <1>11, <1>12, <1>13

\* handle_read() turns whole frames into replies, in order.
LEMMA ReceivePreserves ==
  ASSUME IInv, Receive
  PROVE  IInv'
<1>. USE DEF IInv
<1>1. /\ pc = "read" /\ index <= Len(pollset) /\ clients[CurrentFd] # None
  BY DEF Receive, RoundValid, CurrentFd, Current
<1>2. PICK f \in Fds, c \in Conns :
        /\ f = CurrentFd /\ c = CurrentConn /\ c = sock[f] /\ c # None
        /\ state[c] \in {"open", "fin", "reset"} /\ clients[f] \in Client
        /\ In(c) = clients[f].in /\ Out(c) = clients[f].out
  BY <1>1, CurrentValid
<1>3. PICK n, in : /\ n = IF Len(rcv[c]) < Chunk THEN Len(rcv[c]) ELSE Chunk
                   /\ in = clients[f].in \o SubSeq(rcv[c], 1, n)
  OBVIOUS
<1>4. CASE CloseFd(f) /\ NextEntry
  BY <1>1, <1>2, <1>4, ClosePreserves DEF Receive
<1>5. ASSUME NEW skip \in 0..(Len(in) - EndOfExtracted(in)), NEW errors \in 0..MaxErrors,
             Process(clients[f], c, in, skip, errors),
             rcv' = [rcv EXCEPT ![c] = SubSeq(rcv[c], n + 1, Len(rcv[c]))],
             UNCHANGED <<pc, index, sock, state>>
      PROVE  IInv'
  <2>1. UNCHANGED <<running, round, backlog, snd, peers, stopCalled>>
    BY DEF Receive
  <2>2. Len(rcv[c]) \in Nat /\ rcv[c] \in Seq(Unit)
    BY ConnTyped, LenProperties
  <2>3. n \in 0..Len(rcv[c])
    BY <1>3, <2>2, ServerAssumption
  <2>4. in = In(c) \o SubSeq(rcv[c], 1, n)
    BY <1>2, <1>3
  <2>5. PICK replies \in Seq(Reply), left \in Seq(Unit) :
          /\ replies = Replies(c, Frames(in), errors) /\ left = Left(in, skip)
          /\ ConnValid(c, got[c], snd[c], Out(c) \o replies, left,
                       SubSeq(rcv[c], n + 1, Len(rcv[c])), state[c], sent[c], rest[c])
    <3>1. state[c] \notin {"new", "closed"}
      BY <1>2
    <3>2. errors \in Nat /\ (errors > 0 => IsNoisy(in))
      <4>1. skip \in Int /\ 0 <= skip /\ errors \in Nat
        BY ServerAssumption
      <4>2. skip + errors > 0 => IsNoisy(in)
        BY <1>5 DEF Process
      <4>. QED  BY <4>1, <4>2
    <3>3. PICK g, s, o \in Seq(Reply), i, r \in Seq(Unit), k \in Seq(Kinds),
               l \in 0..MaxInput :
            /\ g = got[c] /\ s = snd[c] /\ o = Out(c) /\ i = In(c) /\ r = rcv[c]
            /\ k = sent[c] /\ l = rest[c]
      BY ConnTyped
    <3>4. ConnValid(c, g, s, o, i, r, state[c], k, l)
      BY <3>3, ConnTyped
    <3>5. n \in 0..Len(r) /\ in = i \o SubSeq(r, 1, n)
      BY <2>3, <2>4, <3>3
    <3>6. /\ Replies(c, Frames(in), errors) \in Seq(Reply) /\ Left(in, skip) \in Seq(Unit)
          /\ ConnValid(c, g, s, o \o Replies(c, Frames(in), errors), Left(in, skip),
                       SubSeq(r, n + 1, Len(r)), state[c], k, l)
      BY <3>1, <3>2, <3>4, <3>5, UnitsReceived
    <3>. QED  BY <3>3, <3>6
  <2>6. PICK out \in Seq(Reply) : out = Out(c) \o replies
    BY ConnTyped, ConcatProperties
  <2>7. SubSeq(rcv[c], n + 1, Len(rcv[c])) \in Seq(Unit)
    BY <2>2, <2>3, CutSeq
  <2>8. /\ rcv' \in [Conns -> Seq(Unit)] /\ rcv'[c] = SubSeq(rcv[c], n + 1, Len(rcv[c]))
        /\ \A d \in Conns \ {c} : rcv'[d] = rcv[d]
    BY <1>5, <2>7 DEF TypeOK
  <2>9. clients' = [clients EXCEPT ![f] = [in |-> left, out |-> out]]
    BY <1>2, <1>5, <2>5, <2>6 DEF Process
  <2>10. snd' = snd /\ snd' \in [Conns -> Seq(Reply)]
    BY <2>1 DEF TypeOK
  <2>11. ConnValid(c, got[c], snd'[c], out, left, rcv'[c], state[c], sent[c], rest[c])
    BY <2>5, <2>6, <2>8, <2>10
  <2>12. UNCHANGED <<pc, index, running, round, sock, backlog, state, peers, stopCalled>>
    BY <1>5, <2>1
  <2>. QED  BY <1>1, <1>2, <2>8, <2>9, <2>10, <2>11, <2>12, ServePreserves
<1>6. \/ CloseFd(f) /\ NextEntry
      \/ /\ rcv' = [rcv EXCEPT ![c] = SubSeq(rcv[c], n + 1, Len(rcv[c]))]
         /\ \E skip \in 0..(Len(in) - EndOfExtracted(in)), errors \in 0..MaxErrors :
              Process(clients[f], c, in, skip, errors)
         /\ UNCHANGED <<pc, index, sock, state>>
  <2>. DEFINE length == IF Len(rcv[CurrentConn]) < Chunk THEN Len(rcv[CurrentConn]) ELSE Chunk
  <2>1. n = length /\ in = clients[CurrentFd].in \o SubSeq(rcv[CurrentConn], 1, length)
    BY <1>2, <1>3
  <2>. QED  BY <1>2, <2>1 DEF Receive
<1>. QED  BY <1>4, <1>5, <1>6

\* handle_write() moves replies on, in order.
LEMMA TransmitPreserves ==
  ASSUME IInv, Transmit
  PROVE  IInv'
<1>. USE DEF IInv
<1>1. /\ pc = "write" /\ index <= Len(pollset) /\ clients[CurrentFd] # None
  BY DEF Transmit, RoundValid, CurrentFd, Current
<1>2. PICK f \in Fds, c \in Conns :
        /\ f = CurrentFd /\ c = CurrentConn /\ c = sock[f] /\ c # None
        /\ clients[f] \in Client
        /\ In(c) = clients[f].in /\ Out(c) = clients[f].out
  BY <1>1, CurrentValid
<1>3. PICK n : n = IF Len(clients[f].out) < SendRoom - Len(snd[c])
                   THEN Len(clients[f].out) ELSE SendRoom - Len(snd[c])
  OBVIOUS
<1>4. /\ SendRoom - Len(snd[c]) > 0
      /\ snd' = [snd EXCEPT ![c] = snd[c] \o SubSeq(clients[f].out, 1, n)]
      /\ clients' = [clients EXCEPT ![f].out = AfterErase(@, n)]
      /\ UNCHANGED <<pc, index, running, round, sock, backlog, rcv, state, peers,
                     stopCalled>>
  BY <1>2, <1>3 DEF Transmit
<1>5. /\ Len(Out(c)) \in Nat /\ Len(snd[c]) \in Nat
      /\ snd[c] \in Seq(Reply) /\ Out(c) \in Seq(Reply) /\ In(c) \in Seq(Unit)
  BY ConnTyped, LenProperties
<1>6. n \in 0..Len(Out(c))
  <2>1. SendRoom - Len(snd[c]) \in Nat
    BY <1>4, <1>5, ServerAssumption
  <2>2. Len(clients[f].out) = Len(Out(c))
    BY <1>2
  <2>. QED  BY <1>3, <1>5, <2>1, <2>2
<1>7. PICK out \in Seq(Reply) : out = SubSeq(Out(c), n + 1, Len(Out(c)))
  BY <1>5, <1>6, CutSeq
<1>8. clients' = [clients EXCEPT ![f] = [in |-> In(c), out |-> out]]
  <2>1. clients[f] = [in |-> In(c), out |-> Out(c)]
    BY <1>2 DEF Client
  <2>2. AfterErase(Out(c), n) = out
    BY <1>7 DEF AfterErase
  <2>3. clients' = [clients EXCEPT ![f] = [clients[f] EXCEPT !.out = AfterErase(@, n)]]
    BY <1>4
  <2>4. [clients[f] EXCEPT !.out = AfterErase(@, n)] = [in |-> In(c), out |-> AfterErase(Out(c), n)]
    BY <2>1
  <2>. QED  BY <2>2, <2>3, <2>4
<1>9. ConnValid(c, got[c], snd[c] \o SubSeq(Out(c), 1, n), out, In(c), rcv[c],
                state[c], sent[c], rest[c])
  BY <1>6, <1>7, ConnTyped, RepliesSent
<1>10. snd[c] \o SubSeq(Out(c), 1, n) \in Seq(Reply)
  <2>1. SubSeq(Out(c), 1, n) \in Seq(Reply)
    BY <1>5, <1>6, CutSeq
  <2>. QED  BY <1>5, <2>1, ConcatProperties
<1>11. /\ snd' \in [Conns -> Seq(Reply)] /\ snd'[c] = snd[c] \o SubSeq(Out(c), 1, n)
       /\ \A d \in Conns \ {c} : snd'[d] = snd[d]
       /\ rcv' = rcv /\ rcv' \in [Conns -> Seq(Unit)]
  BY <1>2, <1>4, <1>10 DEF TypeOK
<1>12. ConnValid(c, got[c], snd'[c], out, In(c), rcv'[c], state[c], sent[c], rest[c])
  BY <1>9, <1>11
<1>13. UNCHANGED <<pc, index, running, round, sock, backlog, state, peers, stopCalled>>
  BY <1>4
<1>. QED  BY <1>1, <1>2, <1>5, <1>8, <1>11, <1>12, <1>13, ServePreserves

\* The destructor closes every descriptor.
LEMMA DestroyPreserves ==
  ASSUME IInv, Destroy
  PROVE  IInv'
<1>. USE DEF IInv
<1>1. /\ pc' = "destroyed"
      /\ sock' = [f \in Fds |-> None] /\ clients' = [f \in Fds |-> None]
      /\ state' = [c \in Conns |-> IF state[c] = "new" THEN "new" ELSE "closed"]
      /\ rcv' = [c \in Conns |-> <<>>] /\ backlog' = <<>>
      /\ UNCHANGED <<running, arrivals, pollset, owner, index, snd, sent, rest, got, stopCalled>>
  BY DEF Destroy, Goto, round, peers
<1>2. TypeOK'
  <2>1. rcv' \in [Conns -> Seq(Unit)] /\ backlog' \in Seq(Conns)
    BY <1>1, EmptySeq
  <2>2. state' \in [Conns -> {"new", "pending", "open", "fin", "reset", "closed"}]
    BY <1>1
  <2>. QED  BY <1>1, <2>1, <2>2 DEF TypeOK
<1>3. SocketsApart'
  BY <1>1 DEF SocketsApart
<1>4. BacklogApart'
  BY <1>1 DEF BacklogApart
<1>5. RoundValid' /\ OwnersKept'
  BY <1>1 DEF RoundValid, OwnersKept, InRound
<1>6. ASSUME NEW c \in Conns PROVE ConnInv(c)'
  <2>1. c # None
    BY ServerAssumption
  <2>2. In(c)' = <<>> /\ Out(c)' = <<>>
    BY <1>1, <2>1, NoBufferNext
  <2>3. ConnValid(c, got[c], snd[c], Out(c), In(c), rcv[c], state[c], sent[c], rest[c])
    BY ConnTyped
  <2>4. CASE state[c] = "new"
    <3>1. In(c) = <<>> /\ Out(c) = <<>>
      BY <2>1, <2>4, NoBuffer DEF SocketsApart
    <3>2. rcv[c] = <<>>
      BY <2>3, <2>4 DEF ConnValid
    <3>. QED  BY <1>1, <2>2, <2>3, <2>4, <3>1, <3>2 DEF ConnInv
  <2>5. CASE state[c] # "new"
    <3>1. ConnValid(c, got[c], snd[c], <<>>, <<>>, <<>>, "closed", sent[c], rest[c])
      BY <2>3, ConnectionClosed
    <3>. QED  BY <1>1, <2>2, <2>5, <3>1 DEF ConnInv
  <2>. QED  BY <2>4, <2>5
<1>. QED  BY <1>2, <1>3, <1>4, <1>5, <1>6

-----------------------------------------------------------------------------
(* The invariant.                                                          *)

\* The invariant holds at the start.
LEMMA InitEstablishes == Init => IInv
<1>. SUFFICES ASSUME Init PROVE IInv
  OBVIOUS
<1>1. TypeOK
  <2>1. <<>> \in Seq(Pollfd) /\ <<>> \in Seq(Conns) /\ <<>> \in Seq(Unit) /\ <<>> \in Seq(Reply)
        /\ <<>> \in Seq(Kinds)
    BY EmptySeq
  <2>2. 1 \in 1..(Cardinality(Fds) + 1) /\ 0 \in 0..MaxInput
    BY ServerAssumption, FS_CardinalityType
  <2>. QED  BY <2>1, <2>2 DEF Init, TypeOK
<1>2. SocketsApart /\ BacklogApart
  BY DEF Init, SocketsApart, BacklogApart
<1>3. RoundValid /\ OwnersKept
  BY ServerAssumption, FS_CardinalityType DEF Init, RoundValid, OwnersKept, InRound
<1>4. ASSUME NEW c \in Conns PROVE ConnInv(c)
  <2>1. In(c) = <<>> /\ Out(c) = <<>>
    <3>1. c # None
      BY ServerAssumption
    <3>. QED  BY <3>1, NoBuffer DEF Init
  <2>2. /\ got[c] = <<>> /\ snd[c] = <<>> /\ rcv[c] = <<>> /\ state[c] = "new"
        /\ sent[c] = <<>> /\ rest[c] = 0
    BY DEF Init
  <2>3. RepliesNumbered(c, <<>>, <<>>, <<>>, Complete(<<>>, 0)) /\ NoneEnds(<<>>)
    BY DEF RepliesNumbered, Numbered, NoneEnds
  <2>4. ~Malformed(<<>>) /\ Complete(<<>>, 0) = 0
    BY DEF Malformed, Complete
  <2>5. UnitsContiguous(Len(<<>>) + Len(<<>>) + Len(<<>>), <<>>, <<>>, Complete(<<>>, 0),
                        Malformed(<<>>))
    <3>1. Len(<<>>) = 0 /\ NoneEnds(<<>>) /\ ~IsNoisy(<<>>) /\ NoiseBehind(<<>>)
      BY DEF NoneEnds, IsNoisy, NoiseBehind
    <3>2. Whole(<<>>) = 0 /\ Contiguous(<<>>, 0)
      BY <3>1, NoneEndsWhole
    <3>. QED  BY <2>4, <3>1, <3>2 DEF UnitsContiguous
  <2>6. ConnValid(c, <<>>, <<>>, <<>>, <<>>, <<>>, "new", <<>>, 0)
    BY <2>3, <2>4, <2>5, ServerAssumption DEF ConnValid
  <2>. QED  BY <2>1, <2>2, <2>6 DEF ConnInv
<1>. QED  BY <1>1, <1>2, <1>3, <1>4 DEF IInv

\* Every step keeps the invariant.
LEMMA NextPreserves == IInv /\ [Next]_vars => IInv'
<1>. SUFFICES ASSUME IInv, [Next]_vars PROVE IInv'
  OBVIOUS
<1>1. CASE ServerStep
  <2>1. CASE Startup \/ AcceptFails \/ AcceptDone \/ LoopDone \/ HandleEntry
               \/ ReceiveNothing \/ TransmitDone \/ LeaveLoop
    BY <2>1, ControlPreserves
  <2>2. CASE HandleHangup
    BY <2>2, ClosePreserves DEF HandleHangup
  <2>3. CASE ReceiveEnd
    <3>1. index <= Len(pollset) /\ clients[CurrentFd] # None /\ pc = "read"
      BY <2>3 DEF ReceiveEnd, IInv, RoundValid, CurrentFd, Current
    <3>. QED  BY <2>3, <3>1, ClosePreserves DEF ReceiveEnd
  <2>4. CASE TransmitFails
    <3>1. index <= Len(pollset) /\ clients[CurrentFd] # None /\ pc = "write"
      BY <2>4 DEF TransmitFails, IInv, RoundValid, CurrentFd, Current
    <3>. QED  BY <2>4, <3>1, ClosePreserves DEF TransmitFails
  <2>. QED
    BY <1>1, <2>1, <2>2, <2>3, <2>4, BuildPollSetPreserves, PollPreserves, AcceptPreserves,
       ReceivePreserves, TransmitPreserves, DestroyPreserves DEF ServerStep
<1>2. CASE StartupFails \/ PollFails \/ Stop
  BY <1>2, ControlPreserves
<1>3. ASSUME NEW c \in Conns,
             \/ Connect(c)
             \/ \E kind \in Kinds : StartFrame(c, kind)
             \/ ContinueFrame(c) \/ SendNoise(c)
             \/ ReadReply(c)
             \/ \E how \in {"fin", "reset"} : Hangup(c, how)
      PROVE  IInv'
  <2>1. CASE Connect(c)
    BY <2>1, ConnectPreserves
  <2>2. ASSUME NEW kind \in Kinds, StartFrame(c, kind) PROVE IInv'
    BY <2>2, StartFramePreserves
  <2>3. CASE ContinueFrame(c)
    BY <2>3, ContinueFramePreserves
  <2>4. CASE SendNoise(c)
    BY <2>4, SendNoisePreserves
  <2>5. CASE ReadReply(c)
    BY <2>5, ReadReplyPreserves
  <2>6. ASSUME NEW how \in {"fin", "reset"}, Hangup(c, how) PROVE IInv'
    BY <2>6, HangupPreserves
  <2>. QED  BY <1>3, <2>1, <2>2, <2>3, <2>4, <2>5, <2>6
<1>4. CASE UNCHANGED vars
  <2>1. /\ UNCHANGED <<clients, kernel, peers>>
        /\ UNCHANGED <<pc, running, arrivals, pollset, owner, index, stopCalled>>
    BY <1>4 DEF vars, server, round
  <2>2. TypeOK'
    BY <2>1, ControlTyped DEF IInv, TypeOK
  <2>3. RoundValid' /\ OwnersKept'
    BY <2>1 DEF IInv, RoundValid, OwnersKept, kernel
  <2>. QED  BY <2>1, <2>2, <2>3, OnlyControl DEF IInv
<1>. QED  BY <1>1, <1>2, <1>3, <1>4 DEF Next

\* The inductive invariant holds in every reachable state.
THEOREM Inductive == Spec => []IInv
  BY InitEstablishes, NextPreserves, PTL DEF Spec

\* Every variable keeps its type, and a client and its socket come and go
\* together: run() and the handlers erase one with the other.
THEOREM TypeCorrect == Spec => []TypeOK
<1>1. IInv => TypeOK
  BY DEF IInv
<1>. QED  BY <1>1, Inductive, PTL

\* All answers of a connection.
LEMMA AnswersNumbered ==
  ASSUME IInv, NEW c \in Conns
  PROVE  /\ Answers(c) \in Seq(Reply) /\ Numbered(c, Answers(c), 0, FramesSent(c))
         /\ Len(Answers(c)) = Len(got[c]) + Len(snd[c]) + Len(Out(c))
         /\ Len(Answers(c)) \in Nat /\ FramesSent(c) \in Nat
<1>1. /\ got[c] \in Seq(Reply) /\ snd[c] \in Seq(Reply) /\ Out(c) \in Seq(Reply)
      /\ RepliesNumbered(c, got[c], snd[c], Out(c), FramesSent(c))
  BY ConnTyped DEF ConnValid, FramesSent
<1>2. /\ Len(got[c]) \in Nat /\ Len(snd[c]) \in Nat /\ Len(Out(c)) \in Nat
      /\ got[c] \o snd[c] \in Seq(Reply) /\ Len(got[c] \o snd[c]) = Len(got[c]) + Len(snd[c])
  BY <1>1, LenProperties, ConcatProperties
<1>3. Numbered(c, got[c] \o snd[c], 0, FramesSent(c))
  <2>1. 0 + Len(got[c]) = Len(got[c])
    BY <1>2
  <2>. QED  BY <1>1, <2>1, RepliesJoined DEF RepliesNumbered
<1>4. Numbered(c, Answers(c), 0, FramesSent(c)) /\ Answers(c) \in Seq(Reply)
  <2>1. 0 + Len(got[c] \o snd[c]) = Len(got[c]) + Len(snd[c])
    BY <1>2
  <2>2. Answers(c) = (got[c] \o snd[c]) \o Out(c)
    BY DEF Answers, Out
  <2>3. Numbered(c, Out(c), 0 + Len(got[c] \o snd[c]), FramesSent(c)) /\ 0 \in Nat
    BY <1>1, <2>1 DEF RepliesNumbered
  <2>4. Numbered(c, (got[c] \o snd[c]) \o Out(c), 0, FramesSent(c))
    BY <1>1, <1>2, <1>3, <2>3, RepliesJoined
  <2>. QED  BY <1>1, <1>2, <2>2, <2>4, ConcatProperties
<1>5. Len(Answers(c)) = Len(got[c]) + Len(snd[c]) + Len(Out(c))
  BY <1>1, <1>2, ConcatProperties DEF Answers, Out
<1>6. FramesSent(c) \in Nat
  BY ConnTyped, CompleteIs DEF ConnValid, FramesSent
<1>7. Len(Answers(c)) \in Nat
  BY <1>4, LenProperties
<1>. QED  BY <1>4, <1>5, <1>6, <1>7

\* A peer has the replies to its own frames, each once and in the order it sent
\* them, and behind them those to noise, in what it received, what is on the way
\* and what is in the output buffer, although a descriptor passes from connection
\* to connection, requests arrive in parts and replies leave in parts.
THEOREM Ordered == Spec => []RepliesInOrder
<1>1. IInv => RepliesInOrder
  <2>. SUFFICES ASSUME IInv, NEW c \in Conns
                PROVE  Answers(c) = [i \in 1..Len(Answers(c)) |->
                                       [conn |-> c, n |-> IF i <= FramesSent(c) THEN i ELSE 0]]
    BY DEF RepliesInOrder
  <2>1. Answers(c) \in Seq(Reply) /\ Numbered(c, Answers(c), 0, FramesSent(c))
    BY AnswersNumbered
  <2>2. \A i \in 1..Len(Answers(c)) :
          Answers(c)[i] = [conn |-> c, n |-> IF i <= FramesSent(c) THEN i ELSE 0]
    <3>. TAKE i \in 1..Len(Answers(c))
    <3>1. 0 + i = i
      OBVIOUS
    <3>2. QED  BY <2>1, <3>1 DEF Numbered
  <2>3. Answers(c) = [i \in 1..Len(Answers(c)) |-> Answers(c)[i]]
    BY <2>1
  <2>. QED  BY <2>2, <2>3
<1>. QED  BY <1>1, Inductive, PTL

\* As long as a connection is open, each complete frame the peer sent in front of
\* the first malformed one has its reply, or is in the socket or in the input
\* buffer: recv() in chunks, the cut at the last whole request and the erase after
\* send() lose none and answer none twice.
THEOREM NoneLost == Spec => []NoFrameLost
<1>1. IInv => NoFrameLost
  <2>. SUFFICES ASSUME IInv, NEW c \in Conns, state[c] \in {"pending", "open", "fin"}
                PROVE  /\ Answered(c) \cup Unanswered(c) = 1..FramesSent(c)
                       /\ Answered(c) \cap Unanswered(c) = {}
    BY DEF NoFrameLost
  <2>. DEFINE answered == Len(Answers(c))
              complete == FramesSent(c)
              units == In(c) \o rcv[c]
  <2>1. /\ answered \in Nat /\ complete \in Nat /\ Answers(c) \in Seq(Reply)
        /\ Numbered(c, Answers(c), 0, complete)
        /\ answered = Len(got[c]) + Len(snd[c]) + Len(Out(c))
    BY AnswersNumbered
  <2>2. /\ In(c) \in Seq(Unit) /\ rcv[c] \in Seq(Unit) /\ NoneEnds(In(c))
        /\ UnitsContiguous(answered, In(c), rcv[c], complete, Malformed(sent[c]))
    BY <2>1, ConnTyped DEF ConnValid, FramesSent
  <2>. HIDE DEF answered, complete, units
  <2>3. /\ units \in Seq(Unit) /\ Contiguous(units, answered)
        /\ Whole(units) \in Nat /\ DOMAIN units = 1..Len(units) /\ Len(units) \in Nat
        /\ \/ answered + Whole(units) = complete
           \/ answered >= complete /\ Whole(units) = 0
    <3>1. Len(In(c)) \in Nat /\ Len(rcv[c]) \in Nat
      BY <2>2, LenProperties
    <3>2. Whole(In(c)) = 0 /\ Contiguous(In(c), answered)
      BY <2>2, <3>1, NoneEndsWhole
    <3>3. Contiguous(rcv[c], answered + Whole(In(c)))
      <4>1. answered + 0 = answered
        BY <2>1
      <4>. QED  BY <2>2, <3>2, <4>1 DEF UnitsContiguous
    <3>4. /\ Whole(rcv[c]) \in Nat /\ Whole(units) = 0 + Whole(rcv[c])
          /\ Contiguous(units, answered)
      BY <2>1, <2>2, <3>2, <3>3, UnitsJoined DEF units
    <3>5. units \in Seq(Unit)
      BY <2>2, ConcatProperties DEF units
    <3>6. NoneEnds(rcv[c]) => Whole(rcv[c]) = 0
      BY <3>1, NoneEndsWhole
    <3>7. \/ answered + Whole(rcv[c]) = complete
          \/ answered >= complete /\ Whole(rcv[c]) = 0
      BY <2>2, <3>6 DEF UnitsContiguous
    <3>. QED  BY <3>4, <3>5, <3>7, LenProperties
  <2>4. Answered(c) = {n \in 1..answered : n <= complete}
    <3>1. DOMAIN Answers(c) = 1..answered
      BY <2>1, LenProperties DEF answered
    <3>2. \A i \in 1..answered : Answers(c)[i].n = IF i <= complete THEN i ELSE 0
      <4>. TAKE i \in 1..answered
      <4>1. 0 + i = i /\ i \in 1..Len(Answers(c))
        BY DEF answered
      <4>2. Answers(c)[i] = [conn |-> c, n |-> IF i <= complete THEN i ELSE 0]
        BY <2>1, <4>1 DEF Numbered
      <4>3. QED  BY <4>2
    <3>3. Answered(c) = {Answers(c)[i].n : i \in 1..answered} \ {0}
      BY <3>1 DEF Answered
    <3>4. \A i \in 1..answered : i # 0 /\ i \in Nat
      BY <2>1
    <3>5. ASSUME NEW n PROVE n \in Answered(c) <=> n \in 1..answered /\ n <= complete
      <4>1. n \in Answered(c) => n \in 1..answered /\ n <= complete
        BY <3>2, <3>3
      <4>2. n \in 1..answered /\ n <= complete => n \in Answered(c)
        BY <3>2, <3>3, <3>4
      <4>. QED  BY <4>1, <4>2
    <3>. QED  BY <3>5
  <2>5. Unanswered(c) = (answered + 1)..(answered + Whole(units))
    <3>1. Unanswered(c) = {units[i].n : i \in {j \in 1..Len(units) : units[j].last}}
      BY <2>3 DEF Unanswered, units, In
    <3>2. ASSUME NEW i \in 1..Len(units), units[i].last
          PROVE  units[i].n \in (answered + 1)..(answered + Whole(units))
      <4>1. units[i].n = answered + 1 + Completed(units, i - 1)
        BY <2>3, <3>2 DEF Contiguous
      <4>2. /\ i - 1 \in Nat /\ (i - 1) + 1 = i /\ i \in Nat /\ i \in 0..Len(units)
        BY <2>3
      <4>3. Completed(units, i - 1) \in Nat /\ Completed(units, i) = Completed(units, i - 1) + 1
        <5>1. /\ Completed(units, i - 1) \in Nat
              /\ Completed(units, (i - 1) + 1) = Completed(units, i - 1) + 1
          BY <3>2, <4>2, CompletedStep
        <5>. QED  BY <4>2, <5>1
      <4>4. Completed(units, i) <= Whole(units)
        <5>1. /\ Whole(SubSeq(units, 1, i)) = Completed(units, i)
              /\ Whole(SubSeq(units, i + 1, Len(units))) \in Nat
              /\ Whole(units) = Whole(SubSeq(units, 1, i)) + Whole(SubSeq(units, i + 1, Len(units)))
          BY <2>1, <2>3, <4>2, UnitsCut
        <5>. QED  BY <2>3, <4>3, <5>1
      <4>5. PICK a, w, k \in Nat : a = answered /\ w = Whole(units) /\ k = Completed(units, i - 1)
        BY <2>1, <2>3, <4>3
      <4>6. k + 1 <= w /\ units[i].n = a + 1 + k
        BY <4>1, <4>3, <4>4, <4>5
      <4>7. a + 1 + k \in (a + 1)..(a + w)
        BY <4>6
      <4>. QED  BY <4>5, <4>6, <4>7
    <3>3. ASSUME NEW n \in (answered + 1)..(answered + Whole(units))
          PROVE  \E i \in 1..Len(units) : units[i].last /\ units[i].n = n
      <4>1. PICK j \in 1..Completed(units, Len(units)) : n = answered + j
        <5>1. PICK a, w \in Nat : a = answered /\ w = Whole(units)
          BY <2>1, <2>3
        <5>2. n \in (a + 1)..(a + w)
          BY <5>1
        <5>3. n - a \in 1..w /\ n = a + (n - a)
          BY <5>2
        <5>. QED  BY <5>1, <5>3 DEF Whole
      <4>2. Len(units) \in 0..Len(units)
        BY <2>3
      <4>. QED  BY <2>1, <2>3, <4>1, <4>2, FrameEnds
    <3>. QED  BY <3>1, <3>2, <3>3
  <2>6. PICK a, w, k \in Nat : a = answered /\ w = Whole(units) /\ k = complete
    BY <2>1, <2>3
  <2>7. /\ Answered(c) = {n \in 1..a : n <= k} /\ Unanswered(c) = (a + 1)..(a + w)
        /\ a + w = k \/ (a >= k /\ w = 0)
    BY <2>3, <2>4, <2>5, <2>6
  <2>8. /\ {n \in 1..a : n <= k} \cup ((a + 1)..(a + w)) = 1..k
        /\ {n \in 1..a : n <= k} \cap ((a + 1)..(a + w)) = {}
    BY <2>7
  <2>. QED  BY <2>6, <2>7, <2>8 DEF complete
<1>. QED  BY <1>1, Inductive, PTL

\* An entry of the poll set whose descriptor has a client is about the connection
\* it was polled for: a descriptor closed in the round is not open again before
\* its entry has passed.
THEOREM EventsBelong == Spec => []EventsBelongToConnection
<1>1. IInv => EventsBelongToConnection
  BY DEF IInv, OwnersKept, InRound, EventsBelongToConnection
<1>. QED  BY <1>1, Inductive, PTL

-----------------------------------------------------------------------------
(* What poll() waits for.                                                  *)

\* The poll set has every client, and asks for POLLOUT if it has output.
PolledAll ==
  pc = "poll" =>
    \A f \in ClientFds :
      \E i \in 1..Len(pollset) :
        pollset[i].fd = f /\ (clients[f].out # <<>> => pollset[i].out)

\* Only BuildPollSet leads to poll(), and no step of a peer touches a client.
LEMMA PolledAllKept == IInv /\ PolledAll /\ [Next]_vars => PolledAll'
<1>. SUFFICES ASSUME IInv, PolledAll, [Next]_vars PROVE PolledAll'
  OBVIOUS
<1>1. CASE BuildPollSet
  <2>. DEFINE order == SetToSeq(ClientFds)
  <2>1. /\ pollset' = [i \in DOMAIN order |->
                        [fd |-> order[i], out |-> WantsToWrite(order[i]),
                         readable |-> FALSE, writable |-> FALSE, hup |-> FALSE]]
        /\ clients' = clients
    BY <1>1 DEF BuildPollSet, kernel
  <2>2. IsFiniteSet(ClientFds)
    <3>1. ClientFds \in SUBSET Fds
      BY DEF ClientFds
    <3>. QED  BY <3>1, ServerAssumption, FS_Subset
  <2>3. /\ order \in Seq(ClientFds) /\ Len(order) \in Nat /\ DOMAIN order = 1..Len(order)
        /\ \A f \in ClientFds : \E i \in 1..Len(order) : order[i] = f
    BY <2>2, SetToSeqProps, LenProperties
  <2>. HIDE DEF order
  <2>4. Len(pollset') = Len(order)
    BY <2>1, <2>3
  <2>5. ClientFds' = ClientFds
    BY <2>1 DEF ClientFds
  <2>6. ASSUME NEW f \in ClientFds
        PROVE  \E i \in 1..Len(pollset') :
                 pollset'[i].fd = f /\ (clients'[f].out # <<>> => pollset'[i].out)
    <3>1. PICK i \in 1..Len(order) : order[i] = f
      BY <2>3
    <3>2. pollset'[i].fd = f /\ (pollset'[i].out <=> clients[f].out # <<>>)
      BY <2>1, <2>3, <3>1 DEF WantsToWrite
    <3>. QED  BY <2>1, <2>4, <3>2
  <2>. QED  BY <2>5, <2>6 DEF PolledAll
<1>2. CASE pc' # "poll"
  BY <1>2 DEF PolledAll
<1>3. CASE pc' = pc /\ clients' = clients /\ pollset' = pollset
  BY <1>3 DEF PolledAll, ClientFds
<1>4. CASE ServerStep
  <2>1. CASE Startup \/ Poll \/ AcceptFails \/ AcceptDone \/ LoopDone \/ HandleHangup
               \/ HandleEntry \/ ReceiveEnd \/ ReceiveNothing \/ TransmitDone
               \/ TransmitFails \/ LeaveLoop \/ Destroy
    BY <1>2, <2>1 DEF Startup, Poll, AcceptFails, AcceptDone, LoopDone, HandleHangup, HandleEntry,
         ReceiveEnd, ReceiveNothing, TransmitDone, TransmitFails, LeaveLoop, Destroy,
         Goto, NextEntry
  <2>2. CASE Accept \/ Receive \/ Transmit
    BY <1>2, <2>2 DEF Accept, CallsAccept, Receive, Transmit, NextEntry
  <2>. QED  BY <1>1, <1>4, <2>1, <2>2 DEF ServerStep
<1>5. CASE StartupFails \/ PollFails
  BY <1>2, <1>5 DEF StartupFails, PollFails, Goto
<1>6. CASE Stop
  BY <1>3, <1>6 DEF Stop, round
<1>7. ASSUME NEW c \in Conns,
             \/ Connect(c)
             \/ \E kind \in Kinds : StartFrame(c, kind)
             \/ ContinueFrame(c) \/ SendNoise(c)
             \/ ReadReply(c)
             \/ \E how \in {"fin", "reset"} : Hangup(c, how)
      PROVE  PolledAll'
  <2>1. UNCHANGED server
    BY <1>7 DEF Connect, StartFrame, ContinueFrame, SendNoise, SendUnit, ReadReply, Hangup
  <2>. QED  BY <1>3, <2>1 DEF server, round
<1>8. CASE UNCHANGED vars
  BY <1>3, <1>8 DEF vars, server, round
<1>. QED  BY <1>4, <1>5, <1>6, <1>7, <1>8 DEF Next

\* When poll() finds nothing, the server has nothing to do: no socket and no input
\* buffer holds a complete frame, and output waits for the peer only. A frame is
\* not left over by extract_requests(), and POLLOUT is not forgotten.
THEOREM Idle == Spec => []WaitsOnlyWhenIdle
<1>1. Init => PolledAll
  BY DEF Init, PolledAll
<1>2. IInv /\ PolledAll => WaitsOnlyWhenIdle
  <2>. SUFFICES ASSUME IInv, PolledAll, pc = "poll",
                       TimesOut([i \in DOMAIN pollset |-> Events(pollset[i])]),
                       NEW f \in ClientFds
                PROVE  /\ \A i \in DOMAIN clients[f].in : ~clients[f].in[i].last
                       /\ rcv[sock[f]] = <<>>
                       /\ clients[f].out # <<>> => Len(snd[sock[f]]) >= SendRoom
    BY DEF WaitsOnlyWhenIdle
  <2>1. PICK c \in Conns : f \in Fds /\ sock[f] = c /\ c # None
    BY DEF ClientFds, IInv, TypeOK
  <2>2. In(c) = clients[f].in /\ In(c) \in Seq(Unit) /\ NoneEnds(In(c))
    BY <2>1, BufferOf, ConnTyped DEF IInv, ConnValid
  <2>3. \A i \in DOMAIN clients[f].in : ~clients[f].in[i].last
    BY <2>2, LenProperties DEF NoneEnds
  <2>4. PICK i \in 1..Len(pollset) :
          pollset[i].fd = f /\ (clients[f].out # <<>> => pollset[i].out)
    BY DEF PolledAll
  <2>5. pollset[i] \in Pollfd /\ i \in DOMAIN pollset
    BY <2>4, ElementOfSeq, LenProperties DEF IInv, TypeOK
  <2>6. ~HasEvent(Events(pollset[i]))
    BY <2>5 DEF TimesOut
  <2>7. Events(pollset[i]) = [pollset[i] EXCEPT
          !.readable = rcv[c] # <<>> \/ state[c] = "fin",
          !.writable = pollset[i].out /\ Len(snd[c]) < SendRoom,
          !.hup      = state[c] = "reset"]
    BY <2>1, <2>4 DEF Events
  <2>8. rcv[c] = <<>> /\ ~(pollset[i].out /\ Len(snd[c]) < SendRoom)
    BY <2>5, <2>6, <2>7 DEF HasEvent, Pollfd
  <2>9. Len(snd[c]) \in Nat /\ SendRoom \in Nat
    BY <2>1, ConnTyped, LenProperties, ServerAssumption
  <2>. QED  BY <2>1, <2>3, <2>4, <2>8, <2>9
<1>. QED  BY <1>1, <1>2, PolledAllKept, Inductive, PTL DEF Spec
=============================================================================
