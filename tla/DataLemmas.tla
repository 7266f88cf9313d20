----------------------------- MODULE DataLemmas -----------------------------
(***************************************************************************)
(* Facts about numbers, finite sets and sequences that the proofs about    *)
(* the components share.                                                   *)
(***************************************************************************)
EXTENDS Integers, Sequences, SequencesExt, SequenceTheorems, FiniteSetTheorems, TLAPS

\* Every set of naturals that has an element has a least one.
LEMMA LeastElement ==
  ASSUME NEW T, T \subseteq Nat, T # {}
  PROVE  \E n \in T : \A m \in T : n <= m
<1>1. PICK R : IsWellFoundedOn(R, Nat) /\ \A m, n \in Nat : m < n => <<m, n>> \in R
  <2>1. \A m, n \in Nat : m < n => <<m, n>> \in OpToRel(<, Nat)
    BY DEF OpToRel
  <2>. QED  BY <2>1, NatLessThanWellFounded
<1>2. PICK n \in T : \A m \in T : ~(<<m, n>> \in R)
  <2>1. IsWellFoundedOn(R, Nat) /\ T \subseteq Nat /\ T # {}
    BY <1>1
  <2>. QED  BY <2>1, WFMin
<1>3. \A m \in T : ~(m < n)
  BY <1>1, <1>2
<1>. QED  BY <1>3

\* Induction: a set of naturals with 0 that is closed under successor is all.
LEMMA SetInduction ==
  ASSUME NEW P \in SUBSET Nat, 0 \in P, \A n \in P : n + 1 \in P
  PROVE  P = Nat
<1>1. SUFFICES ASSUME Nat \ P # {} PROVE FALSE
  OBVIOUS
<1>2. PICK n \in Nat \ P : \A m \in Nat \ P : n <= m
  BY <1>1, LeastElement
<1>3. n # 0
  OBVIOUS
<1>4. n - 1 \in Nat /\ n - 1 \in P
  BY <1>2, <1>3
<1>5. (n - 1) + 1 \in P
  BY <1>4
<1>. QED  BY <1>2, <1>5

\* A set of integers that has an element and an upper bound has a greatest one.
LEMMA GreatestElement ==
  ASSUME NEW T \in SUBSET Int, T # {}, NEW b \in Int, \A n \in T : n <= b
  PROVE  \E n \in T : \A m \in T : m <= n
<1>. DEFINE U == {b - n : n \in T}
<1>1. U \subseteq Nat /\ U # {}
  <2>1. \A n \in T : b - n \in Nat
    OBVIOUS
  <2>. QED  BY <2>1
<1>2. PICK u \in U : \A v \in U : u <= v
  BY <1>1, LeastElement
<1>3. PICK n \in T : u = b - n
  OBVIOUS
<1>4. ASSUME NEW m \in T PROVE m <= n
  <2>1. b - m \in U
    OBVIOUS
  <2>2. b - n <= b - m
    BY <2>1, <1>2, <1>3
  <2>3. m \in Int /\ n \in Int
    OBVIOUS
  <2>. QED  BY <2>2, <2>3
<1>. QED  BY <1>4

\* SetToSeq() enumerates a finite set without repetition.
LEMMA SetToSeqProps ==
  ASSUME NEW S, IsFiniteSet(S)
  PROVE  /\ SetToSeq(S) \in Seq(S)
         /\ Len(SetToSeq(S)) = Cardinality(S)
         /\ Cardinality(S) \in Nat
         /\ \A i, j \in 1..Len(SetToSeq(S)) : SetToSeq(S)[i] = SetToSeq(S)[j] => i = j
         /\ \A x \in S : \E i \in 1..Len(SetToSeq(S)) : SetToSeq(S)[i] = x
<1>. DEFINE n == Cardinality(S)
            f == SetToSeq(S)
<1>1. n \in Nat /\ ExistsBijection(1..n, S)
  BY FS_CardinalityType
<1>2. PICK g \in Bijection(1..n, S) : TRUE
  BY <1>1 DEF ExistsBijection
<1>3. g \in [1..n -> S] /\ IsInjective(g)
  BY <1>2 DEF Bijection, Injection
<1>4. f \in [1..n -> S] /\ IsInjective(f)
  BY <1>3 DEF SetToSeq
<1>5. f \in Seq(S) /\ Len(f) = n
  BY <1>1, <1>4, SeqDef
<1>6. f \in Injection(1..n, S)
  BY <1>4 DEF Injection
<1>7. f \in Surjection(1..n, S)
  <2>1. IsFiniteSet(1..n) /\ Cardinality(1..n) = n
    BY <1>1, FS_Interval
  <2>2. n = Cardinality(1..n)
    BY <2>1
  <2>. QED  BY <1>6, <2>2, FS_Injection
<1>8. \A x \in S : \E i \in 1..n : f[i] = x
  BY <1>7 DEF Surjection
<1>. QED  BY <1>1, <1>4, <1>5, <1>8 DEF IsInjective

\* Two sequences joined.
LEMMA JoinSeq ==
  ASSUME NEW S, NEW s \in Seq(S), NEW t \in Seq(S)
  PROVE  /\ s \o t \in Seq(S)
         /\ Len(s) \in Nat /\ Len(t) \in Nat /\ Len(s \o t) = Len(s) + Len(t)
         /\ \A i \in 1..Len(s) : (s \o t)[i] = s[i]
         /\ \A i \in 1..Len(t) : (s \o t)[Len(s) + i] = t[i]
  BY LenProperties

\* A sequence that is cut in two behind its k-th element.
LEMMA CutSeq ==
  ASSUME NEW S, NEW s \in Seq(S), NEW k \in 0..Len(s)
  PROVE  /\ SubSeq(s, 1, k) \in Seq(S)
         /\ Len(SubSeq(s, 1, k)) = k
         /\ \A i \in 1..k : SubSeq(s, 1, k)[i] = s[i]
         /\ SubSeq(s, k + 1, Len(s)) \in Seq(S)
         /\ Len(SubSeq(s, k + 1, Len(s))) = Len(s) - k
         /\ \A i \in 1..(Len(s) - k) : SubSeq(s, k + 1, Len(s))[i] = s[k + i]
<1>1. Len(s) \in Nat /\ \A i \in 1..Len(s) : s[i] \in S
  BY LenProperties, ElementOfSeq
<1>2. k \in Int /\ k + 1 \in Int /\ 0 <= k /\ k <= Len(s)
  BY <1>1
<1>3. /\ SubSeq(s, 1, k) \in Seq(S)
      /\ Len(SubSeq(s, 1, k)) = IF 1 <= k THEN k - 1 + 1 ELSE 0
      /\ \A i \in 1..(k - 1 + 1) : SubSeq(s, 1, k)[i] = s[1 + i - 1]
  <2>1. \A i \in 1..k : s[i] \in S
    BY <1>1, <1>2
  <2>. QED  BY <1>2, <2>1, SubSeqProperties
<1>4. /\ SubSeq(s, k + 1, Len(s)) \in Seq(S)
      /\ Len(SubSeq(s, k + 1, Len(s))) =
           IF k + 1 <= Len(s) THEN Len(s) - (k + 1) + 1 ELSE 0
      /\ \A i \in 1..(Len(s) - (k + 1) + 1) : SubSeq(s, k + 1, Len(s))[i] = s[(k + 1) + i - 1]
  <2>1. \A i \in (k + 1)..Len(s) : s[i] \in S
    BY <1>1, <1>2
  <2>. QED  BY <1>1, <1>2, <2>1, SubSeqProperties
<1>5. \A i \in 1..k : SubSeq(s, 1, k)[i] = s[i]
  BY <1>2, <1>3
<1>6. \A i \in 1..(Len(s) - k) : SubSeq(s, k + 1, Len(s))[i] = s[k + i]
  <2>. SUFFICES ASSUME NEW i \in 1..(Len(s) - k)
                PROVE  SubSeq(s, k + 1, Len(s))[i] = s[k + i]
    OBVIOUS
  <2>1. i \in 1..(Len(s) - (k + 1) + 1) /\ (k + 1) + i - 1 = k + i
    BY <1>1, <1>2
  <2>. QED  BY <1>4, <2>1
<1>. QED  BY <1>1, <1>2, <1>3, <1>4, <1>5, <1>6

-----------------------------------------------------------------------------
(* Recursion.  The value at x is base[x], or made by step from x and the   *)
(* value at next[x], whose size is smaller.                                *)

IsScheme(D, V, Base, base, next, step, size) ==
  /\ base \in [D -> V] /\ next \in [D -> D] /\ step \in [D \X V -> V]
  /\ size \in [D -> Nat]
  /\ \A x \in D : x \in Base \/ size[next[x]] < size[x]

Solves(f, D, Base, base, next, step) ==
  \A x \in D : f[x] = IF x \in Base THEN base[x] ELSE step[<<x, f[next[x]]>>]

\* Such a function exists.
LEMMA RecursionExists ==
  ASSUME NEW D, NEW V, NEW Base, NEW base, NEW next, NEW step, NEW size,
         IsScheme(D, V, Base, base, next, step, size)
  PROVE  \E f \in [D -> V] : Solves(f, D, Base, base, next, step)
<1>. USE DEF IsScheme
<1>. DEFINE Good(f, m) ==
              \A x \in D : size[x] < m =>
                f[x] = IF x \in Base THEN base[x] ELSE step[<<x, f[next[x]]>>]
            P == {m \in Nat : \E f \in [D -> V] : Good(f, m)}
<1>1. 0 \in P
  <2>1. Good(base, 0)
    OBVIOUS
  <2>. QED  BY <2>1
<1>2. ASSUME NEW m \in P PROVE m + 1 \in P
  <2>1. PICK f \in [D -> V] : Good(f, m)
    OBVIOUS
  <2>. DEFINE g == [x \in D |-> IF size[x] < m THEN f[x]
                                ELSE IF x \in Base THEN base[x] ELSE step[<<x, f[next[x]]>>]]
  <2>2. g \in [D -> V]
    <3>1. \A x \in D : <<x, f[next[x]]>> \in D \X V
      OBVIOUS
    <3>. QED  BY <3>1
  <2>3. ASSUME NEW x \in D, size[x] < m + 1
        PROVE  g[x] = IF x \in Base THEN base[x] ELSE step[<<x, g[next[x]]>>]
    <3>1. CASE x \in Base
      BY <2>1, <3>1
    <3>2. CASE x \notin Base
      <4>1. size[next[x]] < m /\ next[x] \in D
        BY <2>3, <3>2
      <4>2. g[next[x]] = f[next[x]]
        BY <4>1
      <4>3. g[x] = step[<<x, f[next[x]]>>]
        BY <2>1, <3>2
      <4>. HIDE DEF g
      <4>. QED  BY <3>2, <4>2, <4>3
    <3>. QED  BY <3>1, <3>2
  <2>4. Good(g, m + 1)
    <3>. HIDE DEF g
    <3>. QED  BY <2>3
  <2>5. m + 1 \in Nat
    OBVIOUS
  <2>. HIDE DEF g, Good
  <2>. QED  BY <2>2, <2>4, <2>5
<1>3. P = Nat
  <2>1. P \in SUBSET Nat
    OBVIOUS
  <2>. HIDE DEF P
  <2>. QED  BY <1>1, <1>2, <2>1, SetInduction
<1>4. ASSUME NEW m \in Nat, NEW f \in [D -> V], Good(f, m),
             NEW k \in Nat, NEW g \in [D -> V], Good(g, k),
             NEW x \in D, size[x] < m, size[x] < k
      PROVE  f[x] = g[x]
  <2>. DEFINE Q == {n \in Nat : \E y \in D : /\ size[y] = n /\ n < m /\ n < k
                                           /\ f[y] # g[y]}
  <2>1. SUFFICES ASSUME f[x] # g[x] PROVE FALSE
    OBVIOUS
  <2>2. Q \subseteq Nat /\ Q # {}
    BY <1>4, <2>1
  <2>3. PICK n \in Q : \A q \in Q : n <= q
    <3>. HIDE DEF Q
    <3>. QED  BY <2>2, LeastElement
  <2>4. PICK y \in D : size[y] = n /\ size[y] < m /\ size[y] < k /\ f[y] # g[y]
    OBVIOUS
  <2>5. /\ f[y] = IF y \in Base THEN base[y] ELSE step[<<y, f[next[y]]>>]
        /\ g[y] = IF y \in Base THEN base[y] ELSE step[<<y, g[next[y]]>>]
    BY <1>4, <2>4
  <2>6. y \notin Base /\ f[next[y]] # g[next[y]]
    BY <2>4, <2>5
  <2>7. next[y] \in D /\ size[next[y]] \in Nat /\ size[next[y]] < size[y]
    BY <2>6
  <2>8. size[next[y]] < m /\ size[next[y]] < k
    <3>1. size[y] \in Nat
      OBVIOUS
    <3>. QED  BY <2>4, <2>7, <3>1
  <2>9. size[next[y]] \in Q
    BY <2>6, <2>7, <2>8
  <2>. QED  BY <2>3, <2>4, <2>7, <2>9
<1>. DEFINE H(m) == CHOOSE f \in [D -> V] : Good(f, m)
            F == [x \in D |-> H(size[x] + 1)[x]]
<1>5. \A m \in Nat : H(m) \in [D -> V] /\ Good(H(m), m)
  BY <1>3
<1>. HIDE DEF H
<1>6. F \in [D -> V]
  <2>1. \A x \in D : size[x] + 1 \in Nat
    OBVIOUS
  <2>. QED  BY <1>5, <2>1
<1>7. ASSUME NEW x \in D
      PROVE  F[x] = IF x \in Base THEN base[x] ELSE step[<<x, F[next[x]]>>]
  <2>1. PICK m \in Nat : m = size[x] + 1
    OBVIOUS
  <2>2. H(m) \in [D -> V] /\ Good(H(m), m) /\ size[x] < m
    BY <1>5, <2>1
  <2>3. H(m)[x] = IF x \in Base THEN base[x] ELSE step[<<x, H(m)[next[x]]>>]
    BY <2>2
  <2>4. CASE x \in Base
    BY <2>1, <2>3, <2>4
  <2>5. CASE x \notin Base
    <3>1. PICK y \in D, k \in Nat : y = next[x] /\ k = size[y] + 1
      OBVIOUS
    <3>2. size[y] < k /\ size[y] < m
      BY <2>1, <2>5, <3>1
    <3>3. H(k) \in [D -> V] /\ Good(H(k), k)
      BY <1>5
    <3>4. H(m)[y] = H(k)[y]
      <4>. HIDE DEF Good
      <4>. QED  BY <1>4, <2>2, <3>2, <3>3
    <3>5. F[y] = H(k)[y] /\ F[x] = H(m)[x]
      BY <2>1, <3>1
    <3>. HIDE DEF F
    <3>. QED  BY <2>3, <2>5, <3>1, <3>4, <3>5
  <2>. QED  BY <2>4, <2>5
<1>. HIDE DEF F
<1>. QED  BY <1>6, <1>7 DEF Solves

\* Induction over a size: what holds of an element when it holds of all smaller
\* ones holds of all.
LEMMA SizeInduction ==
  ASSUME NEW D, NEW size \in [D -> Nat], NEW Q \in SUBSET D,
         \A x \in D : (\A y \in D : size[y] < size[x] => y \in Q) => x \in Q
  PROVE  Q = D
<1>. DEFINE R == {n \in Nat : \E x \in D : size[x] = n /\ x \notin Q}
<1>. SUFFICES ASSUME R # {} PROVE FALSE
  OBVIOUS
<1>1. R \subseteq Nat
  OBVIOUS
<1>2. PICK n \in R : \A r \in R : n <= r
  <2>. HIDE DEF R
  <2>. QED  BY <1>1, LeastElement
<1>3. PICK x \in D : size[x] = n /\ x \notin Q
  OBVIOUS
<1>4. ASSUME NEW y \in D, size[y] < size[x] PROVE y \in Q
  <2>1. size[y] \in Nat /\ size[x] \in Nat
    OBVIOUS
  <2>2. size[y] \notin R
    <3>. HIDE DEF R
    <3>. QED  BY <1>2, <1>3, <1>4, <2>1
  <2>. QED  BY <2>1, <2>2
<1>. QED  BY <1>3, <1>4

\* Induction up to a number.
LEMMA UpToInduction ==
  ASSUME NEW n \in Nat, NEW P \in SUBSET (0..n), 0 \in P,
         \A i \in 1..n : i - 1 \in P => i \in P
  PROVE  P = 0..n
<1>. DEFINE Q == P \cup {i \in Nat : i > n}
<1>1. Q \in SUBSET Nat /\ 0 \in Q
  <2>1. \A i \in P : i \in 0..n
    OBVIOUS
  <2>2. \A i \in 0..n : i \in Nat
    OBVIOUS
  <2>. QED  BY <2>1, <2>2
<1>2. ASSUME NEW i \in Q PROVE i + 1 \in Q
  <2>1. CASE i + 1 > n
    BY <2>1
  <2>2. CASE ~(i + 1 > n)
    <3>1. i + 1 \in 1..n /\ i \in P /\ (i + 1) - 1 = i
      BY <2>2
    <3>. QED  BY <3>1
  <2>. QED  BY <2>1, <2>2
<1>3. Q = Nat
  <2>. HIDE DEF Q
  <2>. QED  BY <1>1, <1>2, SetInduction
<1>4. \A i \in 0..n : i \in P
  <2>. TAKE i \in 0..n
  <2>1. i \in Q /\ ~(i > n)
    BY <1>3
  <2>. QED  BY <2>1
<1>. QED  BY <1>4

-----------------------------------------------------------------------------
(* Loops.                                                                  *)

\* h goes from start, step by step, through n rounds.
IsLoop(h, step, start, n) ==
  h = [i \in 0..n |-> IF i = 0 THEN start ELSE step[<<h[i - 1], i>>]]

\* Every round stays in V.
StaysIn(V, step, n) == \A v \in V, i \in 1..n : step[<<v, i>>] \in V

\* What that means for values in V.
Rounds(h, V, step, start, n) ==
  /\ h \in [0..n -> V] /\ h[0] = start
  /\ \A i \in 1..n : h[i] = step[<<h[i - 1], i>>]

\* There is one for every step that stays in V.
LEMMA StepsExist ==
  ASSUME NEW V, NEW step, NEW start \in V, NEW n \in Nat,
         StaysIn(V, step, n)
  PROVE  \E f : IsLoop(f, step, start, n)
<1>. DEFINE D == 0..n
            Base == {0}
            base == [i \in D |-> start]
            next == [i \in D |-> IF i = 0 THEN 0 ELSE i - 1]
            combine == [p \in D \X V |-> IF p[1] = 0 THEN start ELSE step[<<p[2], p[1]>>]]
            size == [i \in D |-> i]
<1>1. /\ base \in [D -> V] /\ next \in [D -> D] /\ size \in [D -> Nat]
      /\ \A i \in D : i \in Base \/ size[next[i]] < size[i]
  OBVIOUS
<1>2. combine \in [D \X V -> V]
  <2>. SUFFICES ASSUME NEW p \in D \X V
                PROVE  (IF p[1] = 0 THEN start ELSE step[<<p[2], p[1]>>]) \in V
    OBVIOUS
  <2>1. p[2] \in V /\ p[1] \in D /\ (p[1] # 0 => p[1] \in 1..n)
    OBVIOUS
  <2>. QED  BY <2>1 DEF StaysIn
<1>3. PICK f \in [D -> V] : Solves(f, D, Base, base, next, combine)
  <2>1. IsScheme(D, V, Base, base, next, combine, size)
    <3>. HIDE DEF D, Base, base, next, combine, size
    <3>. QED  BY <1>1, <1>2 DEF IsScheme
  <2>. HIDE DEF D, Base, base, next, combine, size
  <2>. QED  BY <2>1, RecursionExists
<1>4. ASSUME NEW i \in D
      PROVE  f[i] = IF i = 0 THEN start ELSE step[<<f[i - 1], i>>]
  <2>1. f[i] = IF i \in Base THEN base[i] ELSE combine[<<i, f[next[i]]>>]
    <3>. HIDE DEF D, Base, base, next, combine
    <3>. QED  BY <1>3 DEF Solves
  <2>2. CASE i = 0
    BY <2>1, <2>2
  <2>3. CASE i # 0
    <3>1. next[i] = i - 1 /\ next[i] \in D /\ f[next[i]] \in V
      BY <1>1, <2>3
    <3>2. combine[<<i, f[next[i]]>>] = step[<<f[next[i]], i>>]
      BY <2>3, <3>1
    <3>. QED  BY <2>1, <2>3, <3>1, <3>2
  <2>. QED  BY <2>2, <2>3
<1>5. f = [i \in 0..n |-> IF i = 0 THEN start ELSE step[<<f[i - 1], i>>]]
  <2>. HIDE DEF base, next, combine, size
  <2>. QED  BY <1>4
<1>. QED  BY <1>5 DEF IsLoop

\* A function that is defined like a loop is one.
LEMMA LoopType ==
  ASSUME NEW V, NEW step, NEW start \in V, NEW n \in Nat,
         StaysIn(V, step, n),
         NEW h, IsLoop(h, step, start, n)
  PROVE  Rounds(h, V, step, start, n)
<1>. DEFINE P == {i \in 0..n : h[i] \in V}
<1>1. \A i \in 0..n : h[i] = IF i = 0 THEN start ELSE step[<<h[i - 1], i>>]
  BY DEF IsLoop
<1>2. P \in SUBSET (0..n) /\ 0 \in P
  <2>1. 0 \in 0..n
    OBVIOUS
  <2>. QED  BY <1>1, <2>1
<1>3. \A i \in 1..n : i - 1 \in P => i \in P
  <2>. TAKE i \in 1..n
  <2>1. h[i] = step[<<h[i - 1], i>>]
    BY <1>1
  <2>2. h[i - 1] \in V => step[<<h[i - 1], i>>] \in V
    BY DEF StaysIn
  <2>. QED  BY <2>1, <2>2
<1>4. P = 0..n
  <2>. HIDE DEF P
  <2>. QED  BY <1>2, <1>3, UpToInduction
<1>5. h \in [0..n -> V]
  BY <1>4 DEF IsLoop
<1>6. 0 \in 0..n /\ \A i \in 1..n : i \in 0..n /\ i # 0
  OBVIOUS
<1>. QED  BY <1>1, <1>5, <1>6 DEF Rounds

-----------------------------------------------------------------------------
(* Joining many sequences.                                                 *)

\* h joins the first sequences, one after the other.
Joins(h, S, seqs) ==
  /\ h \in [0..Len(seqs) -> Seq(S)] /\ h[0] = <<>>
  /\ \A i \in 1..Len(seqs) : h[i] = h[i - 1] \o seqs[i]

\* FlattenSeq() joins all of them.
LEMMA FlattenJoins ==
  ASSUME NEW S, NEW seqs \in Seq(Seq(S))
  PROVE  \E h : Joins(h, S, seqs) /\ FlattenSeq(seqs) = h[Len(seqs)]
<1>1. PICK n \in Nat : n = Len(seqs)
  BY LenProperties
<1>2. \A i \in 1..n : seqs[i] \in Seq(S)
  BY <1>1, ElementOfSeq
<1>3. <<>> \in Seq(S) /\ \A s \in Seq(S) : <<>> \o s = s
  BY EmptySeq, ConcatEmptySeq
<1>. DEFINE V == Seq(S)
            step == [p \in V \X (1..n) |-> p[1] \o seqs[p[2]]]
<1>4. \A v \in V, i \in 1..n : step[<<v, i>>] = v \o seqs[i] /\ v \o seqs[i] \in V
  <2>. TAKE v \in V, i \in 1..n
  <2>1. v \in Seq(S) /\ seqs[i] \in Seq(S)
    BY <1>2
  <2>2. v \o seqs[i] \in V
    BY <2>1, ConcatProperties
  <2>3. step[<<v, i>>] = v \o seqs[i]
    <3>1. PICK p : p = <<v, i>>
      OBVIOUS
    <3>2. p \in V \X (1..n) /\ p[1] = v /\ p[2] = i
      BY <3>1
    <3>3. step[p] = p[1] \o seqs[p[2]]
      <4>. HIDE DEF V
      <4>. QED  BY <3>2
    <3>. HIDE DEF step
    <3>. QED  BY <3>1, <3>2, <3>3
  <2>. QED  BY <2>2, <2>3
<1>5. StaysIn(V, step, n)
  <2>. HIDE DEF V, step
  <2>. QED  BY <1>4 DEF StaysIn
<1>6. PICK h : Rounds(h, V, step, <<>>, n)
  <2>. HIDE DEF step
  <2>1. PICK h : IsLoop(h, step, <<>>, n)
    BY <1>3, <1>5, StepsExist
  <2>. QED  BY <1>3, <1>5, <2>1, LoopType
<1>7. Joins(h, S, seqs)
  <2>1. h \in [0..n -> V] /\ h[0] = <<>> /\ \A i \in 1..n : h[i] = step[<<h[i - 1], i>>]
    BY <1>6 DEF Rounds
  <2>2. \A i \in 1..n : h[i] = h[i - 1] \o seqs[i]
    <3>. TAKE i \in 1..n
    <3>1. i - 1 \in 0..n
      BY <1>1
    <3>2. h[i - 1] \in V
      BY <2>1, <3>1
    <3>. HIDE DEF step, V
    <3>. QED  BY <1>4, <2>1, <3>2
  <2>. QED  BY <1>1, <2>1, <2>2 DEF Joins
<1>8. CASE n = 0
  <2>1. FlattenSeq(seqs) = <<>>
    BY <1>1, <1>8, EmptySeq DEF FlattenSeq
  <2>. QED  BY <1>1, <1>7, <1>8, <2>1 DEF Joins
<1>9. CASE n # 0
  <2>. DEFINE flat == CHOOSE g : g = [i \in 1..Len(seqs) |->
                                        IF i = 1 THEN seqs[i] ELSE g[i - 1] \o seqs[i]]
              f == [i \in 1..n |-> h[i]]
  <2>1. \A i \in 1..n : f[i] = IF i = 1 THEN seqs[i] ELSE f[i - 1] \o seqs[i]
    <3>. TAKE i \in 1..n
    <3>1. f[i] = h[i] /\ h[i] = h[i - 1] \o seqs[i] /\ h[0] = <<>>
      BY <1>1, <1>7 DEF Joins
    <3>2. CASE i = 1
      <4>1. i - 1 = 0 /\ seqs[i] \in Seq(S)
        BY <1>2, <3>2
      <4>. QED  BY <1>3, <3>1, <3>2, <4>1
    <3>3. CASE i # 1
      <4>1. i - 1 \in 1..n
        BY <3>3
      <4>2. f[i - 1] = h[i - 1]
        BY <4>1
      <4>. QED  BY <3>1, <3>3, <4>2
    <3>. QED  BY <3>2, <3>3
  <2>2. f = [i \in 1..Len(seqs) |-> IF i = 1 THEN seqs[i] ELSE f[i - 1] \o seqs[i]]
    <3>1. f = [i \in 1..n |-> IF i = 1 THEN seqs[i] ELSE f[i - 1] \o seqs[i]]
      BY <2>1
    <3>. HIDE DEF f
    <3>. QED  BY <1>1, <3>1
  <2>3. flat = [i \in 1..Len(seqs) |-> IF i = 1 THEN seqs[i] ELSE flat[i - 1] \o seqs[i]]
    <3>. HIDE DEF f
    <3>. QED  BY <2>2
  <2>4. FlattenSeq(seqs) = flat[n]
    BY <1>1, <1>9 DEF FlattenSeq
  <2>. HIDE DEF flat
  <2>. DEFINE P == {i \in 0..n : i = 0 \/ flat[i] = f[i]}
  <2>5. P \in SUBSET (0..n) /\ 0 \in P
    OBVIOUS
  <2>6. \A i \in 1..n : i - 1 \in P => i \in P
    <3>. TAKE i \in 1..n
    <3>1. flat[i] = IF i = 1 THEN seqs[i] ELSE flat[i - 1] \o seqs[i]
      BY <1>1, <2>3
    <3>2. f[i] = IF i = 1 THEN seqs[i] ELSE f[i - 1] \o seqs[i]
      BY <2>1
    <3>3. i - 1 \in P => i = 1 \/ flat[i - 1] = f[i - 1]
      <4>. HIDE DEF f
      <4>. QED  OBVIOUS
    <3>4. i \in 0..n
      OBVIOUS
    <3>. HIDE DEF f
    <3>. QED  BY <3>1, <3>2, <3>3, <3>4
  <2>7. P = 0..n
    <3>. HIDE DEF P
    <3>. QED  BY <2>5, <2>6, UpToInduction
  <2>8. flat[n] = f[n] /\ f[n] = h[n]
    <3>1. n \in 0..n /\ n \in 1..n
      BY <1>9
    <3>2. n \in P
      BY <2>7, <3>1
    <3>. QED  BY <1>9, <3>1, <3>2
  <2>. QED  BY <1>1, <1>7, <2>4, <2>8
<1>. QED  BY <1>8, <1>9

\* The first n elements of s and t are the same.
Agree(s, t, n) == \A i \in 1..n : s[i] = t[i]

\* There is one way to do it.
LEMMA JoinsAgree ==
  ASSUME NEW S, NEW s \in Seq(Seq(S)), NEW t \in Seq(Seq(S)), NEW f, NEW g,
         Joins(f, S, s), Joins(g, S, t),
         NEW n \in Nat, n <= Len(s), n <= Len(t), Agree(s, t, n)
  PROVE  \A i \in 0..n : f[i] = g[i]
<1>. DEFINE P == {i \in 0..n : f[i] = g[i]}
<1>0. PICK k, l \in Nat : k = Len(s) /\ l = Len(t)
  BY LenProperties
<1>1. P \in SUBSET (0..n) /\ 0 \in P
  BY DEF Joins
<1>2. \A i \in 1..n : i - 1 \in P => i \in P
  <2>. TAKE i \in 1..n
  <2>1. i \in 1..k /\ i \in 1..l /\ i \in 0..n
    BY <1>0
  <2>2. f[i] = f[i - 1] \o s[i] /\ g[i] = g[i - 1] \o t[i] /\ s[i] = t[i]
    BY <1>0, <2>1 DEF Joins, Agree
  <2>. QED  BY <2>1, <2>2
<1>3. P = 0..n
  <2>. HIDE DEF P
  <2>. QED  BY <1>1, <1>2, UpToInduction
<1>. QED  BY <1>3

\* One sequence more.
LEMMA FlattenAppend ==
  ASSUME NEW S, NEW seqs \in Seq(Seq(S)), NEW s \in Seq(S)
  PROVE  FlattenSeq(Append(seqs, s)) = FlattenSeq(seqs) \o s
<1>1. PICK n \in Nat : n = Len(seqs)
  BY LenProperties
<1>2. PICK more \in Seq(Seq(S)) : more = Append(seqs, s)
  BY AppendProperties
<1>3. /\ Len(more) = n + 1 /\ more[n + 1] = s
      /\ \A i \in 1..n : more[i] = seqs[i]
  BY <1>1, <1>2, AppendProperties
<1>4. PICK f : Joins(f, S, seqs) /\ FlattenSeq(seqs) = f[n]
  BY <1>1, FlattenJoins
<1>5. PICK g : Joins(g, S, more) /\ FlattenSeq(more) = g[n + 1]
  BY <1>3, FlattenJoins
<1>6. f[n] = g[n]
  <2>1. n \in 0..n /\ n <= Len(seqs) /\ n <= Len(more) /\ Agree(seqs, more, n)
    BY <1>1, <1>3 DEF Agree
  <2>. QED  BY <1>4, <1>5, <2>1, JoinsAgree
<1>7. g[n + 1] = g[n] \o s
  <2>1. n + 1 \in 1..Len(more) /\ (n + 1) - 1 = n
    BY <1>3
  <2>. QED  BY <1>3, <1>5, <2>1 DEF Joins
<1>. QED  BY <1>2, <1>4, <1>5, <1>6, <1>7

-----------------------------------------------------------------------------
(* Pieces, joins and where they are.                                       *)

\* A piece of a sequence.
LEMMA Piece ==
  ASSUME NEW S, NEW s \in Seq(S), NEW m \in Nat \ {0}, NEW n \in Int, n <= Len(s)
  PROVE  /\ SubSeq(s, m, n) \in Seq(S)
         /\ Len(SubSeq(s, m, n)) = IF m <= n THEN n - m + 1 ELSE 0
         /\ \A i \in 1..(n - m + 1) : SubSeq(s, m, n)[i] = s[m + i - 1]
<1>1. PICK l \in Nat : l = Len(s)
  BY LenProperties
<1>2. \A i \in m..n : s[i] \in S
  <2>1. \A i \in m..n : i \in 1..l
    BY <1>1
  <2>. QED  BY <1>1, <2>1, ElementOfSeq
<1>. QED  BY <1>2, SubSeqProperties

\* s is at offset p of the sequence whole.
Placed(whole, p, s) == p + Len(s) <= Len(whole) /\ \A i \in 1..Len(s) : whole[p + i] = s[i]

\* w is s followed by t.
IsJoin(w, s, t) ==
  /\ Len(w) = Len(s) + Len(t) /\ Len(s) \in Nat /\ Len(t) \in Nat
  /\ \A i \in 1..Len(s) : w[i] = s[i]
  /\ \A i \in 1..Len(t) : w[Len(s) + i] = t[i]

\* That is what \o does.
LEMMA JoinIs ==
  ASSUME NEW S, NEW s \in Seq(S), NEW t \in Seq(S)
  PROVE  s \o t \in Seq(S) /\ IsJoin(s \o t, s, t)
  BY JoinSeq DEF IsJoin

\* What has been joined first is at the beginning.
LEMMA JoinsPrefix ==
  ASSUME NEW S, NEW seqs \in Seq(Seq(S)), NEW h, Joins(h, S, seqs)
  PROVE  \A i \in 0..Len(seqs) : h[i] \in Seq(S) /\ Placed(h[Len(seqs)], 0, h[i])
<1>1. PICK n \in Nat : n = Len(seqs)
  BY LenProperties
<1>2. h \in [0..n -> Seq(S)] /\ \A i \in 1..n : h[i] = h[i - 1] \o seqs[i] /\ seqs[i] \in Seq(S)
  BY <1>1, ElementOfSeq DEF Joins
<1>. DEFINE P == {i \in 0..n : Placed(h[n], 0, h[n - i])}
<1>3. P \in SUBSET (0..n) /\ 0 \in P
  <2>1. n - 0 = n /\ 0 \in 0..n /\ n \in 0..n
    OBVIOUS
  <2>2. h[n] \in Seq(S)
    BY <1>2, <2>1
  <2>3. PICK l \in Nat : l = Len(h[n])
    BY <2>2, LenProperties
  <2>4. Placed(h[n], 0, h[n])
    BY <2>3 DEF Placed
  <2>. QED  BY <2>1, <2>4
<1>4. \A i \in 1..n : i - 1 \in P => i \in P
  <2>. SUFFICES ASSUME NEW i \in 1..n, i - 1 \in P PROVE i \in P
    OBVIOUS
  <2>1. PICK j \in 1..n : j = n - (i - 1) /\ j - 1 = n - i
    OBVIOUS
  <2>2. j \in 0..n /\ j - 1 \in 0..n /\ n \in 0..n /\ i \in 0..n
    OBVIOUS
  <2>3. PICK whole \in Seq(S), t \in Seq(S), u \in Seq(S), v \in Seq(S) :
          whole = h[n] /\ t = h[j] /\ u = h[j - 1] /\ v = seqs[j] /\ t = u \o v
    BY <1>2, <2>2
  <2>4. Placed(whole, 0, t)
    BY <2>1, <2>3
  <2>5. /\ Len(t) = Len(u) + Len(v) /\ Len(u) \in Nat /\ Len(v) \in Nat /\ Len(whole) \in Nat
        /\ \A m \in 1..Len(u) : t[m] = u[m]
    <3>1. IsJoin(u \o v, u, v)
      BY JoinIs
    <3>. QED  BY <2>3, <3>1, LenProperties DEF IsJoin
  <2>6. Placed(whole, 0, u)
    <3>1. 0 + Len(u) <= Len(whole)
      BY <2>4, <2>5 DEF Placed
    <3>2. \A m \in 1..Len(u) : m \in 1..Len(t)
      BY <2>5
    <3>. QED  BY <2>4, <2>5, <3>1, <3>2 DEF Placed
  <2>. QED  BY <2>1, <2>2, <2>3, <2>6
<1>5. P = 0..n
  <2>. HIDE DEF P
  <2>. QED  BY <1>3, <1>4, UpToInduction
<1>6. \A i \in 0..n : n - i \in 0..n /\ n - (n - i) = i
  OBVIOUS
<1>. QED  BY <1>1, <1>2, <1>5, <1>6

\* Where each sequence is.
LEMMA JoinsPlaced ==
  ASSUME NEW S, NEW seqs \in Seq(Seq(S)), NEW h, Joins(h, S, seqs), NEW i \in 1..Len(seqs)
  PROVE  /\ h[i] = h[i - 1] \o seqs[i] /\ seqs[i] \in Seq(S)
         /\ h[i - 1] \in Seq(S) /\ h[i] \in Seq(S)
         /\ Len(h[i - 1]) \in Nat /\ Len(seqs[i]) \in Nat
         /\ Len(h[i]) = Len(h[i - 1]) + Len(seqs[i])
         /\ Placed(h[Len(seqs)], Len(h[i - 1]), seqs[i])
<1>1. PICK n \in Nat : n = Len(seqs)
  BY LenProperties
<1>2. i \in 1..n /\ i \in 0..n /\ i - 1 \in 0..n /\ n \in 0..n
  BY <1>1
<1>3. PICK whole \in Seq(S), t \in Seq(S), u \in Seq(S), v \in Seq(S) :
        whole = h[n] /\ t = h[i] /\ u = h[i - 1] /\ v = seqs[i] /\ t = u \o v
  BY <1>1, <1>2, ElementOfSeq DEF Joins
<1>4. Placed(whole, 0, t)
  BY <1>1, <1>2, <1>3, JoinsPrefix
<1>5. /\ Len(t) = Len(u) + Len(v) /\ Len(u) \in Nat /\ Len(v) \in Nat /\ Len(whole) \in Nat
      /\ \A m \in 1..Len(v) : t[Len(u) + m] = v[m]
  <2>1. IsJoin(u \o v, u, v)
    BY JoinIs
  <2>. QED  BY <1>3, <2>1, LenProperties DEF IsJoin
<1>6. Placed(whole, Len(u), v)
  <2>1. Len(u) + Len(v) <= Len(whole)
    BY <1>4, <1>5 DEF Placed
  <2>2. \A m \in 1..Len(v) : Len(u) + m \in 1..Len(t) /\ 0 + (Len(u) + m) = Len(u) + m
    BY <1>5
  <2>. QED  BY <1>4, <1>5, <2>1, <2>2 DEF Placed
<1>. QED  BY <1>1, <1>3, <1>5, <1>6

\* Three sequences can be joined in two ways.
Associates(s, t, u) == s \o (t \o u) = (s \o t) \o u

\* It makes no difference which two are joined first.
LEMMA JoinAssociates ==
  ASSUME NEW S, NEW s \in Seq(S), NEW t \in Seq(S), NEW u \in Seq(S)
  PROVE  Associates(s, t, u)
  BY ConcatAssociative DEF Associates

\* A function on the positions of a sequence is a sequence.
LEMMA MapSeq ==
  ASSUME NEW T, NEW s \in Seq(T), NEW S, NEW f \in [DOMAIN s -> S]
  PROVE  f \in Seq(S) /\ Len(f) = Len(s) /\ DOMAIN s = 1..Len(s)
<1>1. PICK n \in Nat : n = Len(s) /\ DOMAIN s = 1..n
  BY LenProperties
<1>2. f \in [1..n -> S]
  BY <1>1
<1>3. f \in Seq(S)
  BY <1>2, SeqDef
<1>4. Len(f) = n
  BY <1>2, <1>3, LenProperties
<1>. QED  BY <1>1, <1>3, <1>4

\* The two parts of a sequence are in it.
LEMMA JoinPlaced ==
  ASSUME NEW S, NEW s \in Seq(S), NEW t \in Seq(S)
  PROVE  /\ s \o t \in Seq(S) /\ Len(s \o t) = Len(s) + Len(t)
         /\ Placed(s \o t, 0, s) /\ Placed(s \o t, Len(s), t)
<1>1. s \o t \in Seq(S) /\ IsJoin(s \o t, s, t)
  BY JoinIs
<1>. QED  BY <1>1 DEF IsJoin, Placed

\* What is in a part is in the whole.
LEMMA PlacedInside ==
  ASSUME NEW w, NEW s, NEW t, NEW p \in Nat, NEW q \in Nat,
         Len(w) \in Nat, Len(s) \in Nat, Len(t) \in Nat,
         Placed(w, p, s), Placed(s, q, t)
  PROVE  Placed(w, p + q, t)
<1>1. PICK k \in Nat, l \in Nat, m \in Nat : k = Len(w) /\ l = Len(s) /\ m = Len(t)
  OBVIOUS
<1>2. p + l <= k /\ q + m <= l
  BY <1>1 DEF Placed
<1>3. \A i \in 1..m : w[(p + q) + i] = t[i]
  <2>. TAKE i \in 1..m
  <2>1. PICK j \in 1..l : j = q + i /\ p + j = (p + q) + i
    BY <1>2
  <2>2. w[p + j] = s[j] /\ s[q + i] = t[i]
    BY <1>1, <2>1 DEF Placed
  <2>. QED  BY <2>1, <2>2
<1>. QED  BY <1>1, <1>2, <1>3 DEF Placed

\* A sequence of one element.
LEMMA OneElement ==
  ASSUME NEW S, NEW c \in S
  PROVE  <<c>> \in Seq(S) /\ Len(<<c>>) = 1 /\ <<c>>[1] = c
  OBVIOUS

\* A sequence of two elements.
LEMMA TwoElements ==
  ASSUME NEW S, NEW b \in S, NEW c \in S
  PROVE  /\ <<b, c>> \in Seq(S) /\ Len(<<b, c>>) = 2
         /\ <<b, c>>[1] = b /\ <<b, c>>[2] = c
  OBVIOUS

\* A part with one element.
LEMMA PlacedOne ==
  ASSUME NEW line, Len(line) \in Nat, NEW p \in Nat, NEW s, Placed(line, p, s),
         Len(s) = 1
  PROVE  line[p + 1] = s[1] /\ p + 1 <= Len(line)
<1>1. 1 \in 1..Len(s)
  OBVIOUS
<1>. QED  BY <1>1 DEF Placed

\* A part with two elements.
LEMMA PlacedTwo ==
  ASSUME NEW line, Len(line) \in Nat, NEW p \in Nat, NEW s, Placed(line, p, s),
         Len(s) = 2
  PROVE  line[p + 1] = s[1] /\ line[p + 2] = s[2] /\ p + 2 <= Len(line)
<1>1. 1 \in 1..Len(s) /\ 2 \in 1..Len(s)
  OBVIOUS
<1>. QED  BY <1>1 DEF Placed

\* A piece that is known.
LEMMA PlacedPiece ==
  ASSUME NEW S, NEW s \in Seq(S), NEW q \in Nat, NEW t \in Seq(S), Placed(s, q, t)
  PROVE  SubSeq(s, q + 1, q + Len(t)) = t
<1>1. PICK n \in Nat, m \in Nat : n = Len(s) /\ m = Len(t) /\ q + m <= n
  BY LenProperties DEF Placed
<1>2. PICK a \in Nat \ {0}, b \in Nat : a = q + 1 /\ b = q + m /\ b <= Len(s) /\ b \in Int
  BY <1>1
<1>3. PICK u \in Seq(S) : u = SubSeq(s, a, b)
  <2>1. SubSeq(s, a, b) \in Seq(S)
    BY <1>2, Piece
  <2>. QED  BY <2>1
<1>4. Len(u) = m
  <2>1. Len(u) = IF a <= b THEN b - a + 1 ELSE 0
    BY <1>2, <1>3, Piece
  <2>. QED  BY <1>2, <2>1
<1>5. \A i \in 1..m : u[i] = t[i]
  <2>. TAKE i \in 1..m
  <2>1. i \in 1..(b - a + 1)
    BY <1>2
  <2>2. u[i] = s[a + i - 1]
    BY <1>2, <1>3, <2>1, Piece
  <2>3. a + i - 1 = q + i
    BY <1>2
  <2>4. s[q + i] = t[i]
    BY <1>1 DEF Placed
  <2>. QED  BY <2>2, <2>3, <2>4
<1>6. Len(u) = Len(t) /\ \A i \in 1..Len(u) : u[i] = t[i]
  BY <1>1, <1>4, <1>5
<1>7. u = t
  BY <1>6, SeqEqual
<1>. QED  BY <1>1, <1>2, <1>3, <1>7

\* A sequence of three elements.
LEMMA ThreeElements ==
  ASSUME NEW S, NEW a \in S, NEW b \in S, NEW c \in S
  PROVE  /\ <<a, b, c>> \in Seq(S) /\ Len(<<a, b, c>>) = 3
         /\ <<a, b, c>>[1] = a /\ <<a, b, c>>[2] = b /\ <<a, b, c>>[3] = c
  OBVIOUS

\* Nothing and one sequence joined.
LEMMA FlattenFew ==
  ASSUME NEW S, NEW seqs \in Seq(Seq(S))
  PROVE  /\ FlattenSeq(seqs) \in Seq(S)
         /\ Len(seqs) = 0 => FlattenSeq(seqs) = <<>>
         /\ Len(seqs) = 1 => FlattenSeq(seqs) = seqs[1]
<1>1. PICK n \in Nat : n = Len(seqs)
  BY LenProperties
<1>2. PICK h : Joins(h, S, seqs) /\ FlattenSeq(seqs) = h[n]
  BY <1>1, FlattenJoins
<1>3. h[0] = <<>> /\ h[n] \in Seq(S)
  <2>1. n \in 0..n
    OBVIOUS
  <2>. QED  BY <1>1, <1>2, <2>1 DEF Joins
<1>4. CASE n = 1
  <2>1. 1 \in 1..Len(seqs) /\ 1 - 1 = 0
    BY <1>1, <1>4
  <2>2. h[1] = h[0] \o seqs[1] /\ seqs[1] \in Seq(S)
    BY <1>2, <2>1, ElementOfSeq DEF Joins
  <2>3. <<>> \o seqs[1] = seqs[1]
    BY <2>2, ConcatEmptySeq
  <2>. QED  BY <1>1, <1>2, <1>3, <1>4, <2>2, <2>3
<1>. QED  BY <1>1, <1>2, <1>3, <1>4

\* What a send takes.
LEMMA MinIs ==
  ASSUME NEW a \in Nat, NEW b \in Int
  PROVE  Min({a, b}) \in Int /\ Min({a, b}) <= a /\ Min({a, b}) <= b
         /\ Min({a, b}) \in {a, b}
<1>1. \E x \in {a, b} : \A y \in {a, b} : x <= y
  <2>1. CASE a <= b
    BY <2>1
  <2>2. CASE ~(a <= b)
    BY <2>2
  <2>. QED  BY <2>1, <2>2
<1>2. Min({a, b}) \in {a, b} /\ \A y \in {a, b} : Min({a, b}) <= y
  BY <1>1 DEF Min
<1>. QED  BY <1>2

\* A beginning that is as long as the whole is the whole.
LEMMA PlacedWhole ==
  ASSUME NEW S, NEW w \in Seq(S), NEW b \in Seq(S), Placed(w, 0, b)
  PROVE  /\ Len(b) <= Len(w)
         /\ Len(b) = Len(w) => b = w
         /\ SubSeq(w, 1, Len(w)) = w
<1>1. PICK k \in Nat, m \in Nat : k = Len(b) /\ m = Len(w) /\ 0 + k <= m
        /\ \A i \in 1..k : w[0 + i] = b[i]
  BY LenProperties DEF Placed
<1>2. \A i \in 1..k : w[i] = b[i]
  BY <1>1
<1>3. Len(b) <= Len(w)
  BY <1>1
<1>4. k = m => b = w
  BY <1>1, <1>2, SeqEqual
<1>5. SubSeq(w, 1, Len(w)) = w
  <2>1. PICK one \in Nat \ {0} : one = 1
    OBVIOUS
  <2>2. m \in Int /\ m <= Len(w)
    BY <1>1
  <2>3. PICK v \in Seq(S) : v = SubSeq(w, one, m)
          /\ Len(v) = (IF one <= m THEN m - one + 1 ELSE 0)
          /\ \A i \in 1..(m - one + 1) : v[i] = w[one + i - 1]
    <3>1. /\ SubSeq(w, one, m) \in Seq(S)
          /\ Len(SubSeq(w, one, m)) = IF one <= m THEN m - one + 1 ELSE 0
          /\ \A i \in 1..(m - one + 1) : SubSeq(w, one, m)[i] = w[one + i - 1]
      BY <2>1, <2>2, Piece
    <3>. QED  BY <3>1
  <2>4. (IF one <= m THEN m - one + 1 ELSE 0) = m /\ m - one + 1 = m
        /\ \A i \in Nat : one + i - 1 = i
    BY <2>1
  <2>5. \A i \in 1..m : i \in Nat
    OBVIOUS
  <2>6. Len(v) = m /\ \A i \in 1..m : v[i] = w[i]
    BY <2>3, <2>4, <2>5
  <2>7. v = w
    BY <1>1, <2>6, SeqEqual
  <2>. QED  BY <1>1, <2>1, <2>3, <2>7
<1>. QED  BY <1>1, <1>3, <1>4, <1>5

\* Two pieces that follow one another.
LEMMA PiecesJoin ==
  ASSUME NEW S, NEW s \in Seq(S), NEW a \in Nat, NEW r \in Nat, NEW t \in Nat,
         a <= r, r <= t, t <= Len(s)
  PROVE  SubSeq(s, a + 1, r) \o SubSeq(s, r + 1, t) = SubSeq(s, a + 1, t)
<1>1. PICK l \in Nat : l = Len(s) /\ r <= l /\ t <= l
  <2>1. PICK l \in Nat : l = Len(s)
    BY LenProperties
  <2>2. r <= l
    BY <2>1
  <2>. QED  BY <2>1, <2>2
<1>2. a + 1 \in Nat \ {0} /\ r + 1 \in Nat \ {0} /\ r \in Int /\ t \in Int /\ r <= Len(s)
  BY <1>1
<1>3. PICK u \in Seq(S), v \in Seq(S), w \in Seq(S) :
        /\ u = SubSeq(s, a + 1, r) /\ v = SubSeq(s, r + 1, t) /\ w = SubSeq(s, a + 1, t)
        /\ Len(u) = r - a /\ Len(v) = t - r /\ Len(w) = t - a
        /\ (\A i \in 1..(r - a) : u[i] = s[a + i])
        /\ (\A i \in 1..(t - r) : v[i] = s[r + i])
        /\ (\A i \in 1..(t - a) : w[i] = s[a + i])
  <2>1. ASSUME NEW m \in Nat, NEW n \in Nat, m <= n, n <= Len(s)
        PROVE  /\ SubSeq(s, m + 1, n) \in Seq(S) /\ Len(SubSeq(s, m + 1, n)) = n - m
               /\ \A i \in 1..(n - m) : SubSeq(s, m + 1, n)[i] = s[m + i]
    <3>1. m + 1 \in Nat \ {0} /\ n \in Int
      OBVIOUS
    <3>2. /\ SubSeq(s, m + 1, n) \in Seq(S)
          /\ Len(SubSeq(s, m + 1, n)) = (IF m + 1 <= n THEN n - (m + 1) + 1 ELSE 0)
          /\ \A i \in 1..(n - (m + 1) + 1) : SubSeq(s, m + 1, n)[i] = s[(m + 1) + i - 1]
      BY <2>1, <3>1, Piece
    <3>3. (IF m + 1 <= n THEN n - (m + 1) + 1 ELSE 0) = n - m /\ n - (m + 1) + 1 = n - m
          /\ \A i \in Nat : (m + 1) + i - 1 = m + i
      BY <2>1
    <3>4. \A i \in 1..(n - m) : i \in Nat
      OBVIOUS
    <3>. QED  BY <3>2, <3>3, <3>4
  <2>2. a <= t /\ r <= Len(s)
    BY <1>2
  <2>3. /\ SubSeq(s, a + 1, r) \in Seq(S) /\ Len(SubSeq(s, a + 1, r)) = r - a
        /\ \A i \in 1..(r - a) : SubSeq(s, a + 1, r)[i] = s[a + i]
    BY <2>1, <2>2
  <2>4. /\ SubSeq(s, r + 1, t) \in Seq(S) /\ Len(SubSeq(s, r + 1, t)) = t - r
        /\ \A i \in 1..(t - r) : SubSeq(s, r + 1, t)[i] = s[r + i]
    BY <2>1
  <2>5. /\ SubSeq(s, a + 1, t) \in Seq(S) /\ Len(SubSeq(s, a + 1, t)) = t - a
        /\ \A i \in 1..(t - a) : SubSeq(s, a + 1, t)[i] = s[a + i]
    BY <2>1, <2>2
  <2>. QED  BY <2>3, <2>4, <2>5
<1>4. PICK z \in Seq(S) : z = u \o v /\ IsJoin(z, u, v)
  BY JoinIs
<1>5. Len(z) = t - a
  <2>1. (r - a) + (t - r) = t - a
    OBVIOUS
  <2>. QED  BY <1>3, <1>4, <2>1 DEF IsJoin
<1>6. ASSUME NEW i \in 1..(t - a) PROVE z[i] = w[i]
  <2>1. CASE i <= r - a
    <3>1. i \in 1..(r - a)
      BY <2>1
    <3>. QED  BY <1>3, <1>4, <3>1 DEF IsJoin
  <2>2. CASE ~(i <= r - a)
    <3>1. PICK j \in 1..(t - r), p \in Nat : p = r - a /\ i = p + j /\ a + i = r + j
      BY <2>2
    <3>2. z[p + j] = v[j]
      BY <1>3, <1>4, <3>1 DEF IsJoin
    <3>3. w[i] = s[a + i] /\ v[j] = s[r + j]
      BY <1>3, <3>1
    <3>. QED  BY <3>1, <3>2, <3>3
  <2>. QED  BY <2>1, <2>2
<1>7. z = w
  BY <1>3, <1>5, <1>6, SeqEqual
<1>. QED  BY <1>3, <1>4, <1>7

\* The first sequences are no longer than more of them.
LEMMA JoinsGrow ==
  ASSUME NEW S, NEW seqs \in Seq(Seq(S)), NEW h, Joins(h, S, seqs),
         NEW i \in 0..Len(seqs), NEW j \in i..Len(seqs)
  PROVE  Len(h[i]) \in Nat /\ Len(h[j]) \in Nat /\ Len(h[i]) <= Len(h[j])
<1>1. PICK k \in Nat : k = Len(seqs)
  BY LenProperties
<1>2. \A m \in 0..k : Len(h[m]) \in Nat
  BY <1>1, LenProperties DEF Joins
<1>. DEFINE P == {m \in 0..k : i <= m => Len(h[i]) <= Len(h[m])}
<1>3. 0 \in P
  <2>1. i <= 0 => i = 0
    BY <1>1
  <2>. QED  BY <1>1, <1>2, <2>1
<1>4. ASSUME NEW m \in 1..k, m - 1 \in P PROVE m \in P
  <2>1. Len(seqs[m]) \in Nat /\ Len(h[m]) = Len(h[m - 1]) + Len(seqs[m]) /\ Len(h[m - 1]) \in Nat
    <3>1. m \in 1..Len(seqs)
      BY <1>1
    <3>. QED  BY <3>1, JoinsPlaced
  <2>2. CASE i <= m - 1
    <3>1. Len(h[i]) <= Len(h[m - 1]) /\ Len(h[i]) \in Nat
      BY <1>1, <1>2, <1>4, <2>2
    <3>2. Len(h[i]) <= Len(h[m])
      <4>1. \A x \in Nat, y \in Nat, z \in Nat : x <= y => x <= y + z
        OBVIOUS
      <4>2. Len(h[i]) <= Len(h[m - 1]) + Len(seqs[m])
        BY <2>1, <3>1, <4>1
      <4>. QED  BY <2>1, <4>2
    <3>. QED  BY <3>2
  <2>3. CASE i = m
    BY <1>2, <2>3
  <2>4. CASE i > m
    BY <2>4
  <2>. QED  BY <1>1, <2>2, <2>3, <2>4
<1>5. P = 0..k
  <2>1. P \in SUBSET (0..k)
    OBVIOUS
  <2>. HIDE DEF P
  <2>. QED  BY <1>3, <1>4, <2>1, UpToInduction
<1>6. j \in P /\ i \in 0..k
  BY <1>1, <1>5
<1>. QED  BY <1>1, <1>2, <1>6

\* FlattenSeq() joins sequences; the first of them is at the beginning.
LEMMA FlattenProps ==
  ASSUME NEW S, NEW seqs \in Seq(Seq(S))
  PROVE  /\ FlattenSeq(seqs) \in Seq(S)
         /\ seqs # <<>> =>
              /\ Len(seqs[1]) <= Len(FlattenSeq(seqs))
              /\ \A j \in 1..Len(seqs[1]) : FlattenSeq(seqs)[j] = seqs[1][j]
<1>1. PICK h : Joins(h, S, seqs) /\ FlattenSeq(seqs) = h[Len(seqs)]
  BY FlattenJoins
<1>2. PICK n \in Nat : n = Len(seqs) /\ (seqs # <<>> => 1 \in 1..n)
  BY EmptySeq, LenProperties
<1>3. FlattenSeq(seqs) \in Seq(S)
  BY <1>1, <1>2 DEF Joins
<1>4. ASSUME seqs # <<>>
      PROVE  Placed(FlattenSeq(seqs), 0, seqs[1])
  <2>1. Placed(h[n], Len(h[1 - 1]), seqs[1])
    BY <1>1, <1>2, <1>4, JoinsPlaced
  <2>2. h[1 - 1] = <<>> /\ Len(<<>>) = 0
    BY <1>1, EmptySeq DEF Joins
  <2>. QED  BY <1>1, <1>2, <2>1, <2>2
<1>5. ASSUME seqs # <<>>
      PROVE  /\ Len(seqs[1]) <= Len(FlattenSeq(seqs))
             /\ \A j \in 1..Len(seqs[1]) : FlattenSeq(seqs)[j] = seqs[1][j]
  <2>1. PICK w \in Seq(S), s \in Seq(S) : w = FlattenSeq(seqs) /\ s = seqs[1] /\ Placed(w, 0, s)
    BY <1>2, <1>3, <1>4, <1>5, ElementOfSeq
  <2>2. PICK k \in Nat : k = Len(s) /\ 0 + k <= Len(w) /\ \A j \in 1..k : w[0 + j] = s[j]
    BY <2>1, LenProperties DEF Placed
  <2>3. 0 + k = k /\ \A j \in 1..k : 0 + j = j
    OBVIOUS
  <2>. QED  BY <2>1, <2>2, <2>3
<1>. QED  BY <1>3, <1>5
=============================================================================
