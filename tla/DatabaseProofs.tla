--------------------------- MODULE DatabaseProofs ---------------------------
(***************************************************************************)
(* Proofs about Database, for every set of keys and values, every clock    *)
(* resolution and range, and every clock adjustment.                       *)
(***************************************************************************)
EXTENDS Database, TLAPS

\* Why an absence that was observed is final: a key reported missing has no
\* entry at all, so there is nothing for EXPIRE or the clock to revive.
GoneHasNoEntry == \A k \in gone : store[k] = None

\* Between its two clock readings ttl() holds a reference to an entry that
\* exists and has a deadline.
PendingHasDeadline ==
  pending # None => store[pending] # None /\ store[pending].expires_at # None

IInv == TypeOK /\ GoneHasNoEntry /\ PendingHasDeadline

\* The clock of the model starts at 0 and is never set back beyond it.
ClockStarted == clock >= 0

-----------------------------------------------------------------------------
(* Lemmas about the helpers.                                               *)

\* A deadline is a time point.
LEMMA DeadlineType ==
  ASSUME clock \in Int, NEW s \in Seconds
  PROVE  Deadline(s) \in Int
<1>1. s \in Int /\ TicksPerSecond \in Int /\ TimeMax \in Nat \ {0}
  BY DatabaseAssumption
<1>2. s * TicksPerSecond \in Int
  BY <1>1
<1>3. clock + s * TicksPerSecond + TimeMax \in Int /\ 2 * TimeMax \in Nat \ {0}
  BY <1>1, <1>2
<1>4. (clock + s * TicksPerSecond + TimeMax) % (2 * TimeMax) \in Int
  BY <1>3
<1>. QED  BY <1>1, <1>4 DEF Deadline, Wrap

\* What TTL computes from a difference of time points is a number of
\* seconds that is not negative.
LEMMA WholeSecondsType ==
  ASSUME NEW ticks \in Int
  PROVE  WholeSeconds(ticks) \in Nat
<1>1. TicksPerSecond \in Nat \ {0}
  BY DatabaseAssumption
<1>2. ticks >= 0 => ticks \div TicksPerSecond \in Nat
  BY <1>1
<1>. QED  BY <1>2 DEF WholeSeconds

\* Purging touches the entry of its key only, and either drops it or leaves
\* the whole store alone.
LEMMA RemoveIfExpiredProps ==
  ASSUME TypeOK, NEW k \in Keys
  PROVE  /\ RemoveIfExpired(k) \in [Keys -> Entry \cup {None}]
         /\ \A j \in Keys : \/ RemoveIfExpired(k)[j] = store[j]
                            \/ RemoveIfExpired(k)[j] = None /\ j = k
         /\ \A j \in Keys : store[j] = None => RemoveIfExpired(k)[j] = None
<1>. USE DEF TypeOK
<1>1. CASE store[k] # None /\ IsExpired(store[k])
  <2>1. RemoveIfExpired(k) = [store EXCEPT ![k] = None]
    BY <1>1 DEF RemoveIfExpired
  <2>. QED  BY <2>1
<1>2. CASE ~(store[k] # None /\ IsExpired(store[k]))
  <2>1. RemoveIfExpired(k) = store
    BY <1>2 DEF RemoveIfExpired
  <2>. QED  BY <2>1
<1>. QED  BY <1>1, <1>2

-----------------------------------------------------------------------------
(* The invariant.                                                          *)

\* The invariant holds at the start.
LEMMA InitInv == Init => IInv
  BY DatabaseAssumption
  DEF Init, IInv, TypeOK, Reply, Ops, GoneHasNoEntry, PendingHasDeadline

\* Every command and every move of the clock keeps the invariant.
LEMMA NextInv == IInv /\ [Next]_vars => IInv'
<1>. SUFFICES ASSUME IInv, [Next]_vars PROVE IInv'
  OBVIOUS
<1>. USE DEF IInv
<1>a. /\ None \notin Int /\ None \notin Keys /\ None \notin Values
      /\ 0 \in Int /\ 1 \in Int /\ -2 \in Int /\ -1 \in Int
  BY DatabaseAssumption
<1>b. \A e \in Entry : e # None => e.value \in Values
  BY DEF Entry
<1>1. ASSUME NEW k \in Keys, NEW v \in Values, Set(k, v) PROVE IInv'
  <2>1. [value |-> v, expires_at |-> None] \in Entry
    BY DEF Entry
  <2>2. TypeOK'
    BY <1>1, <2>1, <1>a DEF Set, Answer, TypeOK, Reply, Ops, Idle
  <2>3. GoneHasNoEntry' /\ PendingHasDeadline'
    BY <1>1 DEF Set, Idle, TypeOK, GoneHasNoEntry, PendingHasDeadline
  <2>. QED  BY <2>2, <2>3
<1>2. ASSUME NEW k \in Keys, Get(k) PROVE IInv'
  <2>1. /\ store' \in [Keys -> Entry \cup {None}]
        /\ \A j \in Keys : store[j] = None => store'[j] = None
    BY <1>2, RemoveIfExpiredProps DEF Get
  <2>2. (IF store'[k] = None THEN None ELSE store'[k].value)
           \in Int \cup Values \cup {None, OK}
    BY <2>1, <1>b
  <2>3. TypeOK'
    BY <1>2, <2>1, <2>2, <1>a DEF Get, Answer, Witness, TypeOK, Reply, Ops
  <2>4. GoneHasNoEntry' /\ PendingHasDeadline'
    BY <1>2, <2>1
    DEF Get, Witness, Idle, TypeOK, GoneHasNoEntry, PendingHasDeadline
  <2>. QED  BY <2>3, <2>4
<1>3. ASSUME NEW k \in Keys, Del(k) PROVE IInv'
  <2>1. /\ store' \in [Keys -> Entry \cup {None}]
        /\ store'[k] = None
        /\ \A j \in Keys : store[j] = None => store'[j] = None
    BY <1>3, RemoveIfExpiredProps DEF Del
  <2>2. TypeOK'
    BY <1>3, <2>1, <1>a DEF Del, Answer, Witness, TypeOK, Reply, Ops
  <2>3. GoneHasNoEntry' /\ PendingHasDeadline'
    BY <1>3, <2>1
    DEF Del, Witness, Idle, TypeOK, GoneHasNoEntry, PendingHasDeadline
  <2>. QED  BY <2>2, <2>3
<1>4. ASSUME NEW k \in Keys, Exists(k) PROVE IInv'
  <2>1. /\ store' \in [Keys -> Entry \cup {None}]
        /\ \A j \in Keys : store[j] = None => store'[j] = None
    BY <1>4, RemoveIfExpiredProps DEF Exists
  <2>2. TypeOK'
    BY <1>4, <2>1, <1>a DEF Exists, Answer, Witness, TypeOK, Reply, Ops
  <2>3. GoneHasNoEntry' /\ PendingHasDeadline'
    BY <1>4, <2>1
    DEF Exists, Witness, Idle, TypeOK, GoneHasNoEntry, PendingHasDeadline
  <2>. QED  BY <2>2, <2>3
<1>5. ASSUME NEW k \in Keys, NEW s \in Seconds, Expire(k, s) PROVE IInv'
  <2>1. Deadline(s) \in Int /\ s \in Int
    BY DeadlineType, DatabaseAssumption DEF TypeOK
  <2>2. /\ store' \in [Keys -> Entry \cup {None}]
        /\ \A j \in Keys : store[j] = None => store'[j] = None
    <3>1. CASE store[k] = None
      BY <1>5, <3>1 DEF Expire, TypeOK
    <3>2. CASE store[k] # None
      <4>1. store[k] \in Entry
        BY <3>2 DEF TypeOK
      <4>2. [store[k] EXCEPT !.expires_at = Deadline(s)] \in Entry
        BY <4>1, <2>1 DEF Entry
      <4>3. store' = [store EXCEPT ![k] =
                        [store[k] EXCEPT !.expires_at = Deadline(s)]]
        BY <1>5, <3>2 DEF Expire, TypeOK
      <4>. QED  BY <3>2, <4>2, <4>3 DEF TypeOK
    <3>. QED  BY <3>1, <3>2
  <2>3. TypeOK'
    BY <1>5, <2>1, <2>2, <1>a DEF Expire, Answer, TypeOK, Reply, Ops
  <2>4. GoneHasNoEntry' /\ PendingHasDeadline'
    BY <1>5, <2>2 DEF Expire, Idle, TypeOK, GoneHasNoEntry, PendingHasDeadline
  <2>. QED  BY <2>3, <2>4
<1>6. ASSUME NEW k \in Keys, TtlLookup(k) PROVE IInv'
  <2>1. /\ store' \in [Keys -> Entry \cup {None}]
        /\ \A j \in Keys : store[j] = None => store'[j] = None
    BY <1>6, RemoveIfExpiredProps DEF TtlLookup
  <2>2. TypeOK'
    BY <1>6, <2>1, <1>a DEF TtlLookup, Answer, Witness, TypeOK, Reply, Ops
  <2>3. GoneHasNoEntry'
    BY <1>6, <2>1 DEF TtlLookup, Witness, TypeOK, GoneHasNoEntry
  <2>4. PendingHasDeadline'
    BY <1>6, <1>a DEF TtlLookup, Idle, PendingHasDeadline
  <2>. QED  BY <2>2, <2>3, <2>4
<1>7. ASSUME TtlReply PROVE IInv'
  <2>1. pending \in Keys /\ store[pending] \in Entry
    BY <1>7 DEF TtlReply, TypeOK, PendingHasDeadline
  <2>2. store[pending].expires_at - clock \in Int
    BY <1>7, <2>1 DEF TtlReply, TypeOK, PendingHasDeadline, Entry
  <2>3. WholeSeconds(store[pending].expires_at - clock) \in Int
    BY <2>2, WholeSecondsType
  <2>4. TypeOK'
    BY <1>7, <2>1, <2>3, <1>a DEF TtlReply, Answer, TypeOK, Reply, Ops
  <2>5. GoneHasNoEntry' /\ PendingHasDeadline'
    BY <1>7 DEF TtlReply, GoneHasNoEntry, PendingHasDeadline
  <2>. QED  BY <2>4, <2>5
<1>8. CASE Tick
  BY <1>8 DEF Tick, TypeOK, GoneHasNoEntry, PendingHasDeadline
<1>9. CASE StepBack
  <2>1. clock' \in Int
    BY <1>9, DatabaseAssumption DEF StepBack, TypeOK
  <2>. QED
    BY <1>9, <2>1 DEF StepBack, TypeOK, GoneHasNoEntry, PendingHasDeadline
<1>10. ASSUME NEW k \in Keys, Reject(k) PROVE IInv'
  BY <1>10, <1>a
  DEF Reject, Answer, TypeOK, Reply, Ops, GoneHasNoEntry, PendingHasDeadline
<1>11. CASE UNCHANGED vars
  BY <1>11 DEF vars, TypeOK, GoneHasNoEntry, PendingHasDeadline
<1>. QED
  BY <1>1, <1>2, <1>3, <1>4, <1>5, <1>6, <1>7, <1>8, <1>9, <1>10, <1>11 DEF Next

\* It is an invariant.
LEMMA SpecInv == Spec => []IInv
<1>. QED  BY InitInv, NextInv, PTL DEF Spec

-----------------------------------------------------------------------------
(* The theorems.                                                           *)

\* Every variable keeps its type: in particular TTL always has an entry with
\* a deadline to compute the remaining seconds from.
THEOREM TypeCorrect == Spec => []TypeOK
<1>1. IInv => TypeOK
  BY DEF IInv
<1>. QED  BY <1>1, SpecInv, PTL

\* A key that was reported missing stays invisible until it is set again,
\* whatever EXPIRE calls and clock adjustments follow.
THEOREM ObservedAbsenceIsFinal == Spec => []ObservedGoneStaysGone
<1>1. IInv => ObservedGoneStaysGone
  BY DEF IInv, GoneHasNoEntry, ObservedGoneStaysGone, Visible
<1>. QED  BY <1>1, SpecInv, PTL

\* The three kinds of answers of TTL mean what they say: nothing that happens
\* after the answer, until the next one, makes it wrong about the entry.
THEOREM TtlAnswers == Spec => []TtlReplySound
<1>1. Init => TtlReplySound
  BY DEF Init, TtlReplySound
<1>2. IInv /\ TtlReplySound /\ [Next]_vars => TtlReplySound'
  <2>. SUFFICES ASSUME IInv, TtlReplySound, [Next]_vars PROVE TtlReplySound'
    OBVIOUS
  <2>1. ASSUME NEW k \in Keys,
               \/ \E v \in Values : Set(k, v)
               \/ Get(k) \/ Del(k) \/ Exists(k)
               \/ \E s \in Seconds : Expire(k, s)
               \/ Reject(k)
        PROVE  TtlReplySound'
    <3>1. \E op \in {"set", "get", "del", "exists", "expire", "rejected"} :
            \E arg, result : Answer(op, k, arg, result)
      BY <2>1 DEF Set, Get, Del, Exists, Expire, Reject
    <3>2. reply'.op # "ttl"
      BY <3>1 DEF Answer
    <3>. QED  BY <3>2 DEF TtlReplySound
  <2>2. ASSUME NEW k \in Keys, TtlLookup(k) PROVE TtlReplySound'
    <3>1. /\ store' = RemoveIfExpired(k)
          /\ gone' = IF store'[k] = None THEN gone \cup {k} ELSE gone
      BY <2>2 DEF TtlLookup, Witness
    <3>2. CASE store'[k] = None
      <4>1. reply'.op = "ttl" /\ reply'.key = k /\ reply'.result = -2
        BY <2>2, <3>2 DEF TtlLookup, Answer
      <4>. QED  BY <3>1, <3>2, <4>1 DEF TtlReplySound
    <3>3. CASE store'[k] # None /\ store'[k].expires_at = None
      <4>1. reply'.op = "ttl" /\ reply'.key = k /\ reply'.result = -1
        BY <2>2, <3>3 DEF TtlLookup, Answer
      <4>. QED  BY <3>3, <4>1 DEF TtlReplySound
    <3>4. CASE store'[k] # None /\ store'[k].expires_at # None
      <4>1. reply' = reply /\ gone' = gone
        BY <2>2, <3>1, <3>4 DEF TtlLookup
      <4>2. store' = store
        BY <3>1, <3>4 DEF RemoveIfExpired, IInv, TypeOK
      <4>. QED  BY <4>1, <4>2 DEF TtlReplySound
    <3>. QED  BY <3>2, <3>3, <3>4
  <2>3. CASE TtlReply
    <3>1. /\ pending # None /\ store' = store
          /\ reply'.op = "ttl" /\ reply'.key = pending
          /\ reply'.result = WholeSeconds(store[pending].expires_at - clock)
      BY <2>3 DEF TtlReply, Answer
    <3>2. store[pending] \in Entry /\ store[pending].expires_at # None
      BY <3>1 DEF IInv, TypeOK, PendingHasDeadline
    <3>3. store[pending].expires_at - clock \in Int
      BY <3>2 DEF IInv, TypeOK, Entry
    <3>4. WholeSeconds(store[pending].expires_at - clock) \in Nat
      BY <3>3, WholeSecondsType
    <3>5. reply'.result >= 0 /\ reply'.result # -1 /\ store[pending] # None
      BY <3>1, <3>4 DEF IInv, PendingHasDeadline
    <3>. QED  BY <3>1, <3>2, <3>5 DEF TtlReplySound
  <2>4. CASE Tick \/ StepBack \/ UNCHANGED vars
    BY <2>4 DEF Tick, StepBack, vars, TtlReplySound
  <2>. QED  BY <2>1, <2>2, <2>3, <2>4 DEF Next
<1>. QED  BY <1>1, <1>2, SpecInv, PTL DEF Spec

-----------------------------------------------------------------------------
(* What takes a visible key away.                                          *)

\* Purging a key leaves what is visible alone.
LEMMA PurgeKeepsVisible ==
  ASSUME NEW k \in Keys, NEW j \in Keys, Visible(j), TypeOK
  PROVE  RemoveIfExpired(k)[j] = store[j]
  BY DEF RemoveIfExpired, Visible, TypeOK

\* A time point within the range is its own representation.
LEMMA WrapInRange ==
  ASSUME NEW t \in Int, -TimeMax <= t, t < TimeMax
  PROVE  Wrap(t) = t
<1>1. TimeMax \in Nat \ {0}
  BY DatabaseAssumption
<1>2. t + TimeMax \in Nat /\ t + TimeMax < 2 * TimeMax
  BY <1>1
<1>3. (t + TimeMax) % (2 * TimeMax) = t + TimeMax
  BY <1>1, <1>2
<1>. QED  BY <1>1, <1>3 DEF Wrap

\* A positive time to live that does not leave the range ends later than now.
LEMMA DeadlineAhead ==
  ASSUME clock \in Nat, NEW s \in Int, s > 0, clock + s * TicksPerSecond < TimeMax
  PROVE  Deadline(s) > clock
<1>1. TimeMax \in Nat \ {0} /\ TicksPerSecond \in Nat \ {0}
  BY DatabaseAssumption
<1>2. s * TicksPerSecond \in Nat \ {0}
  BY <1>1
<1>3. Wrap(clock + s * TicksPerSecond) = clock + s * TicksPerSecond
  BY <1>1, <1>2, WrapInRange
<1>. QED  BY <1>2, <1>3 DEF Deadline

\* The clock never falls below 0.
LEMMA ClockSpec == Spec => []ClockStarted
<1>1. Init => ClockStarted
  BY DEF Init, ClockStarted
<1>2. IInv /\ ClockStarted /\ [Next]_vars => ClockStarted'
  <2>. SUFFICES ASSUME IInv, ClockStarted, [Next]_vars PROVE ClockStarted'
    OBVIOUS
  <2>1. clock' = clock \/ clock' = clock + 1 \/ clock' >= 0
    BY DEF Next, Set, Get, Del, Exists, Expire, Reject, TtlLookup, TtlReply, Tick, StepBack, vars
  <2>. QED  BY <2>1 DEF ClockStarted, IInv, TypeOK
<1>. QED  BY <1>1, <1>2, SpecInv, PTL DEF Spec

\* A key that a client could see is gone only after DEL, at its deadline, or
\* by an EXPIRE that grants nothing or overflows: no read and no operation on
\* another key takes it away.
THEOREM LiveKeysStay == Spec => VanishesOnlyByDelOrDeadline
<1>. DEFINE A(k) == /\ Visible(k) /\ ~(Visible(k))'
            B(k) == \/ reply'.op = "del" /\ reply'.key = k
                    \/ store[k].expires_at # None /\ clock' >= store[k].expires_at
                    \/ /\ reply'.op = "expire" /\ reply'.key = k
                       /\ \/ reply'.arg <= 0
                          \/ clock + reply'.arg * TicksPerSecond >= TimeMax
<1>1. ASSUME IInv, ClockStarted, [Next]_vars, NEW k \in Keys, A(k)
      PROVE  B(k)
  <2>. USE <1>1 DEF IInv, TypeOK
  <2>1. ASSUME store'[k] = store[k] PROVE B(k)
    BY <2>1 DEF Visible, IsExpired
  <2>2. ASSUME NEW j \in Keys, Get(j) \/ Exists(j) \/ TtlLookup(j) PROVE B(k)
    <3>1. store'[k] = store[k]
      BY <2>2, PurgeKeepsVisible DEF Get, Exists, TtlLookup
    <3>. QED  BY <2>1, <3>1
  <2>3. ASSUME NEW j \in Keys, NEW v \in Values, Set(j, v) PROVE B(k)
    <3>1. CASE j = k
      <4>1. store'[k] = [value |-> v, expires_at |-> None]
        BY <2>3, <3>1 DEF Set
      <4>2. [value |-> v, expires_at |-> None] \in Entry
        BY DEF Entry
      <4>3. (Visible(k))'
        BY <4>1, <4>2, DatabaseAssumption DEF Visible, IsExpired
      <4>. QED  BY <4>3
    <3>2. CASE j # k
      BY <2>1, <2>3, <3>2 DEF Set
    <3>. QED  BY <3>1, <3>2
  <2>4. ASSUME NEW j \in Keys, Del(j) PROVE B(k)
    <3>1. CASE j = k
      BY <2>4, <3>1 DEF Del, Answer
    <3>2. CASE j # k
      <4>1. RemoveIfExpired(j) \in [Keys -> Entry \cup {None}]
        BY RemoveIfExpiredProps
      <4>2. store'[k] = store[k]
        BY <2>4, <3>2, <4>1, PurgeKeepsVisible DEF Del
      <4>. QED  BY <2>1, <4>2
    <3>. QED  BY <3>1, <3>2
  <2>5. ASSUME NEW j \in Keys, NEW s \in Seconds, Expire(j, s) PROVE B(k)
    <3>1. CASE j = k
      <4>1. /\ reply'.op = "expire" /\ reply'.key = k /\ reply'.arg = s /\ clock' = clock
            /\ store[k] # None /\ store[k] \in Entry
            /\ store' = [store EXCEPT ![k].expires_at = Deadline(s)]
        BY <2>5, <3>1 DEF Expire, Answer, Visible
      <4>2. s \in Int /\ Deadline(s) \in Int
        BY DeadlineType, DatabaseAssumption
      <4>3. store'[k] = [store[k] EXCEPT !.expires_at = Deadline(s)]
        BY <4>1
      <4>4. store'[k] \in Entry /\ store'[k].expires_at = Deadline(s)
        BY <4>1, <4>2, <4>3 DEF Entry
      <4>5. clock >= Deadline(s)
        BY <4>1, <4>4, DatabaseAssumption DEF Visible, IsExpired
      <4>6. clock \in Nat
        BY DEF ClockStarted
      <4>7. s <= 0 \/ clock + s * TicksPerSecond >= TimeMax
        <5>1. SUFFICES ASSUME s > 0, clock + s * TicksPerSecond < TimeMax PROVE FALSE
          <6>1. s * TicksPerSecond \in Int /\ TimeMax \in Int
            BY <4>2, DatabaseAssumption
          <6>. QED  BY <4>2, <4>6, <6>1
        <5>2. Deadline(s) > clock
          BY <4>2, <4>6, <5>1, DeadlineAhead
        <5>. QED  BY <4>2, <4>5, <4>6, <5>2
      <4>. QED  BY <4>1, <4>7
    <3>2. CASE j # k
      BY <2>1, <2>5, <3>2 DEF Expire
    <3>. QED  BY <3>1, <3>2
  <2>6. CASE TtlReply \/ Tick \/ StepBack \/ UNCHANGED vars
    BY <2>1, <2>6 DEF TtlReply, Tick, StepBack, vars
  <2>7. ASSUME NEW j \in Keys, Reject(j) PROVE B(k)
    BY <2>1, <2>7 DEF Reject
  <2>. QED  BY <2>2, <2>3, <2>4, <2>5, <2>6, <2>7 DEF Next
<1>2. IInv /\ ClockStarted /\ [Next]_vars =>
        [\A k \in Keys :
           Visible(k) /\ ~(Visible(k))' =>
             \/ reply'.op = "del" /\ reply'.key = k
             \/ store[k].expires_at # None /\ clock' >= store[k].expires_at
             \/ /\ reply'.op = "expire" /\ reply'.key = k
                /\ \/ reply'.arg <= 0
                   \/ clock + reply'.arg * TicksPerSecond >= TimeMax]_vars
  BY <1>1
<1>. QED  BY <1>2, SpecInv, ClockSpec, PTL DEF Spec, VanishesOnlyByDelOrDeadline

-----------------------------------------------------------------------------
(* The store implements KVStore.                                           *)

View == [k \in Keys |-> IF Visible(k) THEN store[k].value ELSE None]
Volatile == {k \in Keys : Visible(k) /\ store[k].expires_at # None}
Lost == [k \in Keys |-> IF store[k] # None /\ ~Visible(k) THEN store[k].value ELSE None]

\* What a client can tell of one key.
SameKey(k) ==
  /\ View'[k] = View[k]
  /\ k \in Volatile' <=> k \in Volatile
  /\ Lost'[k] = Lost[k]

\* None is no key, no value and no entry, and the parts of an entry have their types.
LEMMA Distinct ==
  /\ None \notin Values /\ None \notin Keys /\ None \notin Int /\ None \notin Entry
  /\ \A e \in Entry : e.value \in Values /\ e.expires_at \in Int \cup {None}
  BY DatabaseAssumption DEF Entry

\* The abstract state of a key, by what the store holds for it.
LEMMA KeyState ==
  ASSUME TypeOK, NEW k \in Keys
  PROVE  /\ store[k] = None =>
              View[k] = None /\ k \notin Volatile /\ Lost[k] = None
         /\ Visible(k) =>
              /\ store[k] # None /\ View[k] = store[k].value /\ Lost[k] = None
              /\ k \in Volatile <=> store[k].expires_at # None
         /\ store[k] # None /\ ~Visible(k) =>
              /\ View[k] = None /\ k \notin Volatile /\ Lost[k] = store[k].value
              /\ store[k].expires_at # None
         /\ store[k] # None => store[k] \in Entry /\ store[k].value \in Values
         /\ View[k] \in Values \cup {None} /\ Lost[k] \in Values \cup {None}
  BY Distinct DEF TypeOK, View, Volatile, Lost, Visible, IsExpired

\* A key whose entry does not change, with the clock, looks the same to KVStore.
LEMMA KeyKept ==
  ASSUME NEW k \in Keys, store'[k] = store[k], clock' = clock
  PROVE  SameKey(k) /\ (Visible(k) <=> (Visible(k))')
  BY DEF SameKey, View, Volatile, Lost, Visible, IsExpired

\* The abstract functions, from their values at the key of an operation.
LEMMA AbstractUpdate ==
  ASSUME NEW k \in Keys, \A j \in Keys \ {k} : SameKey(j)
  PROVE  /\ View' = [View EXCEPT ![k] = View'[k]]
         /\ View'[k] = View[k] => View' = View
         /\ Lost' = [Lost EXCEPT ![k] = Lost'[k]]
         /\ Lost'[k] = Lost[k] => Lost' = Lost
         /\ k \in Volatile' => Volatile' = Volatile \cup {k}
         /\ k \notin Volatile' => Volatile' = Volatile \ {k}
         /\ (k \in Volatile' <=> k \in Volatile) => Volatile' = Volatile
<1>. DEFINE isFcn(f) == f = [j \in Keys |-> f[j]]
<1>1. isFcn(View) /\ isFcn(View') /\ isFcn(Lost) /\ isFcn(Lost')
  BY DEF View, Lost
<1>2. Volatile \subseteq Keys /\ Volatile' \subseteq Keys
  BY DEF Volatile
<1>3. \A j \in Keys : j # k => /\ View'[j] = View[j] /\ Lost'[j] = Lost[j]
                               /\ j \in Volatile' <=> j \in Volatile
  BY DEF SameKey
<1>4. /\ View' = [View EXCEPT ![k] = View'[k]]
      /\ View'[k] = View[k] => View' = View
  BY <1>1, <1>3
<1>5. /\ Lost' = [Lost EXCEPT ![k] = Lost'[k]]
      /\ Lost'[k] = Lost[k] => Lost' = Lost
  BY <1>1, <1>3
<1>6. /\ k \in Volatile' => Volatile' = Volatile \cup {k}
      /\ k \notin Volatile' => Volatile' = Volatile \ {k}
      /\ (k \in Volatile' <=> k \in Volatile) => Volatile' = Volatile
  BY <1>2, <1>3
<1>. QED  BY <1>4, <1>5, <1>6

\* An operation that purges its key and leaves it alone otherwise: what is
\* visible stays, what had faded is forgotten.
LEMMA Purged ==
  ASSUME TypeOK, TypeOK', NEW k \in Keys, store' = RemoveIfExpired(k), clock' = clock
  PROVE  /\ View' = View /\ Volatile' = Volatile
         /\ Lost' = [Lost EXCEPT ![k] = None]
         /\ store'[k] = None <=> View[k] = None
         /\ store'[k] # None => /\ View[k] = store'[k].value /\ Lost' = Lost
                                /\ k \in Volatile <=> store'[k].expires_at # None
<1>. USE Distinct
<1>1. \A j \in Keys \ {k} : SameKey(j)
  <2>1. \A j \in Keys \ {k} : store'[j] = store[j]
    BY DEF RemoveIfExpired, TypeOK
  <2>. QED  BY <2>1, KeyKept
<1>2. CASE store[k] # None /\ ~Visible(k)
  <2>1. store'[k] = None
    BY <1>2 DEF RemoveIfExpired, Visible, TypeOK
  <2>2. View'[k] = None /\ k \notin Volatile' /\ Lost'[k] = None
    BY <2>1 DEF View, Volatile, Lost, Visible
  <2>3. View[k] = None /\ k \notin Volatile
    BY <1>2, KeyState
  <2>. QED  BY <1>1, <2>1, <2>2, <2>3, AbstractUpdate
<1>3. CASE ~(store[k] # None /\ ~Visible(k))
  <2>1. store'[k] = store[k]
    BY <1>3 DEF RemoveIfExpired, Visible
  <2>2. SameKey(k)
    BY <2>1, KeyKept
  <2>3. View' = View /\ Volatile' = Volatile /\ Lost' = Lost
    BY <1>1, <2>2, AbstractUpdate DEF SameKey
  <2>4. Lost[k] = None /\ Lost = [j \in Keys |-> Lost[j]]
    <3>1. Lost[k] = None
      BY <1>3, KeyState
    <3>. QED  BY <3>1 DEF Lost
  <2>5. store[k] # None => Visible(k)
    BY <1>3
  <2>6. store[k] = None <=> View[k] = None
    BY <2>5, KeyState
  <2>. QED  BY <2>1, <2>3, <2>4, <2>5, <2>6, KeyState
<1>. QED  BY <1>2, <1>3

\* The store begins as KVStore does.
LEMMA KVInit == Init => KV!Init
<1>. SUFFICES ASSUME Init PROVE KV!Init
  OBVIOUS
<1>1. View = [k \in Keys |-> None] /\ Volatile = {} /\ Lost = [k \in Keys |-> None]
  BY DEF Init, View, Volatile, Lost, Visible
<1>. QED  BY <1>1 DEF Init, View, Volatile, Lost, KV!Init

\* set() is Set of KVStore.
LEMMA KVSet ==
  ASSUME TypeOK, NEW k \in Keys, NEW v \in Values, Set(k, v)
  PROVE  KV!Set(k, v)
<1>. USE Distinct
<1>1. /\ store'[k] = [value |-> v, expires_at |-> None] /\ clock' = clock
      /\ \A j \in Keys \ {k} : store'[j] = store[j]
  BY DEF Set, TypeOK
<1>2. \A j \in Keys \ {k} : SameKey(j)
  BY <1>1, KeyKept
<1>3. View'[k] = v /\ k \notin Volatile' /\ Lost'[k] = None
  <2>1. [value |-> v, expires_at |-> None] \in Entry
    BY DEF Entry
  <2>. QED  BY <1>1, <2>1 DEF View, Volatile, Lost, Visible, IsExpired
<1>4. /\ View' = [View EXCEPT ![k] = v] /\ Volatile' = Volatile \ {k}
      /\ Lost' = [Lost EXCEPT ![k] = None]
  BY <1>2, <1>3, AbstractUpdate
<1>5. reply'.op = "set" /\ reply'.key = k /\ reply'.result = OK
  BY DEF Set, Answer
<1>. QED
  BY <1>4, <1>5 DEF View, Volatile, Lost, KV!Set, KV!Forget, KV!Answered

\* get() is Get of KVStore.
LEMMA KVGet ==
  ASSUME TypeOK, TypeOK', NEW k \in Keys, Get(k)
  PROVE  KV!Get(k)
<1>1. store' = RemoveIfExpired(k) /\ clock' = clock
  BY DEF Get
<1>2. reply'.op = "get" /\ reply'.key = k
      /\ reply'.result = IF store'[k] = None THEN None ELSE store'[k].value
  BY DEF Get, Answer
<1>3. /\ View' = View /\ Volatile' = Volatile /\ Lost' = [Lost EXCEPT ![k] = None]
      /\ reply'.result = View[k]
  BY <1>1, <1>2, Purged
<1>. QED  BY <1>2, <1>3 DEF View, Volatile, Lost, KV!Get, KV!Forget, KV!Answered

\* exists() is Exists of KVStore.
LEMMA KVExists ==
  ASSUME TypeOK, TypeOK', NEW k \in Keys, Exists(k)
  PROVE  KV!Exists(k)
<1>1. store' = RemoveIfExpired(k) /\ clock' = clock
  BY DEF Exists
<1>2. reply'.op = "exists" /\ reply'.key = k
      /\ reply'.result = IF store'[k] = None THEN 0 ELSE 1
  BY DEF Exists, Answer
<1>3. /\ View' = View /\ Volatile' = Volatile /\ Lost' = [Lost EXCEPT ![k] = None]
      /\ reply'.result = IF View[k] = None THEN 0 ELSE 1
  BY <1>1, <1>2, Purged
<1>. QED  BY <1>2, <1>3 DEF View, Volatile, Lost, KV!Exists, KV!Forget, KV!Answered

\* del() is Del of KVStore.
LEMMA KVDel ==
  ASSUME TypeOK, NEW k \in Keys, Del(k)
  PROVE  KV!Del(k)
<1>. USE Distinct
<1>1. RemoveIfExpired(k) \in [Keys -> Entry \cup {None}]
  BY RemoveIfExpiredProps
<1>2. /\ store' = [RemoveIfExpired(k) EXCEPT ![k] = None] /\ clock' = clock
  BY DEF Del
<1>3. /\ store'[k] = None
      /\ \A j \in Keys \ {k} : store'[j] = store[j]
  BY <1>1, <1>2 DEF RemoveIfExpired, TypeOK
<1>4. \A j \in Keys \ {k} : SameKey(j)
  BY <1>2, <1>3, KeyKept
<1>5. View'[k] = None /\ k \notin Volatile' /\ Lost'[k] = None
  BY <1>3 DEF View, Volatile, Lost, Visible
<1>6. /\ View' = [View EXCEPT ![k] = None] /\ Volatile' = Volatile \ {k}
      /\ Lost' = [Lost EXCEPT ![k] = None]
  BY <1>4, <1>5, AbstractUpdate
<1>7. RemoveIfExpired(k)[k] = None <=> View[k] = None
  <2>1. RemoveIfExpired(k)[k] = None <=> ~Visible(k)
    BY DEF RemoveIfExpired, Visible, TypeOK
  <2>. QED  BY <2>1, KeyState
<1>8. /\ reply'.op = "del" /\ reply'.key = k
      /\ reply'.result = IF View[k] = None THEN 0 ELSE 1
  BY <1>7 DEF Del, Answer
<1>. QED  BY <1>6, <1>8 DEF View, Volatile, Lost, KV!Del, KV!Forget, KV!Answered

\* EXPIRE finds entries that have faded, and its deadline may be over at once.
LEMMA KVExpire ==
  ASSUME TypeOK, TypeOK', NEW k \in Keys, NEW s \in Seconds, Expire(k, s)
  PROVE  KV!Expire(k)
<1>. USE Distinct
<1>1. /\ clock' = clock
      /\ reply'.op = "expire" /\ reply'.key = k /\ reply'.result = 1
  BY DEF Expire, Answer
<1>2. \A j \in Keys \ {k} : SameKey(j)
  <2>1. \A j \in Keys \ {k} : store'[j] = store[j]
    BY DEF Expire, TypeOK
  <2>. QED  BY <1>1, <2>1, KeyKept
<1>. DEFINE value == IF View[k] # None THEN View[k] ELSE Lost[k]
<1>3. CASE store[k] = None
  <2>1. store' = store
    BY <1>3 DEF Expire
  <2>2. View' = View /\ Volatile' = Volatile /\ Lost' = Lost
    BY <1>1, <2>1 DEF View, Volatile, Lost, Visible, IsExpired
  <2>3. value = None
    BY <1>3, KeyState
  <2>. QED
    BY <1>1, <2>2, <2>3 DEF View, Volatile, Lost, KV!Expire, KV!Answered
<1>4. CASE store[k] # None
  <2>1. value = store[k].value /\ value # None /\ store[k] \in Entry
    BY <1>4, KeyState
  <2>2. store'[k] # None /\ store'[k].value = store[k].value
        /\ store'[k].expires_at # None
    <3>1. Deadline(s) \in Int
      BY DeadlineType DEF TypeOK
    <3>2. store'[k] = [store[k] EXCEPT !.expires_at = Deadline(s)]
      BY <1>4 DEF Expire, TypeOK
    <3>3. store'[k] \in Entry
      BY <2>1, <3>1, <3>2 DEF Entry
    <3>. QED  BY <2>1, <3>1, <3>2, <3>3 DEF Entry
  <2>. HIDE DEF value
  <2>3. CASE (Visible(k))'
    <3>1. View'[k] = value /\ k \in Volatile' /\ Lost'[k] = None
      BY <2>1, <2>2, <2>3 DEF View, Volatile, Lost
    <3>2. /\ View' = [View EXCEPT ![k] = value] /\ Volatile' = Volatile \cup {k}
          /\ Lost' = [Lost EXCEPT ![k] = None]
      BY <1>2, <3>1, AbstractUpdate
    <3>. QED
      BY <1>1, <2>1, <3>2
      DEF value, View, Volatile, Lost, KV!Expire, KV!Answered, KV!Forget
  <2>4. CASE ~(Visible(k))'
    <3>1. View'[k] = None /\ k \notin Volatile' /\ Lost'[k] = value
      BY <2>1, <2>2, <2>4 DEF View, Volatile, Lost
    <3>2. /\ View' = [View EXCEPT ![k] = None] /\ Volatile' = Volatile \ {k}
          /\ Lost' = [Lost EXCEPT ![k] = value]
      BY <1>2, <3>1, AbstractUpdate
    <3>. QED
      BY <1>1, <2>1, <3>2 DEF value, View, Volatile, Lost, KV!Expire, KV!Answered
  <2>. QED  BY <2>3, <2>4
<1>. QED  BY <1>3, <1>4

\* A lookup that finds a deadline is answered by a later step.
LEMMA KVTtlLookup ==
  ASSUME TypeOK, TypeOK', NEW k \in Keys, TtlLookup(k)
  PROVE  KV!Ttl(k) \/ KV!LookUp(k)
<1>1. store' = RemoveIfExpired(k) /\ clock' = clock
  BY DEF TtlLookup
<1>2. /\ View' = View /\ Volatile' = Volatile
      /\ Lost' = [Lost EXCEPT ![k] = None]
      /\ store'[k] = None <=> View[k] = None
      /\ store'[k] # None => Lost' = Lost /\ (k \in Volatile <=> store'[k].expires_at # None)
  BY <1>1, Purged
<1>3. CASE store'[k] = None
  <2>1. reply'.op = "ttl" /\ reply'.key = k /\ reply'.result = -2
    BY <1>3 DEF TtlLookup, Answer
  <2>. QED
    BY <1>2, <1>3, <2>1 DEF View, Volatile, Lost, KV!Ttl, KV!Answered, KV!Forget
<1>4. CASE store'[k] # None /\ store'[k].expires_at = None
  <2>1. reply'.op = "ttl" /\ reply'.key = k /\ reply'.result = -1
    BY <1>4 DEF TtlLookup, Answer
  <2>. QED
    BY <1>2, <1>4, <2>1 DEF View, Volatile, Lost, KV!Ttl, KV!Answered
<1>5. CASE store'[k] # None /\ store'[k].expires_at # None
  <2>1. reply' = reply
    BY <1>5 DEF TtlLookup
  <2>. QED
    BY <1>2, <2>1 DEF View, Volatile, Lost, KV!LookUp, KV!Forget
<1>. QED  BY <1>3, <1>4, <1>5

\* The reply of ttl() is a step of KVStore, or changes nothing of it.
LEMMA KVTtlReply ==
  ASSUME IInv, TtlReply
  PROVE  \E k \in Keys : KV!Ttl(k)
<1>. USE DEF IInv
<1>1. PICK k \in Keys : /\ pending = k /\ store[k] \in Entry
                        /\ store[k] # None /\ store[k].expires_at # None
  BY DEF TtlReply, TypeOK, PendingHasDeadline
<1>2. WholeSeconds(store[k].expires_at - clock) \in Nat
  <2>1. store[k].expires_at - clock \in Int
    BY <1>1 DEF TypeOK, Entry
  <2>. QED  BY <2>1, WholeSecondsType
<1>3. reply'.op = "ttl" /\ reply'.key = k /\ reply'.result \in Nat
  BY <1>1, <1>2 DEF TtlReply, Answer
<1>4. View' = View /\ Volatile' = Volatile /\ Lost' = Lost
  BY DEF TtlReply, View, Volatile, Lost, Visible, IsExpired
<1>5. k \in Volatile \/ Lost[k] # None
  BY <1>1, KeyState, Distinct
<1>6. KV!Ttl(k)
  BY <1>3, <1>4, <1>5 DEF View, Volatile, Lost, KV!Ttl, KV!Answered
<1>. QED  BY <1>6

\* The keys that a step of the clock takes away, or brings back.
Shown == {k \in Keys : Visible(k)}
Fading == Volatile \ Shown'
Returning == {k \in Shown' : Lost[k] # None}

\* The clock moves forward: the keys whose deadline it reaches fade.
LEMMA KVTick ==
  ASSUME TypeOK, Tick
  PROVE  \E S \in SUBSET Volatile : KV!Fade(S)
<1>. USE Distinct
<1>1. store' = store /\ clock' = clock + 1 /\ reply' = reply
  BY DEF Tick
<1>s. PICK S : S = Fading
  OBVIOUS
<1>2. ASSUME NEW k \in Keys
      PROVE  /\ View'[k] = IF k \in S THEN None ELSE View[k]
             /\ Lost'[k] = IF k \in S THEN View[k] ELSE Lost[k]
             /\ k \in Volatile' <=> k \in Volatile /\ k \notin S
  <2>1. (Visible(k))' => Visible(k)
    BY <1>1 DEF Visible, IsExpired, TypeOK, Entry
  <2>2. Visible(k) /\ store[k].expires_at = None => (Visible(k))'
    BY <1>1 DEF Visible, IsExpired
  <2>. QED  BY <1>s, <1>1, <2>1, <2>2 DEF View, Volatile, Lost, Fading, Shown, Visible, IsExpired
<1>3. Volatile \subseteq Keys /\ Volatile' \subseteq Keys
  BY DEF Volatile
<1>4. Volatile' = Volatile \ S
  BY <1>s, <1>2, <1>3 DEF Fading
<1>5. /\ View' = [k \in Keys |-> IF k \in S THEN None ELSE View[k]]
      /\ Lost' = [k \in Keys |-> IF k \in S THEN View[k] ELSE Lost[k]]
  <2>1. View' = [k \in Keys |-> View'[k]] /\ Lost' = [k \in Keys |-> Lost'[k]]
    BY DEF View, Lost
  <2>. QED  BY <1>2, <2>1
<1>6. KV!Fade(S)
  <2>. QED  BY <1>1, <1>4, <1>5 DEF View, Volatile, Lost, KV!Fade
<1>. QED  BY <1>s, <1>6 DEF Fading

\* The clock is set back: entries that nobody has looked at are live again.
LEMMA KVStepBack ==
  ASSUME TypeOK, StepBack
  PROVE  \E S \in SUBSET {k \in Keys : Lost[k] # None} : KV!Return(S)
<1>. USE Distinct
<1>1. store' = store /\ reply' = reply /\ clock' \in Int /\ clock' <= clock
  BY DatabaseAssumption DEF StepBack, TypeOK
<1>s. PICK S : S = Returning
  OBVIOUS
<1>2. ASSUME NEW k \in Keys
      PROVE  /\ View'[k] = IF k \in S THEN Lost[k] ELSE View[k]
             /\ Lost'[k] = IF k \in S THEN None ELSE Lost[k]
             /\ k \in Volatile' <=> k \in Volatile \/ k \in S
  <2>1. Visible(k) => (Visible(k))'
    BY <1>1 DEF Visible, IsExpired, TypeOK, Entry
  <2>2. store[k] # None => store[k].value # None
    BY KeyState
  <2>3. store[k] # None /\ ~Visible(k) => store[k].expires_at # None
    BY KeyState
  <2>. QED  BY <1>s, <1>1, <2>1, <2>2, <2>3 DEF View, Volatile, Lost, Visible, IsExpired, Returning, Shown
<1>3. Volatile \subseteq Keys /\ Volatile' \subseteq Keys
  BY DEF Volatile
<1>4. Volatile' = Volatile \cup S
  BY <1>s, <1>2, <1>3 DEF Returning, Shown, Visible, IsExpired
<1>5. /\ View' = [k \in Keys |-> IF k \in S THEN Lost[k] ELSE View[k]]
      /\ Lost' = [k \in Keys |-> IF k \in S THEN None ELSE Lost[k]]
  <2>1. View' = [k \in Keys |-> View'[k]] /\ Lost' = [k \in Keys |-> Lost'[k]]
    BY DEF View, Lost
  <2>. QED  BY <1>2, <2>1
<1>6. KV!Return(S)
  <2>. QED  BY <1>1, <1>4, <1>5 DEF View, Volatile, Lost, KV!Return
<1>. QED  BY <1>s, <1>6 DEF Returning, Shown, Visible, IsExpired

\* An error changes nothing a client can see.
LEMMA KVReject ==
  ASSUME NEW k \in Keys, Reject(k)
  PROVE  KV!Reject(k)
<1>1. reply'.op = "rejected" /\ reply'.key = k /\ reply'.result = None
  BY DEF Reject, Answer
<1>2. View' = View /\ Volatile' = Volatile /\ Lost' = Lost
  BY DEF Reject, View, Volatile, Lost, Visible, IsExpired
<1>. QED  BY <1>1, <1>2 DEF View, Volatile, Lost, KV!Reject, KV!Answered

\* Every step is one of KVStore or changes nothing of it.
LEMMA KVNext ==
  ASSUME IInv, IInv', [Next]_vars
  PROVE  [KV!Next]_(KV!vars)
<1>. USE DEF IInv
<1>1. ASSUME NEW k \in Keys, NEW v \in Values, Set(k, v) PROVE KV!Next
  BY <1>1, KVSet DEF KV!Next
<1>2. ASSUME NEW k \in Keys, Get(k) PROVE KV!Next
  BY <1>2, KVGet DEF KV!Next
<1>3. ASSUME NEW k \in Keys, Del(k) PROVE KV!Next
  BY <1>3, KVDel DEF KV!Next
<1>4. ASSUME NEW k \in Keys, Exists(k) PROVE KV!Next
  BY <1>4, KVExists DEF KV!Next
<1>5. ASSUME NEW k \in Keys, NEW s \in Seconds, Expire(k, s) PROVE KV!Next
  BY <1>5, KVExpire DEF KV!Next
<1>6. ASSUME NEW k \in Keys, TtlLookup(k) PROVE KV!Next
  BY <1>6, KVTtlLookup DEF KV!Next
<1>7. CASE TtlReply
  BY <1>7, KVTtlReply DEF KV!Next
<1>8. CASE Tick
  BY <1>8, KVTick DEF KV!Next, Volatile
<1>9. CASE StepBack
  BY <1>9, KVStepBack DEF KV!Next, Lost
<1>10. CASE UNCHANGED vars
  <2>1. View' = View /\ Volatile' = Volatile /\ Lost' = Lost /\ reply' = reply
    BY <1>10 DEF vars, View, Volatile, Lost, Visible, IsExpired
  <2>. QED  BY <2>1 DEF View, Volatile, Lost, KV!vars
<1>11. ASSUME NEW k \in Keys, Reject(k) PROVE KV!Next
  BY <1>11, KVReject DEF KV!Next
<1>. QED
  BY <1>1, <1>2, <1>3, <1>4, <1>5, <1>6, <1>7, <1>8, <1>9, <1>10, <1>11 DEF Next

\* Lazy expiry on a clock that moves both ways is a map some of whose keys may
\* fade at any time, and come back only while no operation has looked at them.
THEOREM StoreRefinesKVStore == Spec => ImplementsKVStore
<1>1. IInv /\ IInv' /\ [Next]_vars => [KV!Next]_(KV!vars)
  BY KVNext
<1>. QED
  BY <1>1, KVInit, SpecInv, PTL DEF Spec, ImplementsKVStore, KV!Spec
=============================================================================
