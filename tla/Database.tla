------------------------------ MODULE Database ------------------------------
(***************************************************************************)
(* The in-memory store of KoshDB (src/src/database.cpp) as the command     *)
(* dispatcher drives it: a map from keys to entries with an optional       *)
(* deadline on the system clock.  Expiry is lazy: an entry whose deadline  *)
(* has passed stays in the map until an operation on its key purges it.    *)
(*                                                                         *)
(* The server is single threaded, so every operation is one atomic step,   *)
(* with one exception: ttl() reads the clock twice, and time passes (or    *)
(* the system clock is set back) between the two readings.  It is two      *)
(* actions, TtlLookup and TtlReply, joined by the variable pending.        *)
(***************************************************************************)
EXTENDS Integers

CONSTANTS
  Keys,
  Values,
  None,            \* std::nullopt, store.end(), the null reply, an error
  OK,              \* the "+OK" reply
  Seconds,         \* the arguments EXPIRE is called with
  TicksPerSecond,  \* resolution of system_clock::now()
  TimeMax,         \* time points are the integers -TimeMax .. TimeMax-1
  MaxClock,        \* bound: the clock stops here
  MaxStepBack      \* how far one adjustment may set the system clock back

Entry == [value: Values, expires_at: Int \cup {None}]

ASSUME DatabaseAssumption ==
  /\ None \notin Int \cup Keys \cup Values \cup Entry
  /\ OK \notin Int \cup Values \cup {None}
  /\ Seconds \subseteq Int
  /\ TicksPerSecond \in Nat \ {0}
  /\ TimeMax \in Nat \ {0}
  /\ MaxClock \in Nat
  /\ MaxStepBack \in Nat

VARIABLES
  store,    \* Database::store; store[k] = None when k has no entry
  clock,    \* what system_clock::now() returns
  pending,  \* the key of a ttl() between its two clock readings, or None
  reply,    \* the last command answered and its answer
  gone      \* history: keys whose absence was reported since their last SET

vars == <<store, clock, pending, reply, gone>>

Ops == {"start", "set", "get", "del", "exists", "expire", "ttl", "rejected"}

Reply == [op: Ops, key: Keys \cup {None}, arg: Int,
          result: Int \cup Values \cup {None, OK}]

TypeOK ==
  /\ store \in [Keys -> Entry \cup {None}]
  /\ clock \in Int
  /\ pending \in Keys \cup {None}
  /\ reply \in Reply
  /\ gone \in SUBSET Keys

-----------------------------------------------------------------------------
(* Helpers.                                                                *)

\* Time arithmetic is 64-bit; a sum that leaves the range wraps around.
Wrap(t) == ((t + TimeMax) % (2 * TimeMax)) - TimeMax

Deadline(seconds) == Wrap(clock + seconds * TicksPerSecond)

IsExpired(entry) == entry.expires_at # None /\ clock >= entry.expires_at

\* Mutant: the value is cleared, the entry stays.
ClearIfExpired(k) ==
  IF store[k] # None /\ IsExpired(store[k])
  THEN [store EXCEPT ![k].value = None]
  ELSE store

\* Mutant: has_value() is taken for the whole check.
RemoveIfVolatile(k) ==
  IF store[k] # None /\ store[k].expires_at # None
  THEN [store EXCEPT ![k] = None]
  ELSE store

RemoveIfExpired(k) ==
  IF store[k] # None /\ IsExpired(store[k])
  THEN [store EXCEPT ![k] = None]
  ELSE store

\* Mutant: the negative rest is not replaced by 0.
SignedSeconds(ticks) ==
  IF ticks < 0 THEN -((-ticks) \div TicksPerSecond)
  ELSE ticks \div TicksPerSecond

\* duration_cast<seconds> truncates towards zero; a negative rest is 0.
WholeSeconds(ticks) ==
  IF ticks < 0 THEN 0 ELSE ticks \div TicksPerSecond

Answer(op, k, arg, result) ==
  reply' = [op |-> op, key |-> k, arg |-> arg, result |-> result]

\* Record in the history whether this answer reports k missing.
Witness(k, missing) == gone' = IF missing THEN gone \cup {k} ELSE gone

Idle == pending = None

-----------------------------------------------------------------------------
(* Operations.                                                             *)

Init ==
  /\ store = [k \in Keys |-> None]
  /\ clock = 0
  /\ pending = None
  /\ reply = [op |-> "start", key |-> None, arg |-> 0, result |-> None]
  /\ gone = {}

\* Mutant: only the value is replaced, the deadline stays.
SetKeepingDeadline(k, v) ==
  /\ Idle
  /\ store' = [store EXCEPT ![k] =
       [value |-> v,
        expires_at |-> IF store[k] = None THEN None ELSE store[k].expires_at]]
  /\ gone' = gone \ {k}
  /\ Answer("set", k, 0, OK)
  /\ UNCHANGED <<clock, pending>>

Set(k, v) ==
  /\ Idle
  /\ store' = [store EXCEPT ![k] = [value |-> v, expires_at |-> None]]
  /\ gone' = gone \ {k}
  /\ Answer("set", k, 0, OK)
  /\ UNCHANGED <<clock, pending>>

\* Mutant: an expired entry is reported missing, and not purged.
GetWithoutPurge(k) ==
  /\ Idle
  /\ Witness(k, RemoveIfExpired(k)[k] = None)
  /\ Answer("get", k, 0,
            IF RemoveIfExpired(k)[k] = None THEN None ELSE store[k].value)
  /\ UNCHANGED <<store, clock, pending>>

Get(k) ==
  /\ Idle
  /\ store' = RemoveIfExpired(k)
  /\ Witness(k, store'[k] = None)
  /\ Answer("get", k, 0, IF store'[k] = None THEN None ELSE store'[k].value)
  /\ UNCHANGED <<clock, pending>>

Del(k) ==
  /\ Idle
  /\ store' = [RemoveIfExpired(k) EXCEPT ![k] = None]
  /\ Witness(k, TRUE)
  /\ Answer("del", k, 0, IF RemoveIfExpired(k)[k] = None THEN 0 ELSE 1)
  /\ UNCHANGED <<clock, pending>>

Exists(k) ==
  /\ Idle
  /\ store' = RemoveIfExpired(k)
  /\ Witness(k, store'[k] = None)
  /\ Answer("exists", k, 0, IF store'[k] = None THEN 0 ELSE 1)
  /\ UNCHANGED <<clock, pending>>

\* expire() does not purge first, and the dispatcher answers 1 either way.
Expire(k, seconds) ==
  /\ Idle
  /\ store' = IF store[k] = None
              THEN store
              ELSE [store EXCEPT ![k].expires_at = Deadline(seconds)]
  /\ Answer("expire", k, seconds, 1)
  /\ UNCHANGED <<clock, pending, gone>>

\* EXPIRE with an argument that is no number is answered by an error, and so is
\* every command with a wrong number of arguments.
Reject(k) ==
  /\ Idle
  /\ Answer("rejected", k, 0, None)
  /\ UNCHANGED <<store, clock, pending, gone>>

\* ttl() up to its first clock reading: a missing or persistent key is
\* answered at once, for the others the remaining time is still to compute.
TtlLookup(k) ==
  /\ Idle
  /\ store' = RemoveIfExpired(k)
  /\ Witness(k, store'[k] = None)
  /\ \/ /\ store'[k] = None
        /\ Answer("ttl", k, 0, -2)
        /\ UNCHANGED pending
     \/ /\ store'[k] # None
        /\ store'[k].expires_at = None
        /\ Answer("ttl", k, 0, -1)
        /\ UNCHANGED pending
     \/ /\ store'[k] # None
        /\ store'[k].expires_at # None
        /\ pending' = k
        /\ UNCHANGED reply
  /\ UNCHANGED clock

TtlReply ==
  /\ pending # None
  /\ Answer("ttl", pending, 0, WholeSeconds(store[pending].expires_at - clock))
  /\ pending' = None
  /\ UNCHANGED <<store, clock, gone>>

\* Time passes.
Tick ==
  /\ clock < MaxClock
  /\ clock' = clock + 1
  /\ UNCHANGED <<store, pending, reply, gone>>

\* system_clock is not steady: the host may set it back.
StepBack ==
  /\ \E n \in 1..MaxStepBack : clock' = clock - n
  /\ clock' >= 0
  /\ UNCHANGED <<store, pending, reply, gone>>

Next ==
  \/ \E k \in Keys :
       \/ \E v \in Values : Set(k, v)
       \/ Get(k)
       \/ Del(k)
       \/ Exists(k)
       \/ \E s \in Seconds : Expire(k, s)
       \/ Reject(k)
       \/ TtlLookup(k)
  \/ TtlReply
  \/ Tick
  \/ StepBack

Spec == Init /\ [][Next]_vars

-----------------------------------------------------------------------------
(* Properties.                                                             *)

Visible(k) == store[k] # None /\ ~IsExpired(store[k])

\* Once GET, EXISTS, TTL or DEL has told a client that a key is missing, the
\* key stays invisible until the next SET of it: neither a late EXPIRE nor a
\* clock that is set back revives it, because those operations purge the
\* entry instead of only reporting it expired (remove_if_expired).
ObservedGoneStaysGone == \A k \in gone : ~Visible(k)

\* A visible key disappears only when it is deleted, when the clock reaches
\* the deadline it had, or through an EXPIRE of it whose argument is not
\* positive or whose deadline leaves the range of time points.  Reading a
\* key, or working on another key, never takes a live key away.
VanishesOnlyByDelOrDeadline ==
  [][\A k \in Keys :
       Visible(k) /\ ~(Visible(k))' =>
         \/ reply'.op = "del" /\ reply'.key = k
         \/ store[k].expires_at # None /\ clock' >= store[k].expires_at
         \/ /\ reply'.op = "expire" /\ reply'.key = k
            /\ \/ reply'.arg <= 0
               \/ clock + reply'.arg * TicksPerSecond >= TimeMax]_vars

\* The three kinds of answers of TTL mean what they say, whatever the clock
\* does between its two readings: -2 is a missing key, -1 one without a
\* deadline, and a number of seconds one with a deadline.
TtlReplySound ==
  reply.op = "ttl" =>
    \/ reply.result = -2 /\ reply.key \in gone
    \/ /\ store[reply.key] # None
       /\ IF reply.result = -1 THEN store[reply.key].expires_at = None
          ELSE reply.result >= 0 /\ store[reply.key].expires_at # None

\* The store as its clients see it implements KVStore: a map whose keys with
\* a time to live may fade at any moment.
KV == INSTANCE KVStore WITH
  view     <- [k \in Keys |-> IF Visible(k) THEN store[k].value ELSE None],
  volatile <- {k \in Keys : Visible(k) /\ store[k].expires_at # None},
  lost     <- [k \in Keys |-> IF store[k] # None /\ ~Visible(k)
                              THEN store[k].value ELSE None]

ImplementsKVStore == KV!Spec

\* What tests/test_database.cpp claims of expiry: once the deadline has
\* passed the key does not exist, until it is set again.
ExpiredStaysGone ==
  [][\A k \in Keys :
       store[k] # None /\ ~Visible(k) /\ (Visible(k))' =>
         reply'.op = "set" /\ reply'.key = k]_vars
=============================================================================
