------------------------------ MODULE KVStore -------------------------------
(***************************************************************************)
(* What KoshDB's store promises its clients, without clock or deadlines: a *)
(* map from keys to values, some of whose keys are volatile.  A volatile   *)
(* key may fade at any time.  What has faded is lost for good as soon as   *)
(* any operation has looked at the key; until then an EXPIRE, or a system  *)
(* clock that is set back, may return it.                                  *)
(***************************************************************************)
EXTENDS Integers

CONSTANTS Keys, Values, None, OK

VARIABLES
  view,      \* what a client sees: a value, or None
  volatile,  \* the visible keys that have a time to live
  lost,      \* the faded value of a key nobody has looked at since, or None
  reply

vars == <<view, volatile, lost, reply>>

Init ==
  /\ view = [k \in Keys |-> None]
  /\ volatile = {}
  /\ lost = [k \in Keys |-> None]
  /\ reply.op = "start"

Answered(op, k, results) ==
  /\ reply'.op = op
  /\ reply'.key = k
  /\ reply'.result \in results

Forget(k) == lost' = [lost EXCEPT ![k] = None]

Set(k, v) ==
  /\ view' = [view EXCEPT ![k] = v]
  /\ volatile' = volatile \ {k}
  /\ Forget(k)
  /\ Answered("set", k, {OK})

Get(k) ==
  /\ Answered("get", k, {view[k]})
  /\ Forget(k)
  /\ UNCHANGED <<view, volatile>>

Del(k) ==
  /\ Answered("del", k, {IF view[k] = None THEN 0 ELSE 1})
  /\ view' = [view EXCEPT ![k] = None]
  /\ volatile' = volatile \ {k}
  /\ Forget(k)

Exists(k) ==
  /\ Answered("exists", k, {IF view[k] = None THEN 0 ELSE 1})
  /\ Forget(k)
  /\ UNCHANGED <<view, volatile>>

\* The key gets a time to live, which may be over at once; a faded key that
\* nobody has looked at may come back.
Expire(k) ==
  LET value == IF view[k] # None THEN view[k] ELSE lost[k] IN
  /\ Answered("expire", k, {1})
  /\ \/ /\ value = None
        /\ UNCHANGED <<view, volatile, lost>>
     \/ /\ value # None
        /\ view' = [view EXCEPT ![k] = value]
        /\ volatile' = volatile \cup {k}
        /\ Forget(k)
     \/ /\ value # None
        /\ view' = [view EXCEPT ![k] = None]
        /\ volatile' = volatile \ {k}
        /\ lost' = [lost EXCEPT ![k] = value]

\* A command that is answered by an error changes nothing.
Reject(k) ==
  /\ Answered("rejected", k, {None})
  /\ UNCHANGED <<view, volatile, lost>>

\* A missing key is reported as such only while it is missing; the seconds
\* left of a volatile key may be reported just after it has faded.
Ttl(k) ==
  \/ /\ view[k] = None
     /\ Answered("ttl", k, {-2})
     /\ Forget(k)
     /\ UNCHANGED <<view, volatile>>
  \/ /\ view[k] # None /\ k \notin volatile
     /\ Answered("ttl", k, {-1})
     /\ UNCHANGED <<view, volatile, lost>>
  \/ /\ k \in volatile \/ lost[k] # None
     /\ Answered("ttl", k, Nat)
     /\ UNCHANGED <<view, volatile, lost>>

\* A lookup that has not been answered yet already forgets a faded key.
LookUp(k) ==
  /\ Forget(k)
  /\ UNCHANGED <<view, volatile, reply>>

Fade(S) ==
  /\ view' = [k \in Keys |-> IF k \in S THEN None ELSE view[k]]
  /\ lost' = [k \in Keys |-> IF k \in S THEN view[k] ELSE lost[k]]
  /\ volatile' = volatile \ S
  /\ UNCHANGED reply

\* A system clock that is set back returns keys that nobody has looked at.
Return(S) ==
  /\ view' = [k \in Keys |-> IF k \in S THEN lost[k] ELSE view[k]]
  /\ lost' = [k \in Keys |-> IF k \in S THEN None ELSE lost[k]]
  /\ volatile' = volatile \cup S
  /\ UNCHANGED reply

Next ==
  \/ \E k \in Keys :
       \/ \E v \in Values : Set(k, v)
       \/ Get(k)
       \/ Del(k)
       \/ Exists(k)
       \/ Expire(k)
       \/ Reject(k)
       \/ Ttl(k)
       \/ LookUp(k)
  \/ \E S \in SUBSET volatile : Fade(S)
  \/ \E S \in SUBSET {k \in Keys : lost[k] # None} : Return(S)

Spec == Init /\ [][Next]_vars
=============================================================================
