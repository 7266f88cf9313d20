--------------------------- MODULE SnapshotStore ----------------------------
(***************************************************************************)
(* What SAVE promises, without files: a map in memory, and the set of maps *)
(* that a restart may bring back.  Outages take the memory away at any     *)
(* time.                                                                   *)
(***************************************************************************)
CONSTANTS Keys, Values, None

VARIABLES
  up,
  view,        \* the map in memory, empty when the server is down
  volatile,    \* its keys with a time to live
  restorable,  \* the maps a restart may bring back
  answer       \* to the SAVE that was the last command, if it was

vars == <<up, view, volatile, restorable, answer>>

EmptyMap == [k \in Keys |-> None]

Init ==
  /\ up = TRUE
  /\ view = EmptyMap
  /\ volatile = {}
  /\ restorable = {EmptyMap}
  /\ answer = "none"

\* m is the map in memory, except that volatile keys may be missing.
IsSnapshot(m) ==
  \A k \in Keys : m[k] = view[k] \/ (k \in volatile /\ m[k] = None)

Command(k) ==
  /\ up
  /\ \E v \in Values \cup {None} : view' = [view EXCEPT ![k] = v]
  /\ \/ volatile' = volatile \ {k}
     \/ view'[k] # None /\ volatile' = volatile \cup {k}
  /\ answer' = "none"
  /\ UNCHANGED <<up, restorable>>

SaveCalled ==
  /\ up
  /\ answer' = "none"
  /\ UNCHANGED <<up, view, volatile, restorable>>

\* The new snapshot is in place, but may still be lost.
Replace ==
  /\ up
  /\ \E m \in [Keys -> Values \cup {None}] :
       IsSnapshot(m) /\ restorable' = restorable \cup {m}
  /\ UNCHANGED <<up, view, volatile, answer>>

Acknowledge ==
  /\ up
  /\ \E m \in restorable : IsSnapshot(m) /\ restorable' = {m}
  /\ answer' = "OK"
  /\ UNCHANGED <<up, view, volatile>>

Fail ==
  /\ up
  /\ answer' = "ERR"
  /\ UNCHANGED <<up, view, volatile, restorable>>

Down ==
  /\ up /\ up' = FALSE
  /\ view' = EmptyMap
  /\ volatile' = {}
  /\ UNCHANGED <<restorable, answer>>

Restart ==
  /\ ~up /\ up' = TRUE
  /\ view' \in restorable
  /\ volatile' = {}
  /\ answer' = "none"
  /\ UNCHANGED restorable

Next ==
  \/ \E k \in Keys : Command(k)
  \/ SaveCalled \/ Replace \/ Acknowledge \/ Fail \/ Down \/ Restart

Spec == Init /\ [][Next]_vars
=============================================================================
