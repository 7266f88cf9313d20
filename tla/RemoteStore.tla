---------------------------- MODULE RemoteStore ----------------------------
(***************************************************************************)
(* What the command line client and the server promise together, without   *)
(* bytes, buffers and segments: a command that the user types takes effect *)
(* once, at one moment before its result is shown, and the result shown is *)
(* the one of that moment.  Unless the connection is lost every command     *)
(* takes effect and returns.  Other clients change the store at any time.  *)
(***************************************************************************)
CONSTANTS
  Commands,            \* what this client and the others call
  None,
  InitialStore,
  Result(_, _),        \* of a command on a store
  Effect(_, _)         \* the store it leaves

VARIABLES
  store,
  call,     \* the command that was typed and has not returned, or None
  result,   \* its result, once it has taken effect, or None
  shown,    \* the last result shown, or None
  over      \* the connection is lost or closed

vars == <<store, call, result, shown, over>>

Init ==
  /\ store = InitialStore
  /\ call = None /\ result = None /\ shown = None
  /\ over = FALSE

Call(command) ==
  /\ call = None
  /\ call' = command
  /\ UNCHANGED <<store, result, shown, over>>

TakeEffect ==
  /\ call # None /\ result = None
  /\ result' = Result(call, store)
  /\ store' = Effect(call, store)
  /\ UNCHANGED <<call, shown, over>>

Return ==
  /\ result # None
  /\ shown' = result
  /\ call' = None /\ result' = None
  /\ UNCHANGED <<store, over>>

Other(command) ==
  /\ store' = Effect(command, store)
  /\ UNCHANGED <<call, result, shown, over>>

End ==
  /\ over' = TRUE
  /\ UNCHANGED <<store, call, result, shown>>

Next ==
  \/ \E command \in Commands : Call(command) \/ Other(command)
  \/ TakeEffect \/ Return \/ End

\* What can be said without fairness.
SafeSpec == Init /\ [][Next]_vars

Spec == SafeSpec /\ WF_vars(~over /\ TakeEffect) /\ WF_vars(~over /\ Return)
=============================================================================
