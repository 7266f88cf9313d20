----------------------------- MODULE JobService -----------------------------
(***************************************************************************)
(* What ThreadPool promises, without threads, locks or wake-ups: jobs are  *)
(* started in the order they were accepted, at most Capacity at a time;    *)
(* once closed the service takes no more of them, and it is drained only   *)
(* when every accepted job is done.  One of its own jobs may close it; then *)
(* it is never drained, and the program may be terminated.                 *)
(***************************************************************************)
EXTENDS Naturals, Sequences, FiniteSets

CONSTANTS Jobs, Capacity

VARIABLES
  queue,      \* accepted, not started
  running,
  done,
  closed,
  inside,     \* it was closed by a job
  drained,    \* the call that closed the service has returned
  terminated

vars == <<queue, running, done, closed, inside, drained, terminated>>

Init ==
  /\ queue = <<>>
  /\ running = {} /\ done = {}
  /\ closed = FALSE /\ inside = FALSE /\ drained = FALSE
  /\ terminated = FALSE

Accept(j) ==
  /\ ~closed /\ ~terminated
  /\ j \notin running \cup done
  /\ \A i \in DOMAIN queue : queue[i] # j
  /\ queue' = Append(queue, j)
  /\ UNCHANGED <<running, done, closed, inside, drained, terminated>>

Begin ==
  /\ ~terminated
  /\ queue # <<>>
  /\ Cardinality(running) < Capacity
  /\ running' = running \cup {Head(queue)}
  /\ queue' = Tail(queue)
  /\ UNCHANGED <<done, closed, inside, drained, terminated>>

Finish(j) ==
  /\ ~terminated
  /\ j \in running
  /\ running' = running \ {j}
  /\ done' = done \cup {j}
  /\ UNCHANGED <<queue, closed, inside, drained, terminated>>

Close ==
  /\ ~closed /\ ~terminated
  /\ closed' = TRUE
  /\ inside' \in {FALSE, running # {}}
  /\ UNCHANGED <<queue, running, done, drained, terminated>>

Drain ==
  /\ closed /\ ~inside /\ queue = <<>> /\ running = {}
  /\ ~drained
  /\ drained' = TRUE
  /\ UNCHANGED <<queue, running, done, closed, inside, terminated>>

Terminate ==
  /\ inside
  /\ terminated' = TRUE
  /\ UNCHANGED <<queue, running, done, closed, inside, drained>>

Next ==
  \/ \E j \in Jobs : Accept(j) \/ Finish(j)
  \/ Begin \/ Close \/ Drain \/ Terminate

\* What never happens.
SafeSpec == Init /\ [][Next]_vars

\* Nothing that was accepted waits for ever, and neither does who closed it.
Spec ==
  /\ SafeSpec
  /\ WF_vars(Begin)
  /\ \A j \in Jobs : WF_vars(Finish(j))
  /\ WF_vars(Drain)
=============================================================================
