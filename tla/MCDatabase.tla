----------------------------- MODULE MCDatabase -----------------------------
(* Instances of Database for TLC. *)
EXTENDS Database

\* A negative, a short and a long time to live, and one that overflows the
\* time points of the run (TimeMax = 16, two ticks per second).
SomeSeconds == {-1, 1, 2, 8}

\* No overflow: what the tests call EXPIRE with.
SmallSeconds == {1, 2}
=============================================================================
