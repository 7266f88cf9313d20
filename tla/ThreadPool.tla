----------------------------- MODULE ThreadPool -----------------------------
(***************************************************************************)
(* The pool of background threads (src/src/thread_pool.cpp).  What is done *)
(* under queue_mutex is one step; between the critical sections, and       *)
(* between a push and the notification that follows it outside the lock,   *)
(* the threads interleave.  The condition variable is the set of workers   *)
(* that sleep on it: a notification takes one or all of them out, and so   *)
(* does a spurious wake-up.                                                *)
(*                                                                         *)
(* enqueue() may be called from any thread, also by a job; so may          *)
(* shutdown().                                                             *)
(***************************************************************************)
EXTENDS Integers, Sequences, FiniteSets, SequencesExt

CONSTANTS
  WorkerCount,
  Callers,          \* the threads outside the pool that use it
  Owner,            \* the one of them that destroys it
  Jobs,             \* each is enqueued at most once
  None

Workers == 1..WorkerCount

ASSUME ThreadPoolAssumption ==
  /\ WorkerCount \in Nat \ {0}
  /\ Owner \in Callers
  /\ Callers \cap Workers = {}
  /\ None \notin Jobs

Threads == Callers \cup Workers

VARIABLES
  pc,         \* where each thread is
  job,        \* the job each worker runs, or None
  queue,      \* ThreadPool::jobs
  stopping,
  joined,     \* how many of the workers shutdown() has joined, in order
  destroyed,  \* ~ThreadPool() has begun
  aborted,    \* std::terminate: a thread object was destroyed unjoined
  accepted,   \* history: the jobs enqueue() took, in order
  started,    \* history: the jobs begun, in order
  finished,   \* history: the jobs that returned or threw
  returned    \* history: the threads whose call of shutdown() returned

history == <<accepted, started, finished, returned>>
vars == <<pc, job, queue, stopping, joined, destroyed, aborted, history>>

TypeOK ==
  /\ pc \in [Threads -> {"out", "lock", "wait", "run", "exited",
                         "notify", "notifyall", "join"}]
  /\ job \in [Workers -> Jobs \cup {None}]
  /\ \A w \in Workers : job[w] # None <=> pc[w] \notin {"lock", "wait", "exited"}
  /\ queue \in Seq(Jobs)
  /\ stopping \in BOOLEAN
  /\ joined \in 0..WorkerCount
  /\ destroyed \in BOOLEAN /\ aborted \in BOOLEAN
  /\ accepted \in Seq(Jobs) /\ started \in Seq(Jobs)
  /\ finished \in SUBSET Jobs
  /\ returned \in SUBSET Threads

-----------------------------------------------------------------------------

Init ==
  /\ pc = [t \in Threads |-> IF t \in Workers THEN "lock" ELSE "out"]
  /\ job = [w \in Workers |-> None]
  /\ queue = <<>>
  /\ stopping = FALSE
  /\ joined = 0
  /\ destroyed = FALSE
  /\ aborted = FALSE
  /\ accepted = <<>>
  /\ started = <<>>
  /\ finished = {}
  /\ returned = {}

\* A caller outside the pool makes no call once it is being destroyed; a job
\* that still runs may.
MayCall(t) ==
  /\ ~aborted
  /\ \/ t \in Callers /\ pc[t] = "out" /\ ~destroyed
     \/ t \in Workers /\ pc[t] = "run"

\* Where a thread goes on after a call of the pool.
Caller(t) == IF t \in Workers THEN "run" ELSE "out"

Goto(t, to) == pc' = [pc EXCEPT ![t] = to]

Asleep == {w \in Workers : pc[w] = "wait"}

\* The job is moved in under the lock; after shutdown it is dropped, and the
\* caller is not told.
Enqueue(t, j) ==
  /\ MayCall(t)
  /\ ~ Contains(accepted, j)
  /\ ~stopping
  /\ queue' = Append(queue, j)
  /\ accepted' = Append(accepted, j)
  /\ Goto(t, "notify")
  /\ UNCHANGED <<job, stopping, joined, destroyed, aborted,
                 started, finished, returned>>

\* Mutant: the push is not followed by a notification.
NoNotification(t) ==
  /\ ~aborted
  /\ pc[t] = "notify"
  /\ Goto(t, Caller(t))
  /\ UNCHANGED <<job, queue, stopping, joined, destroyed, aborted, history>>

\* notify_one, outside the lock.
NotifyOne(t) ==
  /\ ~aborted
  /\ pc[t] = "notify"
  /\ IF Asleep = {} THEN Goto(t, Caller(t))
     ELSE \E w \in Asleep :
            pc' = [pc EXCEPT ![t] = Caller(t), ![w] = "lock"]
  /\ UNCHANGED <<job, queue, stopping, joined, destroyed, aborted, history>>

-----------------------------------------------------------------------------
(* worker_loop.                                                            *)

\* The predicate is false: release the lock and sleep, in one step.
Sleep(w) ==
  /\ ~aborted
  /\ pc[w] = "lock"
  /\ ~stopping /\ queue = <<>>
  /\ Goto(w, "wait")
  /\ UNCHANGED <<job, queue, stopping, joined, destroyed, aborted, history>>

SpuriousWakeup(w) ==
  /\ ~aborted
  /\ pc[w] = "wait"
  /\ Goto(w, "lock")
  /\ UNCHANGED <<job, queue, stopping, joined, destroyed, aborted, history>>

\* Mutant: front() and pop() in two critical sections.
TakeWithoutPop(w) ==
  /\ ~aborted
  /\ pc[w] = "lock"
  /\ queue # <<>>
  /\ job' = [job EXCEPT ![w] = Head(queue)]
  /\ started' = Append(started, Head(queue))
  /\ Goto(w, "run")
  /\ UNCHANGED <<queue, stopping, joined, destroyed, aborted,
                 accepted, finished, returned>>

\* All queued jobs are finished before a worker exits.
Take(w) ==
  /\ ~aborted
  /\ pc[w] = "lock"
  /\ queue # <<>>
  /\ job' = [job EXCEPT ![w] = Head(queue)]
  /\ queue' = Tail(queue)
  /\ started' = Append(started, Head(queue))
  /\ Goto(w, "run")
  /\ UNCHANGED <<stopping, joined, destroyed, aborted,
                 accepted, finished, returned>>

\* Mutant: a worker exits as soon as the pool stops.
ExitWithJobsLeft(w) ==
  /\ ~aborted
  /\ pc[w] = "lock"
  /\ stopping
  /\ Goto(w, "exited")
  /\ UNCHANGED <<job, queue, stopping, joined, destroyed, aborted, history>>

Exit(w) ==
  /\ ~aborted
  /\ pc[w] = "lock"
  /\ stopping /\ queue = <<>>
  /\ Goto(w, "exited")
  /\ UNCHANGED <<job, queue, stopping, joined, destroyed, aborted, history>>

\* Mutant: the worker keeps the job's function object.
JobKept(w) ==
  /\ UNCHANGED job
  /\ finished' = finished \cup {job[w]}
  /\ Goto(w, "lock")

JobOver(w) ==
  /\ job' = [job EXCEPT ![w] = None]
  /\ finished' = finished \cup {job[w]}
  /\ Goto(w, "lock")

\* The job returns, or throws and the worker catches it.
FinishJob(w) ==
  /\ ~aborted
  /\ pc[w] = "run"
  /\ JobOver(w)
  /\ UNCHANGED <<queue, stopping, joined, destroyed, aborted,
                 accepted, started, returned>>

-----------------------------------------------------------------------------
(* shutdown and the destructor.                                            *)

Return(t) == returned' = returned \cup {t}

\* Only the first call goes on; a later one returns at once.
Shutdown(t) ==
  /\ MayCall(t)
  /\ \/ /\ stopping
        /\ Return(t)
        /\ UNCHANGED <<pc, stopping>>
     \/ /\ ~stopping
        /\ stopping' = TRUE
        /\ Goto(t, "notifyall")
        /\ UNCHANGED returned
  /\ UNCHANGED <<job, queue, joined, destroyed, aborted,
                 accepted, started, finished>>

\* Mutant: shutdown wakes one worker only.
NotifyOneOfAll(t) ==
  /\ ~aborted
  /\ pc[t] = "notifyall"
  /\ IF Asleep = {} THEN Goto(t, "join")
     ELSE \E w \in Asleep : pc' = [pc EXCEPT ![t] = "join", ![w] = "lock"]
  /\ UNCHANGED <<job, queue, stopping, joined, destroyed, aborted, history>>

NotifyAll(t) ==
  /\ ~aborted
  /\ pc[t] = "notifyall"
  /\ pc' = [u \in Threads |-> IF u = t THEN "join"
                              ELSE IF u \in Asleep THEN "lock" ELSE pc[u]]
  /\ UNCHANGED <<job, queue, stopping, joined, destroyed, aborted, history>>

JoinNext(t) ==
  /\ ~aborted
  /\ pc[t] = "join"
  /\ joined < WorkerCount
  /\ pc[joined + 1] = "exited"
  /\ joined' = joined + 1
  /\ UNCHANGED <<pc, job, queue, stopping, destroyed, aborted, history>>

\* A thread cannot join itself: join() throws, the exception ends the job,
\* and the workers after this one stay unjoined.
JoinSelf(w) ==
  /\ ~aborted
  /\ pc[w] = "join"
  /\ joined + 1 = w
  /\ JobOver(w)
  /\ UNCHANGED <<queue, stopping, joined, destroyed, aborted,
                 accepted, started, returned>>

JoinedAll(t) ==
  /\ ~aborted
  /\ pc[t] = "join"
  /\ joined = WorkerCount
  /\ Return(t)
  /\ Goto(t, Caller(t))
  /\ UNCHANGED <<job, queue, stopping, joined, destroyed, aborted,
                 accepted, started, finished>>

\* ~ThreadPool() calls shutdown() and then destroys the thread objects.  It
\* runs when no other thread is inside a call.
Destroy ==
  /\ ~aborted /\ ~destroyed
  /\ \A c \in Callers : pc[c] = "out"
  /\ destroyed' = TRUE
  /\ \/ /\ stopping
        /\ aborted' = (joined < WorkerCount)
        /\ UNCHANGED <<pc, stopping>>
     \/ /\ ~stopping
        /\ stopping' = TRUE
        /\ Goto(Owner, "notifyall")
        /\ UNCHANGED aborted
  /\ UNCHANGED <<job, queue, joined, history>>

-----------------------------------------------------------------------------

Calls(t) ==
  \/ \E j \in Jobs : Enqueue(t, j)
  \/ Shutdown(t)

\* What a thread inside the pool's code goes on to do.
Proceed(t) ==
  \/ NotifyOne(t)
  \/ NotifyAll(t)
  \/ JoinNext(t)
  \/ JoinedAll(t)

Work(w) ==
  \/ Sleep(w)
  \/ Take(w)
  \/ Exit(w)
  \/ FinishJob(w)
  \/ JoinSelf(w)

Next ==
  \/ \E t \in Threads : Calls(t) \/ Proceed(t)
  \/ \E w \in Workers : Work(w) \/ SpuriousWakeup(w)
  \/ Destroy

Spec == Init /\ [][Next]_vars

\* The scheduler runs every thread that can run, and every job returns.
FairSpec ==
  /\ Spec
  /\ \A t \in Threads : WF_vars(Proceed(t))
  /\ \A w \in Workers : WF_vars(Work(w))

-----------------------------------------------------------------------------
(* Properties.                                                             *)

\* However pushes, pops and wake-ups interleave: the jobs begin in the order
\* they were accepted, and none is lost or begun twice.
StartedInOrder == started \o queue = accepted

\* When shutdown() has joined the last worker, every accepted job is over,
\* also one that a job enqueued while the pool was going down.
JoinedMeansFinished == joined = WorkerCount => ToSet(accepted) = finished

\* No wake-up is lost: an accepted job gets its turn, unless the program is
\* terminated first.
EveryAcceptedJobFinishes ==
  \A j \in Jobs : Contains(accepted, j) ~> (j \in finished \/ aborted)

\* A job called the shutdown() that stops the pool: it will come to join its
\* own thread, so the workers are never all joined.
StoppedFromInside ==
  /\ stopping /\ joined < WorkerCount
  /\ \A c \in Callers : pc[c] \notin {"notifyall", "join"}

\* The threads and their wake-ups are invisible: the pool is a job service
\* that starts every accepted job, whose closing call returns unless a job
\* made it, and which is terminated only after such a call.
Service == INSTANCE JobService WITH
  Capacity   <- WorkerCount,
  running    <- {job[w] : w \in Workers} \ {None},
  done       <- finished,
  closed     <- stopping,
  inside     <- StoppedFromInside,
  drained    <- joined = WorkerCount,
  terminated <- aborted

ImplementsJobService == Service!Spec
=============================================================================
