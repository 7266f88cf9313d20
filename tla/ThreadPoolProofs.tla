-------------------------- MODULE ThreadPoolProofs --------------------------
(***************************************************************************)
(* Proofs about ThreadPool, for any number of workers, callers and jobs,   *)
(* whether or not jobs may shut the pool down.                             *)
(***************************************************************************)
EXTENDS ThreadPool, SequenceTheorems, FiniteSetTheorems, TLAPS

\* A job that was begun is run by a worker or is over.
BegunIsRunningOrOver ==
  ToSet(started) = finished \cup ({job[w] : w \in Workers} \ {None})

\* A worker exits only when the pool stops and no job is left, and enqueue()
\* adds none afterwards.
ExitedMeansDrained ==
  \A w \in Workers : pc[w] = "exited" => stopping /\ queue = <<>>

\* The workers that are joined have exited, and an exited worker never runs
\* again.
JoinedHaveExited == \A w \in 1..joined : pc[w] = "exited"

IInv ==
  /\ TypeOK
  /\ StartedInOrder
  /\ BegunIsRunningOrOver
  /\ ExitedMeansDrained
  /\ JoinedHaveExited

\* A job is accepted once,
AcceptedOnce ==
  \A i, k \in 1..Len(accepted) : accepted[i] = accepted[k] => i = k

\* so no two workers run the same one.
RunOnce ==
  \A v, w \in Workers : v # w /\ job[v] # None => job[v] # job[w]

\* Only the thread that has stopped the pool wakes and joins the workers.
OnlyAfterStop ==
  \A t \in Threads : pc[t] \in {"notifyall", "join"} => stopping

\* What the refinement needs on top of the invariant.
RInv == IInv /\ AcceptedOnce /\ RunOnce /\ OnlyAfterStop

-----------------------------------------------------------------------------
(* Lemmas about sequences.                                                 *)

\* Moving the first element of a queue behind a sequence.
LEMMA MoveHead ==
  ASSUME NEW S, NEW s \in Seq(S), NEW q \in Seq(S), q # <<>>
  PROVE  Append(s, Head(q)) \o Tail(q) = s \o q
<1>1. /\ Head(q) \in S /\ Tail(q) \in Seq(S) /\ Len(q) \in Nat \ {0}
      /\ Len(Tail(q)) = Len(q) - 1
      /\ \A i \in 1..Len(Tail(q)) : Tail(q)[i] = q[i + 1]
  BY HeadTailProperties, EmptySeq
<1>2. Head(q) = q[1]
  BY <1>1
<1>3. /\ Append(s, Head(q)) \in Seq(S)
      /\ Len(Append(s, Head(q))) = Len(s) + 1
      /\ \A i \in 1..Len(s) : Append(s, Head(q))[i] = s[i]
      /\ Append(s, Head(q))[Len(s) + 1] = Head(q)
  BY <1>1, AppendProperties
<1>4. /\ Append(s, Head(q)) \o Tail(q) \in Seq(S)
      /\ Len(Append(s, Head(q)) \o Tail(q)) = Len(s) + Len(q)
      /\ \A i \in 1..(Len(s) + Len(q)) :
           (Append(s, Head(q)) \o Tail(q))[i] =
             IF i <= Len(s) + 1 THEN Append(s, Head(q))[i]
             ELSE Tail(q)[i - (Len(s) + 1)]
  BY <1>1, <1>3, ConcatProperties, LenProperties
<1>5. /\ s \o q \in Seq(S)
      /\ Len(s \o q) = Len(s) + Len(q)
      /\ \A i \in 1..(Len(s) + Len(q)) :
           (s \o q)[i] = IF i <= Len(s) THEN s[i] ELSE q[i - Len(s)]
  BY ConcatProperties
<1>6. ASSUME NEW i \in 1..(Len(s) + Len(q))
      PROVE  (Append(s, Head(q)) \o Tail(q))[i] = (s \o q)[i]
  <2>1. Len(s) \in Nat
    BY LenProperties
  <2>2. CASE i <= Len(s)
    BY <2>1, <2>2, <1>3, <1>4, <1>5
  <2>3. CASE i = Len(s) + 1
    BY <2>1, <2>3, <1>2, <1>3, <1>4, <1>5
  <2>4. CASE i > Len(s) + 1
    <3>1. i - (Len(s) + 1) \in 1..Len(Tail(q))
      BY <2>1, <2>4, <1>1
    <3>2. Tail(q)[i - (Len(s) + 1)] = q[(i - (Len(s) + 1)) + 1]
      BY <3>1, <1>1
    <3>3. (i - (Len(s) + 1)) + 1 = i - Len(s)
      BY <2>1
    <3>. QED  BY <2>1, <2>4, <3>2, <3>3, <1>4, <1>5
  <2>. QED  BY <2>1, <2>2, <2>3, <2>4
<1>. QED  BY <1>4, <1>5, <1>6, SeqEqual

\* The elements of a sequence that is extended by one.
LEMMA AppendElements ==
  ASSUME NEW S, NEW s \in Seq(S), NEW x \in S
  PROVE  ToSet(Append(s, x)) = ToSet(s) \cup {x}
<1>1. Len(s) \in Nat /\ DOMAIN s = 1..Len(s)
  BY LenProperties
<1>2. /\ DOMAIN Append(s, x) = 1..(Len(s) + 1)
      /\ \A i \in 1..Len(s) : Append(s, x)[i] = s[i]
      /\ Append(s, x)[Len(s) + 1] = x
  BY AppendProperties, LenProperties
<1>3. 1..(Len(s) + 1) = 1..Len(s) \cup {Len(s) + 1}
  BY <1>1
<1>. QED  BY <1>1, <1>2, <1>3 DEF ToSet

-----------------------------------------------------------------------------
(* The invariant.                                                          *)

\* A new pool satisfies the invariant: no job, no thread joined.
LEMMA InitEstablishes == Init => IInv
<1>. SUFFICES ASSUME Init PROVE IInv
  OBVIOUS
<1>. USE ThreadPoolAssumption DEF Init
<1>1. TypeOK
  <2>1. /\ pc \in [Threads -> {"out", "lock", "wait", "run", "exited",
                              "notify", "notifyall", "join"}]
        /\ \A w \in Workers : job[w] = None /\ pc[w] = "lock"
    BY DEF Threads
  <2>2. queue \in Seq(Jobs) /\ accepted \in Seq(Jobs) /\ started \in Seq(Jobs)
    BY EmptySeq
  <2>3. joined \in 0..WorkerCount
    OBVIOUS
  <2>. QED  BY <2>1, <2>2, <2>3 DEF TypeOK
<1>2. StartedInOrder
  <2>1. \A s \in Seq(Jobs) : s \o <<>> = s
    BY ConcatEmptySeq
  <2>. QED  BY <2>1, EmptySeq DEF StartedInOrder
<1>3. ToSet(started) = {}
  BY DEF ToSet
<1>4. BegunIsRunningOrOver
  BY <1>3 DEF BegunIsRunningOrOver
<1>5. ExitedMeansDrained /\ JoinedHaveExited
  BY DEF ExitedMeansDrained, JoinedHaveExited, Threads
<1>. QED  BY <1>1, <1>2, <1>4, <1>5 DEF IInv

\* What a step that only moves threads has to keep.
LEMMA OnlyControl ==
  ASSUME IInv,
         UNCHANGED <<job, queue, accepted, started, finished>>,
         stopping' \in BOOLEAN, stopping => stopping',
         joined' \in 0..WorkerCount,
         destroyed' \in BOOLEAN, aborted' \in BOOLEAN,
         returned' \in SUBSET Threads,
         pc' \in [Threads -> {"out", "lock", "wait", "run", "exited",
                              "notify", "notifyall", "join"}],
         \A w \in Workers : job[w] # None <=> pc'[w] \notin {"lock", "wait", "exited"},
         \A w \in Workers : pc[w] = "exited" => pc'[w] = "exited",
         \A w \in Workers :
           pc'[w] = "exited" => pc[w] = "exited" \/ (stopping /\ queue = <<>>),
         \A w \in 1..joined' : w \in 1..joined \/ pc[w] = "exited"
  PROVE  IInv'
<1>1. TypeOK'
  BY DEF IInv, TypeOK
<1>2. StartedInOrder' /\ BegunIsRunningOrOver'
  BY DEF IInv, StartedInOrder, BegunIsRunningOrOver
<1>3. ExitedMeansDrained'
  BY DEF IInv, ExitedMeansDrained
<1>4. JoinedHaveExited'
  BY ThreadPoolAssumption DEF IInv, TypeOK, JoinedHaveExited, Workers
<1>. QED  BY <1>1, <1>2, <1>3, <1>4 DEF IInv

\* A job is accepted only before shutdown, so while no worker has exited.
LEMMA EnqueueStep ==
  ASSUME IInv, NEW t \in Threads, NEW j \in Jobs, Enqueue(t, j)
  PROVE  IInv'
<1>. USE DEF Enqueue, Goto, MayCall
<1>1. /\ t \in Workers => pc[t] = "run"
      /\ t \in Callers => pc[t] = "out"
  BY ThreadPoolAssumption
<1>2. TypeOK'
  <2>1. queue' \in Seq(Jobs) /\ accepted' \in Seq(Jobs)
    BY AppendProperties DEF IInv, TypeOK
  <2>2. pc' \in [Threads -> {"out", "lock", "wait", "run", "exited",
                             "notify", "notifyall", "join"}]
    BY DEF IInv, TypeOK
  <2>3. \A w \in Workers : job'[w] # None <=> pc'[w] \notin {"lock", "wait", "exited"}
    BY <1>1 DEF IInv, TypeOK, Threads
  <2>. QED  BY <2>1, <2>2, <2>3 DEF IInv, TypeOK
<1>3. StartedInOrder'
  <2>1. started \o Append(queue, j) = Append(started \o queue, j)
    BY DEF IInv, TypeOK
  <2>. QED  BY <2>1 DEF IInv, StartedInOrder
<1>4. BegunIsRunningOrOver'
  BY DEF IInv, BegunIsRunningOrOver
<1>5. ExitedMeansDrained'
  BY DEF IInv, TypeOK, ExitedMeansDrained, Threads
<1>6. JoinedHaveExited'
  BY <1>1, ThreadPoolAssumption DEF IInv, TypeOK, JoinedHaveExited, Workers, Threads
<1>. QED  BY <1>2, <1>3, <1>4, <1>5, <1>6 DEF IInv

\* A worker takes the first job out of the queue.
LEMMA TakeStep ==
  ASSUME IInv, NEW w \in Workers, Take(w)
  PROVE  IInv'
<1>. USE DEF Take, Goto
<1>1. /\ w \in Threads /\ pc[w] = "lock" /\ job[w] = None
      /\ Head(queue) \in Jobs /\ Tail(queue) \in Seq(Jobs) /\ Head(queue) # None
  BY ThreadPoolAssumption, HeadTailProperties DEF IInv, TypeOK, Threads
<1>2. TypeOK'
  <2>1. started' \in Seq(Jobs)
    BY <1>1, AppendProperties DEF IInv, TypeOK
  <2>2. pc' \in [Threads -> {"out", "lock", "wait", "run", "exited",
                             "notify", "notifyall", "join"}]
    BY DEF IInv, TypeOK
  <2>3. job' \in [Workers -> Jobs \cup {None}]
    BY <1>1 DEF IInv, TypeOK
  <2>4. \A v \in Workers : job'[v] # None <=> pc'[v] \notin {"lock", "wait", "exited"}
    BY <1>1 DEF IInv, TypeOK, Threads
  <2>. QED  BY <1>1, <2>1, <2>2, <2>3, <2>4 DEF IInv, TypeOK
<1>3. StartedInOrder'
  <2>1. Append(started, Head(queue)) \o Tail(queue) = started \o queue
    BY MoveHead DEF IInv, TypeOK
  <2>. QED  BY <2>1 DEF IInv, StartedInOrder
<1>4. BegunIsRunningOrOver'
  <2>1. ToSet(started') = ToSet(started) \cup {Head(queue)}
    BY <1>1, AppendElements DEF IInv, TypeOK
  <2>2. {job'[v] : v \in Workers} \ {None}
          = ({job[v] : v \in Workers} \ {None}) \cup {Head(queue)}
    BY <1>1 DEF IInv, TypeOK
  <2>. QED  BY <2>1, <2>2 DEF IInv, BegunIsRunningOrOver
<1>5. ExitedMeansDrained'
  BY <1>1 DEF IInv, TypeOK, ExitedMeansDrained, Threads
<1>6. JoinedHaveExited'
  BY <1>1, ThreadPoolAssumption DEF IInv, TypeOK, JoinedHaveExited, Workers, Threads
<1>. QED  BY <1>2, <1>3, <1>4, <1>5, <1>6 DEF IInv

\* A job ends by returning, by throwing, or because it joins itself.
LEMMA JobOverStep ==
  ASSUME IInv, NEW w \in Workers, pc[w] \in {"run", "join"}, JobOver(w),
         UNCHANGED <<queue, stopping, joined, destroyed, aborted,
                     accepted, started, returned>>
  PROVE  IInv'
<1>. USE DEF JobOver, Goto
<1>1. w \in Threads /\ job[w] \in Jobs /\ job[w] # None
  BY DEF IInv, TypeOK, Threads
<1>2. TypeOK'
  <2>1. pc' \in [Threads -> {"out", "lock", "wait", "run", "exited",
                             "notify", "notifyall", "join"}]
    BY DEF IInv, TypeOK
  <2>2. job' \in [Workers -> Jobs \cup {None}] /\ finished' \in SUBSET Jobs
    BY <1>1 DEF IInv, TypeOK
  <2>3. \A v \in Workers : job'[v] # None <=> pc'[v] \notin {"lock", "wait", "exited"}
    BY <1>1 DEF IInv, TypeOK, Threads
  <2>. QED  BY <2>1, <2>2, <2>3 DEF IInv, TypeOK
<1>3. StartedInOrder'
  BY DEF IInv, StartedInOrder
<1>4. BegunIsRunningOrOver'
  <2>1. finished' \cup ({job'[v] : v \in Workers} \ {None})
          = finished \cup ({job[v] : v \in Workers} \ {None})
    BY <1>1 DEF IInv, TypeOK
  <2>. QED  BY <2>1 DEF IInv, BegunIsRunningOrOver
<1>5. ExitedMeansDrained'
  BY <1>1 DEF IInv, TypeOK, ExitedMeansDrained, Threads
<1>6. JoinedHaveExited'
  BY <1>1, ThreadPoolAssumption DEF IInv, TypeOK, JoinedHaveExited, Workers, Threads
<1>. QED  BY <1>2, <1>3, <1>4, <1>5, <1>6 DEF IInv

\* The steps of a caller or a worker inside the pool that move no job.
LEMMA CallStep ==
  ASSUME IInv, NEW t \in Threads, Shutdown(t) \/ Proceed(t)
  PROVE  IInv'
<1>. USE ThreadPoolAssumption DEF IInv, TypeOK, Goto, Caller, Threads, history
<1>1. CASE Shutdown(t)
  <2>. USE <1>1 DEF Shutdown, MayCall, Return
  <2>1. CASE stopping
    BY <2>1, OnlyControl
  <2>2. CASE ~stopping
    <3>1. pc' = [pc EXCEPT ![t] = "notifyall"] /\ stopping' = TRUE
      BY <2>2
    <3>2. t \in Workers => pc[t] = "run"
      OBVIOUS
    <3>. QED  BY <2>2, <3>1, <3>2, OnlyControl
  <2>. QED  BY <2>1, <2>2
<1>2. CASE NotifyOne(t)
  <2>1. /\ pc[t] = "notify" /\ Caller(t) \in {"out", "run"}
        /\ UNCHANGED <<job, queue, stopping, joined, destroyed, aborted, history>>
    BY <1>2 DEF NotifyOne
  <2>2. CASE pc' = [pc EXCEPT ![t] = Caller(t)]
    BY <2>1, <2>2, OnlyControl
  <2>3. ASSUME NEW w \in Workers, pc[w] = "wait",
               pc' = [pc EXCEPT ![t] = Caller(t), ![w] = "lock"]
        PROVE  IInv'
    <3>1. w # t /\ pc'[t] = Caller(t) /\ pc'[w] = "lock"
      BY <2>1, <2>3
    <3>2. \A v \in Threads : v # w /\ v # t => pc'[v] = pc[v]
      BY <2>3
    <3>3. pc' \in [Threads -> {"out", "lock", "wait", "run", "exited",
                               "notify", "notifyall", "join"}]
      BY <2>1, <2>3
    <3>4. t \in Workers => pc'[t] = "run"
      BY <3>1
    <3>5. /\ \A v \in Workers : job[v] # None <=> pc'[v] \notin {"lock", "wait", "exited"}
          /\ \A v \in Workers : pc[v] = "exited" => pc'[v] = "exited"
          /\ \A v \in Workers : pc'[v] = "exited" => pc[v] = "exited"
      BY <2>1, <2>3, <3>1, <3>2, <3>4
    <3>. QED  BY <2>1, <3>3, <3>5, OnlyControl
  <2>4. \/ pc' = [pc EXCEPT ![t] = Caller(t)]
        \/ \E w \in Workers : /\ pc[w] = "wait"
                              /\ pc' = [pc EXCEPT ![t] = Caller(t), ![w] = "lock"]
    BY <1>2 DEF NotifyOne, Asleep
  <2>. QED  BY <2>2, <2>3, <2>4
<1>3. CASE NotifyAll(t)
  BY <1>3, OnlyControl DEF NotifyAll, Asleep
<1>4. CASE JoinNext(t)
  <2>1. joined' \in 0..WorkerCount /\ \A w \in 1..joined' : w \in 1..joined \/ w = joined + 1
    BY <1>4 DEF JoinNext
  <2>. QED  BY <1>4, <2>1, OnlyControl DEF JoinNext
<1>5. CASE JoinedAll(t)
  BY <1>5, OnlyControl DEF JoinedAll, Return
<1>. QED  BY <1>1, <1>2, <1>3, <1>4, <1>5 DEF Proceed

\* A worker's steps.
LEMMA WorkerStep ==
  ASSUME IInv, NEW w \in Workers, Work(w) \/ SpuriousWakeup(w)
  PROVE  IInv'
<1>1. CASE Sleep(w)
  BY <1>1, OnlyControl DEF Sleep, IInv, TypeOK, Goto, Threads, history
<1>2. CASE Take(w)
  BY <1>2, TakeStep
<1>3. CASE Exit(w)
  BY <1>3, OnlyControl DEF Exit, IInv, TypeOK, Goto, Threads, history
<1>4. CASE FinishJob(w)
  BY <1>4, JobOverStep DEF FinishJob
<1>5. CASE JoinSelf(w)
  BY <1>5, JobOverStep DEF JoinSelf
<1>6. CASE SpuriousWakeup(w)
  BY <1>6, OnlyControl DEF SpuriousWakeup, IInv, TypeOK, Goto, Threads, history
<1>. QED  BY <1>1, <1>2, <1>3, <1>4, <1>5, <1>6 DEF Work

\* The destructor starts a shutdown, or finds one done.
LEMMA DestroyStep ==
  ASSUME IInv, Destroy
  PROVE  IInv'
<1>. USE DEF Destroy, Goto, history
<1>1. destroyed' \in BOOLEAN /\ joined' \in 0..WorkerCount
  BY DEF IInv, TypeOK
<1>2. CASE stopping
  <2>1. UNCHANGED <<pc, stopping>> /\ aborted' \in BOOLEAN
    BY <1>2
  <2>. QED  BY <1>1, <2>1, OnlyControl DEF IInv, TypeOK
<1>3. CASE ~stopping
  <2>1. UNCHANGED aborted /\ stopping' = TRUE /\ Owner \in Threads \ Workers
    BY <1>3, ThreadPoolAssumption DEF Threads
  <2>2. pc' \in [Threads -> {"out", "lock", "wait", "run", "exited",
                             "notify", "notifyall", "join"}]
    BY <1>3 DEF IInv, TypeOK
  <2>3. \A w \in Workers : pc'[w] = pc[w]
    BY <1>3, <2>1 DEF IInv, TypeOK, Threads
  <2>. QED  BY <1>1, <2>1, <2>2, <2>3, OnlyControl DEF IInv, TypeOK
<1>. QED  BY <1>2, <1>3 DEF IInv, TypeOK

\* Every step of the pool and of its users keeps the invariant.
LEMMA StepPreserves == IInv /\ [Next]_vars => IInv'
<1>. SUFFICES ASSUME IInv, [Next]_vars PROVE IInv'
  OBVIOUS
<1>1. CASE \E t \in Threads : Calls(t) \/ Proceed(t)
  <2>1. PICK t \in Threads : Calls(t) \/ Proceed(t)
    BY <1>1
  <2>2. CASE \E j \in Jobs : Enqueue(t, j)
    BY <2>2, EnqueueStep
  <2>3. CASE Shutdown(t) \/ Proceed(t)
    BY <2>3, CallStep
  <2>. QED  BY <2>1, <2>2, <2>3 DEF Calls
<1>2. CASE \E w \in Workers : Work(w) \/ SpuriousWakeup(w)
  BY <1>2, WorkerStep
<1>3. CASE Destroy
  BY <1>3, DestroyStep
<1>4. CASE UNCHANGED vars
  BY <1>4 DEF vars, history, IInv, TypeOK, StartedInOrder,
     BegunIsRunningOrOver, ExitedMeansDrained, JoinedHaveExited
<1>. QED  BY <1>1, <1>2, <1>3, <1>4 DEF Next

\* With the last worker joined no job is queued and none is running.
LEMMA InvariantImplies == IInv => TypeOK /\ StartedInOrder /\ JoinedMeansFinished
<1>. SUFFICES ASSUME IInv, joined = WorkerCount
              PROVE  ToSet(accepted) = finished
  BY DEF IInv, JoinedMeansFinished
<1>1. \A w \in Workers : pc[w] = "exited"
  BY DEF IInv, JoinedHaveExited, Workers
<1>2. queue = <<>>
  BY <1>1, ThreadPoolAssumption DEF IInv, ExitedMeansDrained, Workers
<1>3. {job[w] : w \in Workers} \ {None} = {}
  BY <1>1 DEF IInv, TypeOK
<1>4. started = accepted
  BY <1>2, ConcatEmptySeq DEF IInv, TypeOK, StartedInOrder
<1>. QED  BY <1>3, <1>4 DEF IInv, BegunIsRunningOrOver

-----------------------------------------------------------------------------
(* The theorems.                                                           *)

\* The invariant holds in every reachable state of the pool.
THEOREM Invariance == Spec => []IInv
BY InitEstablishes, StepPreserves, PTL DEF Spec

\* The state of the pool has its type, and a worker holds a job exactly
\* between the pop and the end of its call.
THEOREM TypeCorrect == Spec => []TypeOK
BY Invariance, InvariantImplies, PTL

\* Jobs begin in the order enqueue() accepted them and none of them is lost,
\* whatever the number of workers.
THEOREM JobsBeginInOrder == Spec => []StartedInOrder
BY Invariance, InvariantImplies, PTL

\* Once shutdown() has joined every worker, every accepted job is over.
THEOREM ShutdownDrains == Spec => []JoinedMeansFinished
BY Invariance, InvariantImplies, PTL

-----------------------------------------------------------------------------
(* The pool is a job service.                                              *)

\* The accepted jobs are those begun, then those queued.
LEMMA AcceptedParts ==
  ASSUME IInv
  PROVE  /\ Len(accepted) = Len(started) + Len(queue)
         /\ Len(started) \in Nat /\ Len(queue) \in Nat
         /\ \A i \in 1..Len(started) : accepted[i] = started[i]
         /\ \A i \in 1..Len(queue) : accepted[Len(started) + i] = queue[i]
  BY ConcatProperties, LenProperties DEF IInv, TypeOK, StartedInOrder

\* A job that runs or is over was accepted before those that are queued.
LEMMA BegunWasAccepted ==
  ASSUME IInv, NEW j \in finished \cup ({job[w] : w \in Workers} \ {None})
  PROVE  \E i \in 1..Len(started) : accepted[i] = j
<1>1. j \in ToSet(started)
  BY DEF IInv, BegunIsRunningOrOver
<1>2. DOMAIN started = 1..Len(started)
  BY LenProperties DEF IInv, TypeOK
<1>. QED  BY <1>1, <1>2, AcceptedParts DEF ToSet

\* What is taken out of the queue neither runs nor is over.
LEMMA HeadIsNew ==
  ASSUME RInv, queue # <<>>
  PROVE  Head(queue) \notin finished \cup ({job[w] : w \in Workers} \ {None})
<1>. SUFFICES ASSUME Head(queue) \in finished \cup ({job[w] : w \in Workers} \ {None})
              PROVE  FALSE
  OBVIOUS
<1>1. PICK i \in 1..Len(started) : accepted[i] = Head(queue)
  BY BegunWasAccepted DEF RInv
<1>2. Len(queue) # 0 /\ Head(queue) = queue[1]
  BY EmptySeq, HeadTailProperties DEF RInv, IInv, TypeOK
<1>3. PICK s, q \in Nat : s = Len(started) /\ q = Len(queue)
  BY AcceptedParts DEF RInv
<1>4. Len(accepted) = s + q /\ \A k \in 1..q : accepted[s + k] = queue[k]
  BY <1>3, AcceptedParts DEF RInv
<1>5. /\ 1 \in 1..q /\ i \in 1..(s + q) /\ s + 1 \in 1..(s + q) /\ i # s + 1
  BY <1>2, <1>3
<1>6. accepted[s + 1] = accepted[i]
  BY <1>1, <1>2, <1>4, <1>5
<1>. QED  BY <1>4, <1>5, <1>6 DEF RInv, AcceptedOnce

\* enqueue() never sees the same job twice.
LEMMA EnqueueOnce ==
  ASSUME RInv, NEW t \in Threads, NEW j \in Jobs, Enqueue(t, j)
  PROVE  AcceptedOnce'
<1>1. /\ accepted \in Seq(Jobs) /\ accepted' = Append(accepted, j)
      /\ \A i \in 1..Len(accepted) : accepted[i] # j
  BY DEF RInv, IInv, TypeOK, Enqueue, Contains
<1>2. PICK n \in Nat : n = Len(accepted)
  BY <1>1, LenProperties
<1>3. /\ Len(accepted') = n + 1
      /\ \A i \in 1..n : accepted'[i] = accepted[i]
      /\ accepted'[n + 1] = j
  BY <1>1, <1>2, AppendProperties
<1>4. \A i, k \in 1..n : accepted[i] = accepted[k] => i = k
  BY <1>2 DEF RInv, AcceptedOnce
<1>5. ASSUME NEW i \in 1..(n + 1), NEW k \in 1..(n + 1), accepted'[i] = accepted'[k]
      PROVE  i = k
  <2>1. CASE i \in 1..n /\ k \in 1..n
    BY <1>3, <1>4, <1>5, <2>1
  <2>2. CASE i = n + 1 /\ k \in 1..n
    BY <1>1, <1>2, <1>3, <1>5, <2>2
  <2>3. CASE i \in 1..n /\ k = n + 1
    BY <1>1, <1>2, <1>3, <1>5, <2>3
  <2>. QED  BY <2>1, <2>2, <2>3
<1>. QED  BY <1>3, <1>5 DEF AcceptedOnce

\* A worker begins a job that no other worker runs.
LEMMA TakeOnce ==
  ASSUME RInv, NEW w \in Workers, Take(w)
  PROVE  RunOnce'
<1>1. /\ job' = [job EXCEPT ![w] = Head(queue)] /\ queue # <<>>
      /\ job \in [Workers -> Jobs \cup {None}]
  BY DEF Take, RInv, IInv, TypeOK
<1>2. \A v \in Workers : job[v] # None => job[v] # Head(queue)
  BY <1>1, HeadIsNew
<1>3. Head(queue) # None
  BY <1>1, HeadTailProperties, ThreadPoolAssumption DEF RInv, IInv, TypeOK
<1>. QED  BY <1>1, <1>2, <1>3 DEF RInv, RunOnce

\* The step of a job that ends.
LEMMA JobOverOnce ==
  ASSUME RInv, NEW w \in Workers, JobOver(w)
  PROVE  RunOnce'
  BY DEF JobOver, RInv, RunOnce, IInv, TypeOK

\* New threads come to wake and join the workers only when the pool is stopped.
LEMMA StopStep ==
  ASSUME RInv, [Next]_vars
  PROVE  OnlyAfterStop'
<1>. USE ThreadPoolAssumption
     DEF RInv, OnlyAfterStop, IInv, TypeOK, Goto, Caller, Threads, MayCall
<1>1. ASSUME NEW t \in Threads, NEW j \in Jobs, Enqueue(t, j) PROVE OnlyAfterStop'
  BY <1>1 DEF Enqueue
<1>2. ASSUME NEW t \in Threads, Shutdown(t) PROVE OnlyAfterStop'
  BY <1>2 DEF Shutdown
<1>3. ASSUME NEW t \in Threads, NotifyOne(t) PROVE OnlyAfterStop'
  BY <1>3 DEF NotifyOne, Asleep
<1>4. ASSUME NEW t \in Threads, NotifyAll(t) PROVE OnlyAfterStop'
  BY <1>4 DEF NotifyAll, Asleep
<1>5. ASSUME NEW t \in Threads, JoinNext(t) \/ JoinedAll(t) PROVE OnlyAfterStop'
  BY <1>5 DEF JoinNext, JoinedAll
<1>6. ASSUME NEW w \in Workers, Work(w) \/ SpuriousWakeup(w) PROVE OnlyAfterStop'
  BY <1>6 DEF Work, Sleep, Take, Exit, FinishJob, JoinSelf, JobOver, SpuriousWakeup
<1>7. CASE Destroy
  BY <1>7 DEF Destroy
<1>8. CASE UNCHANGED vars
  BY <1>8 DEF vars
<1>. QED
  BY <1>1, <1>2, <1>3, <1>4, <1>5, <1>6, <1>7, <1>8 DEF Next, Calls, Proceed

\* The strengthened invariant is inductive.
LEMMA RefinementInvariant == Spec => []RInv
<1>1. Init => RInv
  <2>. SUFFICES ASSUME Init PROVE RInv
    OBVIOUS
  <2>1. Len(accepted) = 0
    BY EmptySeq DEF Init
  <2>2. AcceptedOnce
    BY <2>1 DEF AcceptedOnce
  <2>3. RunOnce /\ OnlyAfterStop
    BY DEF Init, RunOnce, OnlyAfterStop
  <2>. QED  BY <2>2, <2>3, InitEstablishes DEF RInv
<1>2. RInv /\ [Next]_vars => RInv'
  <2>. SUFFICES ASSUME RInv, [Next]_vars PROVE RInv'
    OBVIOUS
  <2>1. IInv'
    BY StepPreserves DEF RInv
  <2>2. AcceptedOnce'
    <3>1. CASE \E t \in Threads, j \in Jobs : Enqueue(t, j)
      BY <3>1, EnqueueOnce
    <3>2. CASE UNCHANGED accepted
      BY <3>2 DEF RInv, AcceptedOnce
    <3>. QED
      BY <3>1, <3>2
         DEF Next, Calls, Proceed, Work, vars, history, Shutdown, NotifyOne, NotifyAll,
             JoinNext, JoinedAll, Sleep, Take, Exit, FinishJob, JoinSelf, JobOver,
             SpuriousWakeup, Destroy
  <2>3. RunOnce'
    <3>1. CASE \E w \in Workers : Take(w)
      BY <3>1, TakeOnce
    <3>2. CASE \E w \in Workers : JobOver(w)
      BY <3>2, JobOverOnce
    <3>3. CASE UNCHANGED job
      BY <3>3 DEF RInv, RunOnce
    <3>. QED
      BY <3>1, <3>2, <3>3
         DEF Next, Calls, Proceed, Work, vars, history, Enqueue, Shutdown, NotifyOne,
             NotifyAll, JoinNext, JoinedAll, Sleep, Exit, FinishJob, JoinSelf,
             SpuriousWakeup, Destroy
  <2>4. OnlyAfterStop'
    BY StopStep
  <2>. QED  BY <2>1, <2>2, <2>3, <2>4 DEF RInv
<1>. QED  BY <1>1, <1>2, PTL DEF Spec

\* What the service sees as running.
Running == {job[w] : w \in Workers} \ {None}

\* Who stopped the pool matters only through what the callers do.
LEMMA InsideKept ==
  ASSUME UNCHANGED stopping,
         joined < WorkerCount <=> joined' < WorkerCount,
         \A c \in Callers : pc[c] \in {"notifyall", "join"}
                            <=> pc'[c] \in {"notifyall", "join"}
  PROVE  StoppedFromInside' = StoppedFromInside
  BY DEF StoppedFromInside

\* The steps the service does not see.
LEMMA ServiceStutters ==
  ASSUME UNCHANGED <<queue, job, finished, stopping, joined, aborted>>,
         \A c \in Callers : pc[c] \in {"notifyall", "join"}
                            <=> pc'[c] \in {"notifyall", "join"}
  PROVE  UNCHANGED Service!vars
<1>1. StoppedFromInside' = StoppedFromInside
  BY InsideKept
<1>. QED  BY <1>1 DEF Service!vars

\* A worker that is about to take a job is idle, so fewer jobs run than there
\* are workers.
LEMMA RoomToBegin ==
  ASSUME RInv, NEW w \in Workers, job[w] = None
  PROVE  Cardinality(Running) < WorkerCount
<1>. DEFINE busy == {v \in Workers : job[v] # None}
            f == [v \in busy |-> job[v]]
<1>1. IsFiniteSet(Workers) /\ Cardinality(Workers) = WorkerCount
  BY FS_Interval, ThreadPoolAssumption DEF Workers
<1>2. /\ IsFiniteSet(Workers \ {w})
      /\ Cardinality(Workers \ {w}) = WorkerCount - 1
  BY <1>1, FS_RemoveElement
<1>3. busy \in SUBSET (Workers \ {w})
  OBVIOUS
<1>. HIDE DEF busy
<1>4. IsFiniteSet(busy) /\ Cardinality(busy) <= WorkerCount - 1
  BY <1>2, <1>3, FS_Subset
<1>5. f \in Surjection(busy, Running)
  BY DEF Surjection, Running, busy
<1>6. IsFiniteSet(Running) /\ Cardinality(Running) <= Cardinality(busy)
  BY <1>4, <1>5, FS_Surjection
<1>7. Cardinality(Running) \in Nat /\ Cardinality(busy) \in Nat
  BY <1>4, <1>6, FS_CardinalityType
<1>. QED  BY <1>4, <1>6, <1>7, ThreadPoolAssumption

\* enqueue() that is not too late is Accept.
LEMMA EnqueueAccepts ==
  ASSUME RInv, NEW t \in Threads, NEW j \in Jobs, Enqueue(t, j)
  PROVE  Service!Accept(j)
<1>1. \A i \in 1..Len(accepted) : accepted[i] # j
  BY DEF Enqueue, Contains
<1>2. PICK s, q \in Nat : s = Len(started) /\ q = Len(queue)
  BY AcceptedParts DEF RInv
<1>3. /\ Len(accepted) = s + q
      /\ \A i \in 1..q : accepted[s + i] = queue[i]
  BY <1>2, AcceptedParts DEF RInv
<1>4. j \notin finished \cup Running
  <2>1. \A i \in 1..s : i \in 1..(s + q)
    BY <1>2
  <2>. QED  BY <1>1, <1>2, <1>3, <2>1, BegunWasAccepted DEF RInv, Running
<1>5. \A i \in DOMAIN queue : queue[i] # j
  <2>1. DOMAIN queue = 1..q
    BY <1>2, LenProperties DEF RInv, IInv, TypeOK
  <2>2. \A i \in 1..q : s + i \in 1..(s + q)
    BY <1>2
  <2>. QED  BY <1>1, <1>3, <2>1, <2>2
<1>6. StoppedFromInside' = StoppedFromInside
  BY DEF Enqueue, StoppedFromInside
<1>7. /\ ~stopping /\ ~aborted /\ queue' = Append(queue, j)
      /\ UNCHANGED <<job, finished, stopping, joined, aborted>>
  BY DEF Enqueue, MayCall
<1>. QED  BY <1>4, <1>5, <1>6, <1>7 DEF Service!Accept, Running

\* The pop of a worker is Begin.
LEMMA TakeBegins ==
  ASSUME RInv, NEW w \in Workers, Take(w)
  PROVE  Service!Begin
<1>1. /\ ~aborted /\ queue # <<>> /\ queue' = Tail(queue)
      /\ job' = [job EXCEPT ![w] = Head(queue)]
      /\ UNCHANGED <<stopping, joined, aborted, finished>>
      /\ pc[w] = "lock" /\ pc' = [pc EXCEPT ![w] = "run"]
  BY DEF Take, Goto
<1>2. /\ job[w] = None /\ Head(queue) # None
      /\ job \in [Workers -> Jobs \cup {None}]
  BY <1>1, HeadTailProperties, ThreadPoolAssumption DEF RInv, IInv, TypeOK
<1>3. Running' = Running \cup {Head(queue)}
  BY <1>1, <1>2 DEF Running
<1>4. Cardinality(Running) < WorkerCount
  BY <1>2, RoomToBegin
<1>5. StoppedFromInside' = StoppedFromInside
  <2>1. \A c \in Callers : pc'[c] = pc[c]
    BY <1>1, ThreadPoolAssumption DEF RInv, IInv, TypeOK, Threads
  <2>. QED  BY <1>1, <2>1, InsideKept
<1>6. Service!Cardinality(Running) = Cardinality(Running)
  BY Zenon DEF Service!Cardinality, Cardinality
<1>. QED  BY <1>1, <1>3, <1>4, <1>5, <1>6 DEF Service!Begin, Running

\* A job that returns, throws or joins itself is Finish.
LEMMA JobOverFinishes ==
  ASSUME RInv, NEW w \in Workers, JobOver(w), pc[w] \in {"run", "join"}, ~aborted,
         UNCHANGED <<queue, stopping, joined, aborted>>
  PROVE  \E j \in Jobs : Service!Finish(j)
<1>1. /\ job[w] \in Jobs /\ job[w] # None
      /\ job \in [Workers -> Jobs \cup {None}]
      /\ job' = [job EXCEPT ![w] = None] /\ finished' = finished \cup {job[w]}
      /\ pc' = [pc EXCEPT ![w] = "lock"]
  BY DEF RInv, IInv, TypeOK, JobOver, Goto
<1>2. \A v \in Workers : v # w => job[v] # job[w]
  BY <1>1 DEF RInv, RunOnce
<1>3. Running' = Running \ {job[w]} /\ job[w] \in Running
  BY <1>1, <1>2 DEF Running
<1>4. StoppedFromInside' = StoppedFromInside
  <2>1. \A c \in Callers : pc'[c] = pc[c]
    BY <1>1, ThreadPoolAssumption DEF RInv, IInv, TypeOK, Threads
  <2>. QED  BY <2>1, InsideKept
<1>5. PICK j \in Jobs : j = job[w]
  BY <1>1
<1>6. Service!Finish(j)
  BY <1>1, <1>3, <1>4, <1>5 DEF Service!Finish, Running
<1>. QED  BY <1>6

\* The first shutdown() is Close, whoever calls it.
LEMMA ShutdownCloses ==
  ASSUME RInv, NEW t \in Threads, Shutdown(t)
  PROVE  [Service!Next]_(Service!vars)
<1>1. CASE stopping
  <2>1. UNCHANGED <<queue, job, finished, stopping, joined, aborted, pc>>
    BY <1>1 DEF Shutdown
  <2>. QED  BY <2>1, ServiceStutters
<1>2. CASE ~stopping
  <2>1. /\ ~aborted /\ stopping' = TRUE /\ pc' = [pc EXCEPT ![t] = "notifyall"]
        /\ UNCHANGED <<queue, job, finished, joined, aborted>>
        /\ t \in Callers \/ (t \in Workers /\ pc[t] = "run")
    BY <1>2 DEF Shutdown, MayCall, Goto
  <2>2. StoppedFromInside' \in {FALSE, Running # {}}
    <3>1. CASE t \in Callers
      <4>1. pc'[t] = "notifyall"
        BY <2>1 DEF RInv, IInv, TypeOK
      <4>. QED  BY <3>1, <4>1 DEF StoppedFromInside
    <3>2. CASE t \in Workers /\ pc[t] = "run"
      <4>1. job[t] # None
        BY <3>2 DEF RInv, IInv, TypeOK
      <4>2. job[t] \in Running
        BY <3>2, <4>1 DEF Running
      <4>. QED  BY <4>2 DEF StoppedFromInside
    <3>. QED  BY <2>1, <3>1, <3>2
  <2>3. Service!Close
    BY <1>2, <2>1, <2>2 DEF Service!Close, Running
  <2>. QED  BY <2>3 DEF Service!Next
<1>. QED  BY <1>1, <1>2

\* Joining the last worker is Drain.
LEMMA JoinDrains ==
  ASSUME RInv, NEW t \in Threads, JoinNext(t)
  PROVE  [Service!Next]_(Service!vars)
<1>1. /\ ~aborted /\ pc[t] = "join" /\ joined < WorkerCount
      /\ pc[joined + 1] = "exited" /\ joined' = joined + 1
      /\ UNCHANGED <<pc, job, queue, stopping, aborted, finished>>
  BY DEF JoinNext, history
<1>2. joined \in Nat /\ joined + 1 \in 1..WorkerCount /\ WorkerCount \in Nat
  BY <1>1, ThreadPoolAssumption DEF RInv, IInv, TypeOK
<1>3. CASE joined + 1 < WorkerCount
  <2>1. joined' < WorkerCount /\ joined # WorkerCount /\ joined' # WorkerCount
    BY <1>1, <1>2, <1>3
  <2>2. StoppedFromInside' = StoppedFromInside
    BY <1>1, <2>1, InsideKept
  <2>. QED  BY <1>1, <2>1, <2>2 DEF Service!vars
<1>4. CASE joined + 1 = WorkerCount
  <2>1. \A w \in Workers : pc[w] = "exited"
    <3>1. \A w \in 1..WorkerCount : w \in 1..joined \/ w = joined + 1
      BY <1>2, <1>4
    <3>. QED  BY <1>1, <3>1 DEF RInv, IInv, JoinedHaveExited, Workers
  <2>2. t \in Callers /\ stopping
    BY <1>1, <2>1 DEF RInv, OnlyAfterStop, Threads
  <2>3. ~StoppedFromInside
    BY <1>1, <2>2 DEF StoppedFromInside
  <2>4. queue = <<>>
    BY <1>2, <2>1 DEF RInv, IInv, ExitedMeansDrained, Workers
  <2>5. Running = {}
    BY <2>1 DEF RInv, IInv, TypeOK, Running
  <2>6. ~StoppedFromInside'
    BY <1>1, <1>2, <1>4 DEF StoppedFromInside
  <2>7. joined # WorkerCount /\ joined' = WorkerCount
    BY <1>1, <1>2, <1>4
  <2>8. StoppedFromInside' = StoppedFromInside
    BY <2>3, <2>6 DEF StoppedFromInside
  <2>9. Service!Drain
    BY <1>1, <2>2, <2>3, <2>4, <2>5, <2>7, <2>8 DEF Service!Drain, Running
  <2>. QED  BY <2>9 DEF Service!Next
<1>. QED  BY <1>2, <1>3, <1>4

\* The destructor closes the pool, finds it drained, or, when a job had
\* stopped it, terminates the program.
LEMMA DestroyTerminates ==
  ASSUME RInv, Destroy
  PROVE  [Service!Next]_(Service!vars)
<1>1. /\ ~aborted /\ \A c \in Callers : pc[c] = "out"
      /\ UNCHANGED <<job, queue, joined, finished>>
  BY DEF Destroy, history
<1>2. joined \in 0..WorkerCount /\ WorkerCount \in Nat
  BY ThreadPoolAssumption DEF RInv, IInv, TypeOK
<1>3. CASE stopping /\ joined = WorkerCount
  <2>1. UNCHANGED <<pc, stopping, aborted>>
    BY <1>1, <1>2, <1>3 DEF Destroy, RInv, IInv, TypeOK
  <2>. QED  BY <1>1, <2>1, ServiceStutters
<1>4. CASE stopping /\ joined # WorkerCount
  <2>1. joined < WorkerCount
    BY <1>2, <1>4
  <2>2. UNCHANGED <<pc, stopping>> /\ aborted' = TRUE
    BY <1>4, <2>1 DEF Destroy
  <2>3. StoppedFromInside
    BY <1>1, <1>4, <2>1 DEF StoppedFromInside
  <2>4. StoppedFromInside' = StoppedFromInside
    BY <1>1, <2>2, InsideKept
  <2>5. Service!Terminate
    BY <1>1, <2>2, <2>3, <2>4 DEF Service!Terminate
  <2>. QED  BY <2>5 DEF Service!Next
<1>5. CASE ~stopping
  <2>1. /\ stopping' = TRUE /\ pc' = [pc EXCEPT ![Owner] = "notifyall"]
        /\ UNCHANGED aborted
    BY <1>5 DEF Destroy, Goto
  <2>2. ~StoppedFromInside'
    <3>1. Owner \in Callers /\ pc'[Owner] = "notifyall"
      BY <2>1, ThreadPoolAssumption DEF RInv, IInv, TypeOK, Threads
    <3>. QED  BY <3>1 DEF StoppedFromInside
  <2>3. StoppedFromInside' \in {FALSE, Running # {}}
    BY <2>2 DEF StoppedFromInside
  <2>4. Service!Close
    BY <1>1, <1>5, <2>1, <2>3 DEF Service!Close, Running
  <2>. QED  BY <2>4 DEF Service!Next
<1>. QED  BY <1>3, <1>4, <1>5

\* Every step of the pool is a step of the service, or one it does not see.
LEMMA StepRefines == RInv /\ [Next]_vars => [Service!Next]_(Service!vars)
<1>. SUFFICES ASSUME RInv, [Next]_vars PROVE [Service!Next]_(Service!vars)
  OBVIOUS
<1>1. ASSUME NEW t \in Threads, NEW j \in Jobs, Enqueue(t, j)
      PROVE  [Service!Next]_(Service!vars)
  BY <1>1, EnqueueAccepts DEF Service!Next
<1>2. ASSUME NEW t \in Threads, Shutdown(t) PROVE [Service!Next]_(Service!vars)
  BY <1>2, ShutdownCloses
<1>3. ASSUME NEW t \in Threads, NotifyOne(t) \/ NotifyAll(t) \/ JoinedAll(t)
      PROVE  [Service!Next]_(Service!vars)
  <2>. USE ThreadPoolAssumption DEF RInv, IInv, TypeOK, Threads, history, Goto, Caller
  <2>1. CASE NotifyOne(t)
    <3>1. /\ UNCHANGED <<queue, job, finished, stopping, joined, aborted>>
          /\ \A c \in Callers : pc[c] \in {"notifyall", "join"}
                                <=> pc'[c] \in {"notifyall", "join"}
      BY <2>1 DEF NotifyOne, Asleep
    <3>. QED  BY <3>1, ServiceStutters
  <2>2. CASE NotifyAll(t)
    <3>1. /\ UNCHANGED <<queue, job, finished, stopping, joined, aborted>>
          /\ \A c \in Callers : pc[c] \in {"notifyall", "join"}
                                <=> pc'[c] \in {"notifyall", "join"}
      BY <2>2 DEF NotifyAll, Asleep
    <3>. QED  BY <3>1, ServiceStutters
  <2>3. CASE JoinedAll(t)
    <3>1. /\ UNCHANGED <<queue, job, finished, stopping, joined, aborted>>
          /\ joined = WorkerCount
      BY <2>3 DEF JoinedAll
    <3>2. ~StoppedFromInside /\ ~StoppedFromInside'
      BY <3>1 DEF StoppedFromInside
    <3>3. StoppedFromInside' = StoppedFromInside
      BY <3>2 DEF StoppedFromInside
    <3>. QED  BY <3>1, <3>3 DEF Service!vars
  <2>. QED  BY <1>3, <2>1, <2>2, <2>3
<1>4. ASSUME NEW t \in Threads, JoinNext(t) PROVE [Service!Next]_(Service!vars)
  BY <1>4, JoinDrains
<1>5. ASSUME NEW w \in Workers, Sleep(w) \/ Exit(w) \/ SpuriousWakeup(w)
      PROVE  [Service!Next]_(Service!vars)
  <2>1. /\ UNCHANGED <<queue, job, finished, stopping, joined, aborted>>
        /\ \A c \in Callers : pc'[c] = pc[c]
    BY <1>5, ThreadPoolAssumption
       DEF Sleep, Exit, SpuriousWakeup, Goto, history, RInv, IInv, TypeOK, Threads
  <2>. QED  BY <2>1, ServiceStutters
<1>6. ASSUME NEW w \in Workers, Take(w) PROVE [Service!Next]_(Service!vars)
  BY <1>6, TakeBegins DEF Service!Next
<1>7. ASSUME NEW w \in Workers, FinishJob(w) \/ JoinSelf(w)
      PROVE  [Service!Next]_(Service!vars)
  <2>1. \E j \in Jobs : Service!Finish(j)
    BY <1>7, JobOverFinishes DEF FinishJob, JoinSelf
  <2>. QED  BY <2>1 DEF Service!Next
<1>8. CASE Destroy
  BY <1>8, DestroyTerminates
<1>9. CASE UNCHANGED vars
  BY <1>9, ServiceStutters DEF vars, history
<1>. QED
  BY <1>1, <1>2, <1>3, <1>4, <1>5, <1>6, <1>7, <1>8, <1>9 DEF Next, Calls, Proceed, Work

\* For any number of threads and jobs the pool does only what a job service may
\* do: it starts each accepted job once and in order, runs at most one per
\* worker, takes none after shutdown(), is drained only when all are over, and
\* std::terminate comes only after a job has called shutdown().  What the
\* service must do in the end stays with the model checker.
THEOREM PoolRefinesService == Spec => Service!SafeSpec
<1>1. Init => Service!Init
  <2>. SUFFICES ASSUME Init PROVE Service!Init
    OBVIOUS
  <2>1. {job[w] : w \in Workers} \ {None} = {}
    BY DEF Init
  <2>2. StoppedFromInside = FALSE
    BY DEF Init, StoppedFromInside
  <2>3. (joined = WorkerCount) = FALSE
    BY ThreadPoolAssumption DEF Init
  <2>. QED  BY <2>1, <2>2, <2>3 DEF Init, Service!Init
<1>. QED
  BY <1>1, RefinementInvariant, StepRefines, PTL DEF Spec, Service!SafeSpec
=============================================================================
