-------------------------- MODULE ThreadPool_proofs --------------------------
(* Proofs about ThreadPool, for any jobs, workers and number of shutdowns. *)
EXTENDS ThreadPool, FiniteSetTheorems, FunctionTheorems,
        SequenceTheorems, TLAPS

-----------------------------------------------------------------------------
(* Queues as sequences without duplicates *)

(* q_push: the queue's new contents, and that it stays free of duplicates. *)
LEMMA EnqueueFacts ==
  ASSUME NEW S, NEW s \in Seq(S), NEW e \in S
  PROVE  /\ Enqueue(s, e) \in Seq(S)
         /\ Contents(Enqueue(s, e)) = Contents(s) \cup {e}
         /\ NoDuplicates(s) /\ e \notin Contents(s) => NoDuplicates(Enqueue(s, e))
<1> DEFINE t == Enqueue(s, e)
<1>1. /\ t \in Seq(S) /\ Len(t) = Len(s) + 1 /\ t[Len(s) + 1] = e
      /\ \A i \in 1..Len(s) : t[i] = s[i]
  BY DEF Enqueue
<1>2. Len(s) \in Nat
  OBVIOUS
<1>3. Contents(t) = Contents(s) \cup {e}
  BY <1>1, <1>2 DEF Contents
<1>4. ASSUME NoDuplicates(s), e \notin Contents(s) PROVE NoDuplicates(t)
  BY <1>1, <1>2, <1>4 DEF Contents, NoDuplicates
<1> QED BY <1>1, <1>3, <1>4

(* q_pop: the head leaves the queue, and nothing else does. *)
LEMMA DequeueFacts ==
  ASSUME NEW S, NEW s \in Seq(S), s # <<>>
  PROVE  /\ Dequeue(s) \in Seq(S)
         /\ Head(s) \in S
         /\ Head(s) \in Contents(s)
         /\ NoDuplicates(s) => /\ NoDuplicates(Dequeue(s))
                               /\ Contents(Dequeue(s)) = Contents(s) \ {Head(s)}
<1> DEFINE t == Dequeue(s)
<1>1. /\ t \in Seq(S) /\ Len(t) = Len(s) - 1 /\ Len(s) \in Nat \ {0}
      /\ \A i \in 1..Len(t) : t[i] = s[i + 1]
      /\ Head(s) = s[1] /\ Head(s) \in S
  BY DEF Dequeue
<1>2. Head(s) \in Contents(s)
  BY <1>1 DEF Contents
<1>3. ASSUME NoDuplicates(s) PROVE NoDuplicates(t)
  BY <1>1, <1>3 DEF NoDuplicates
<1>4. ASSUME NoDuplicates(s) PROVE Contents(t) = Contents(s) \ {Head(s)}
  <2>1. ASSUME NEW x \in Contents(t) PROVE x \in Contents(s) \ {Head(s)}
    <3>1. PICK i \in 1..Len(t) : x = s[i + 1]
      BY <1>1 DEF Contents
    <3>2. i + 1 \in 1..Len(s) /\ 1 \in 1..Len(s) /\ i + 1 # 1
      BY <1>1
    <3> QED BY <1>1, <1>4, <3>1, <3>2 DEF Contents, NoDuplicates
  <2>2. ASSUME NEW x \in Contents(s) \ {Head(s)} PROVE x \in Contents(t)
    <3>1. PICK i \in 1..Len(s) : x = s[i]
      BY DEF Contents
    <3>2. i - 1 \in 1..Len(t) /\ t[i - 1] = x
      BY <1>1, <3>1
    <3> QED BY <3>2 DEF Contents
  <2> QED BY <2>1, <2>2
<1> QED BY <1>1, <1>2, <1>3, <1>4

(* ts_completion_poll: returning from a completion pops the innermost frame. *)
LEMMA FrontFacts ==
  ASSUME NEW S, NEW s \in Seq(S), s # <<>>
  PROVE  LET t == SubSeq(s, 1, Len(s) - 1)
             e == s[Len(s)]
         IN  /\ t \in Seq(S)
             /\ e \in S
             /\ e \in Contents(s)
             /\ NoDuplicates(s) => /\ NoDuplicates(t)
                                   /\ Contents(t) = Contents(s) \ {e}
<1> DEFINE t == SubSeq(s, 1, Len(s) - 1)
           e == s[Len(s)]
<1>1. /\ Len(s) \in Nat \ {0} /\ t \in Seq(S) /\ Len(t) = Len(s) - 1
      /\ \A i \in 1..Len(t) : t[i] = s[i]
      /\ e \in S
  <2>1. Len(s) \in Nat \ {0}
    OBVIOUS
  <2>2. \A i \in 1..(Len(s) - 1) : s[i] \in S
    BY <2>1
  <2>3. PICK n \in Nat : n = Len(s) - 1 /\ n + 1 = Len(s)
    BY <2>1
  <2>4. /\ t \in Seq(S)
        /\ Len(t) = IF 1 <= n THEN n - 1 + 1 ELSE 0
        /\ \A i \in 1..(n - 1 + 1) : t[i] = s[1 + i - 1]
    BY <2>2, <2>3, SubSeqProperties
  <2>5. e \in S
    BY <2>1
  <2> HIDE DEF t, e
  <2>6. Len(t) = n
    BY <2>3, <2>4
  <2>7. ASSUME NEW i \in 1..Len(t) PROVE t[i] = s[i]
    <3>1. i \in 1..(n - 1 + 1) /\ 1 + i - 1 = i
      BY <2>3, <2>6
    <3> QED BY <2>4, <3>1
  <2> QED BY <2>1, <2>3, <2>4, <2>5, <2>6, <2>7
<1>2. e \in Contents(s)
  BY <1>1 DEF Contents
<1>3. ASSUME NoDuplicates(s) PROVE NoDuplicates(t)
  BY <1>1, <1>3 DEF NoDuplicates
<1>4. ASSUME NoDuplicates(s) PROVE Contents(t) = Contents(s) \ {e}
  <2>1. ASSUME NEW x \in Contents(t) PROVE x \in Contents(s) \ {e}
    <3>1. PICK i \in 1..Len(t) : x = s[i]
      BY <1>1 DEF Contents
    <3> QED BY <1>1, <1>4, <3>1 DEF Contents, NoDuplicates
  <2>2. ASSUME NEW x \in Contents(s) \ {e} PROVE x \in Contents(t)
    BY <1>1 DEF Contents
  <2> QED BY <2>1, <2>2
<1> QED BY <1>1, <1>2, <1>3, <1>4

(* The empty queue. *)
LEMMA EmptyFacts ==
  /\ Contents(<<>>) = {} /\ NoDuplicates(<<>>)
  /\ \A S : <<>> \in Seq(S)
BY DEF Contents, NoDuplicates

-----------------------------------------------------------------------------
(* Steps that move no job: worker threads changing state, calls and returns *)

(* A step that moves no job keeps the job-related parts of the invariant. *)
LEMMA QuietStep ==
  ASSUME PoolInv, Holders' = Holders,
         UNCHANGED <<workQ, doneQ, frames, wjob, mjob, inflight, miscounted, memVars>>,
         \A w \in Workers : wpc'[w] = "push" => wpc[w] = "push"
  PROVE  /\ OnePlace'
         /\ IsFiniteSet(Outstanding)' /\ InflightExact'
         /\ ResultStored'
         /\ CompleteAfterWork'
<1> USE DEF PoolInv, memVars
<1>1. /\ Submitting' = Submitting /\ Queued' = Queued /\ Held' = Held
      /\ Done' = Done /\ Completing' = Completing /\ Outstanding' = Outstanding
  BY DEF Submitting, Queued, Held, Done, Completing, Outstanding, Contents
<1>5. CompleteAfterWork'
  BY <1>1 DEF CompleteAfterWork
<1>2. OnePlace'
  BY <1>1, <1>5 DEF OnePlace, NoDuplicates
<1>3. IsFiniteSet(Outstanding)' /\ InflightExact'
  BY <1>1 DEF InflightExact
<1>4. ResultStored'
  BY DEF ResultStored
<1> QED BY <1>2, <1>3, <1>4, <1>5

(* There are finitely many workers, and one at least. *)
LEMMA WorkersFinite == Cardinality(Workers) \in Nat \ {0}
BY ConstantsAssumption, FS_CardinalityType, FS_EmptySet

(* The worker's steps in q_pop that end with the thread asleep, awake or
   gone, and not with a job. *)
LEMMA WorkerQuiet ==
  ASSUME PoolInv, NEW w \in Workers,
         PopExit(w) \/ PopCheck(w) \/ PopWait(w) \/ SpuriousWakeup(w)
  PROVE  PoolInv'
<1> USE DEF poolVars, memVars, mainVars, stopVars, At, Go
<1> DEFINE quiet == {"none", "pop", "checked", "waiting", "exit"}
<1>1. PICK pc \in quiet :
        /\ wpc[w] \in {"pop", "checked", "waiting"}
        /\ wpc' = [wpc EXCEPT ![w] = pc]
        /\ UNCHANGED <<poolVars, wjob, memVars, mainVars, stopVars>>
  BY DEF PopExit, PopCheck, PopWait, SpuriousWakeup
<1>2. TypeOK'
  BY <1>1 DEF PoolInv, TypeOK, WorkerPC
<1>3. Holders' = Holders
  BY <1>1 DEF PoolInv, TypeOK, Holders
<1>4. Control'
  BY <1>1, <1>3 DEF PoolInv, Control
<1>5. Stopped' /\ LoopLeft'
  BY <1>1 DEF PoolInv, TypeOK, Stopped, LoopLeft
<1>6. /\ OnePlace'
      /\ IsFiniteSet(Outstanding)' /\ InflightExact'
      /\ ResultStored'
      /\ CompleteAfterWork'
  BY <1>1, <1>3, QuietStep DEF PoolInv, TypeOK
<1> QED BY <1>2, <1>4, <1>5, <1>6 DEF PoolInv

(* Steps of the main thread that only change where it is. *)
LEMMA MainQuiet ==
  ASSUME PoolInv,
         \/ PollCall \/ WaitCall \/ WaitTimeout \/ CallbackReturn
         \/ PollEmpty \/ ShutdownCall \/ Join
         \/ EntryReturn \/ LoopTest \/ LoopDecide
  PROVE  PoolInv'
<1> USE DEF poolVars, workerVars, memVars, mainVars, stopVars
<1>1. UNCHANGED <<workQ, doneQ, frames, wpc, wjob, mjob, inflight, miscounted, memVars>>
  BY DEF PollCall, WaitCall, WaitTimeout, CallbackReturn, PollEmpty,
         ShutdownCall, Join, EntryReturn, LoopTest, LoopDecide
<1>2. TypeOK'
  <2> USE <1>1, WorkersFinite, ConstantsAssumption
      DEF PoolInv, TypeOK, MainPC, DriverPC
  <2>1. CASE PollCall \/ WaitCall \/ WaitTimeout \/ CallbackReturn
    BY <2>1 DEF PollCall, WaitCall, WaitTimeout, CallbackReturn
  <2>2. CASE PollEmpty
    <3>1. /\ (inited' = FALSE /\ draining' = 0) \/ UNCHANGED <<inited, draining>>
          /\ drv' \in {"exit", drv} /\ mpc' = "user"
      BY <2>2, Zenon DEF PollEmpty
    <3>2. UNCHANGED <<did, casts, shutdowns, miscounted, shutdown>>
      BY <2>2 DEF PollEmpty
    <3>3. CASE inited' = FALSE /\ draining' = 0
      BY <3>1, <3>2, <3>3
    <3>4. CASE UNCHANGED <<inited, draining>>
      BY <3>1, <3>2, <3>4
    <3> QED BY <3>1, <3>3, <3>4
  <2>3. CASE ShutdownCall
    BY <2>3 DEF ShutdownCall
  <2>4. CASE Join \/ EntryReturn
    BY <2>4 DEF Join, EntryReturn
  <2>5. CASE LoopTest \/ LoopDecide
    BY <2>5 DEF LoopTest, LoopDecide
  <2> QED BY <2>1, <2>2, <2>3, <2>4, <2>5
<1>3. Holders' = Holders
  BY <1>1 DEF Holders
<1>4. Control'
  BY <1>1, <1>3, WorkersFinite
     DEF PoolInv, Control, Stopped, LoopLeft, UserCode, Driver, PollCall, WaitCall,
         WaitTimeout, CallbackReturn, PollEmpty, ShutdownCall, Join,
         EntryReturn, LoopTest, LoopDecide
<1>5. Stopped'
  BY <1>1 DEF PoolInv, TypeOK, Control, Stopped, UserCode, Driver, PollCall, WaitCall,
         WaitTimeout, CallbackReturn, PollEmpty, ShutdownCall, Join,
         EntryReturn, LoopTest, LoopDecide
<1>7. LoopLeft'
  BY <1>1 DEF PoolInv, TypeOK, Control, LoopLeft, JobsPending, UserCode, Driver,
         PollCall, WaitCall, WaitTimeout, CallbackReturn, PollEmpty,
         ShutdownCall, Join, EntryReturn, LoopTest, LoopDecide
<1>6. /\ OnePlace'
      /\ IsFiniteSet(Outstanding)' /\ InflightExact'
      /\ ResultStored'
      /\ CompleteAfterWork'
  BY <1>1, <1>3, QuietStep
<1> QED BY <1>2, <1>4, <1>5, <1>6, <1>7 DEF PoolInv

(* A broadcast moves no job. *)
LEMMA BroadcastQuiet ==
  ASSUME PoolInv, Broadcast
  PROVE  PoolInv'
<1> USE DEF poolVars, memVars, mainVars, stopVars
<1>1. TypeOK'
  BY WorkersFinite DEF Broadcast, PoolInv, TypeOK, Control, WorkerPC, MainPC
<1>2. Holders' = Holders /\ \A w \in Workers : wpc'[w] = "push" => wpc[w] = "push"
  BY DEF Broadcast, PoolInv, TypeOK, Holders, Waiting
<1>3. Control'
  BY <1>2 DEF Broadcast, PoolInv, TypeOK, Control
<1>4. Stopped' /\ LoopLeft'
  BY DEF Broadcast, PoolInv, TypeOK, Stopped, LoopLeft, Control, Waiting
<1>5. /\ OnePlace'
      /\ IsFiniteSet(Outstanding)' /\ InflightExact'
      /\ ResultStored'
      /\ CompleteAfterWork'
  BY <1>2, QuietStep DEF Broadcast
<1> QED BY <1>1, <1>3, <1>4, <1>5 DEF PoolInv

-----------------------------------------------------------------------------
(* Steps that move a job *)

(* q_pop by a worker: the head of g_work moves to the worker. *)
LEMMA PopJobStep ==
  ASSUME PoolInv, NEW w \in Workers, PopJob(w)
  PROVE  PoolInv'
<1> USE DEF memVars, mainVars, stopVars, At, Go
<1> DEFINE j == Head(workQ)
<1>1. /\ wpc[w] = "pop" /\ workQ # <<>>
      /\ wjob' = [wjob EXCEPT ![w] = j]
      /\ workQ' = Dequeue(workQ)
      /\ wpc' = [wpc EXCEPT ![w] = "work"]
      /\ UNCHANGED <<doneQ, inflight, inited, shutdown, memVars, mainVars, stopVars>>
  BY DEF PopJob
<1>2. /\ workQ' \in Seq(Jobs) /\ j \in Jobs /\ j \in Queued
      /\ NoDuplicates(workQ') /\ Queued' = Queued \ {j}
  BY <1>1, DequeueFacts DEF PoolInv, TypeOK, OnePlace, Queued
<1> HIDE DEF j
<1>3. TypeOK'
  BY <1>1, <1>2 DEF PoolInv, TypeOK, WorkerPC
<1>4. Holders' = Holders \cup {w} /\ w \notin Holders
  BY <1>1 DEF PoolInv, TypeOK, Holders
<1>5. \A v \in Holders : wjob'[v] = wjob[v]
  BY <1>1, <1>4 DEF PoolInv, TypeOK, Holders
<1>6. wjob'[w] = j
  BY <1>1 DEF PoolInv, TypeOK
<1>7. Held' = Held \cup {j}
  BY <1>4, <1>5, <1>6 DEF Held
<1>8. Control'
  BY <1>1, <1>2, <1>4, <1>5, <1>6, ConstantsAssumption DEF PoolInv, TypeOK, Control
<1>9. Stopped' /\ LoopLeft'
  BY <1>1 DEF PoolInv, TypeOK, Stopped, LoopLeft
<1>10. /\ Submitting' = Submitting /\ Done' = Done /\ Completing' = Completing
       /\ Outstanding' = Outstanding
  BY <1>1 DEF Submitting, Done, Completing, Outstanding, Contents
<1>13. ResultStored' /\ CompleteAfterWork'
  BY <1>1, <1>10 DEF PoolInv, TypeOK, ResultStored, CompleteAfterWork
<1>11. OnePlace'
  <2>1. NoDuplicates(doneQ)' /\ NoDuplicates(frames)'
    BY <1>1 DEF PoolInv, OnePlace, NoDuplicates
  <2>2. \A u, v \in Holders' : wjob'[u] = wjob'[v] => u = v
    <3>1. \A u \in Holders : wjob'[u] # j
      BY <1>2, <1>5 DEF PoolInv, OnePlace, Held
    <3> QED BY <1>4, <1>5, <1>6, <3>1 DEF PoolInv, OnePlace
  <2> QED BY <1>2, <1>7, <1>10, <1>13, <2>1, <2>2 DEF PoolInv, OnePlace
<1>12. IsFiniteSet(Outstanding)' /\ InflightExact'
  BY <1>1, <1>10 DEF PoolInv, InflightExact
<1> QED BY <1>3, <1>8, <1>9, <1>11, <1>12, <1>13 DEF PoolInv

(* worker_main runs work(): the result is stored, no job moves. *)
LEMMA WorkStep ==
  ASSUME PoolInv, NEW w \in Workers, Work(w)
  PROVE  PoolInv'
<1> USE DEF poolVars, mainVars, stopVars, At, Go
<1>1. /\ wpc[w] = "work"
      /\ ready' = ready \cup {wjob[w]}
      /\ wpc' = [wpc EXCEPT ![w] = "push"]
      /\ UNCHANGED <<poolVars, wjob, heap, mainVars, stopVars>>
  BY DEF Work
<1>2. Holders' = Holders /\ w \in Holders
  BY <1>1 DEF PoolInv, TypeOK, Holders
<1>3. wjob[w] \in Jobs
  BY <1>2 DEF PoolInv, TypeOK, Control
<1>4. TypeOK'
  BY <1>1, <1>3 DEF PoolInv, TypeOK, WorkerPC
<1>5. Control' /\ Stopped' /\ LoopLeft'
  BY <1>1, <1>2 DEF PoolInv, TypeOK, Control, Stopped, LoopLeft
<1>6. /\ Submitting' = Submitting /\ Queued' = Queued /\ Held' = Held
      /\ Done' = Done /\ Completing' = Completing /\ Outstanding' = Outstanding
  BY <1>1, <1>2 DEF Submitting, Queued, Held, Done, Completing, Outstanding, Contents
<1>8. ResultStored' /\ CompleteAfterWork'
  BY <1>1, <1>6 DEF PoolInv, TypeOK, ResultStored, CompleteAfterWork
<1>7. OnePlace' /\ IsFiniteSet(Outstanding)' /\ InflightExact'
  BY <1>1, <1>2, <1>6, <1>8 DEF PoolInv, OnePlace, NoDuplicates, InflightExact
<1> QED BY <1>4, <1>5, <1>7, <1>8 DEF PoolInv

(* q_push(&g_done, job): the job moves from the worker to g_done. *)
LEMMA PushDoneStep ==
  ASSUME PoolInv, NEW w \in Workers, PushDone(w)
  PROVE  PoolInv'
<1> USE DEF memVars, stopVars, At, Go
<1> DEFINE j == wjob[w]
<1>1. /\ wpc[w] = "push"
      /\ doneQ' = Enqueue(doneQ, j)
      /\ wjob' = [wjob EXCEPT ![w] = NoJob]
      /\ wpc' = [wpc EXCEPT ![w] = "pop"]
      /\ mpc' = IF mpc = "waiting" THEN "user" ELSE mpc
      /\ UNCHANGED <<workQ, inflight, inited, shutdown, memVars,
                     mjob, frames, drv, did, stopVars>>
  BY DEF PushDone
<1>2. w \in Holders /\ j \in Held /\ j \in Jobs
  BY <1>1 DEF PoolInv, TypeOK, Control, Holders, Held
<1>3. j \notin Done
  BY <1>2 DEF PoolInv, OnePlace
<1>4. /\ doneQ' \in Seq(Jobs) /\ NoDuplicates(doneQ')
      /\ Done' = Done \cup {j}
  <2>1. doneQ \in Seq(Jobs) /\ NoDuplicates(doneQ) /\ j \notin Contents(doneQ)
    BY <1>3 DEF PoolInv, TypeOK, OnePlace, Done
  <2> HIDE DEF j
  <2> QED BY <1>1, <1>2, <2>1, EnqueueFacts DEF Done
<1>5. TypeOK'
  BY <1>1, <1>4 DEF PoolInv, TypeOK, WorkerPC, MainPC
<1>6. Holders' = Holders \ {w}
  BY <1>1 DEF PoolInv, TypeOK, Holders
<1>7. \A v \in Holders' : wjob'[v] = wjob[v]
  BY <1>1, <1>6 DEF PoolInv, TypeOK, Holders
<1>8. Held' = Held \ {j}
  <2>1. \A v \in Holders' : wjob[v] # j
    BY <1>2, <1>6 DEF PoolInv, OnePlace
  <2> QED BY <1>6, <1>7, <2>1 DEF Held
<1>9. Control'
  BY <1>1, <1>6 DEF PoolInv, TypeOK, Control
<1>10. Stopped' /\ LoopLeft'
  BY <1>1 DEF PoolInv, TypeOK, Stopped, LoopLeft
<1>11. /\ Submitting' = Submitting /\ Queued' = Queued /\ Completing' = Completing
       /\ Outstanding' = Outstanding
  BY <1>1 DEF Submitting, Queued, Completing, Outstanding, Contents
<1>15. CompleteAfterWork'
  <2>1. j \in ready
    BY <1>1 DEF PoolInv, ResultStored
  <2>2. Completing' = Completing /\ ready' = ready
    BY <1>1, <1>11
  <2> QED BY <1>4, <2>1, <2>2 DEF PoolInv, CompleteAfterWork
<1>12. OnePlace'
  <2>1. NoDuplicates(workQ)' /\ NoDuplicates(frames)'
    BY <1>1 DEF PoolInv, OnePlace, NoDuplicates
  <2>2. \A u, v \in Holders' : wjob'[u] = wjob'[v] => u = v
    BY <1>6, <1>7 DEF PoolInv, OnePlace
  <2> HIDE DEF j
  <2> QED BY <1>2, <1>4, <1>8, <1>11, <1>15, <2>1, <2>2 DEF PoolInv, OnePlace
<1>13. IsFiniteSet(Outstanding)' /\ InflightExact'
  BY <1>1, <1>11 DEF PoolInv, InflightExact
<1>14. ResultStored'
  BY <1>1 DEF PoolInv, TypeOK, ResultStored
<1> QED BY <1>5, <1>9, <1>10, <1>12, <1>13, <1>14, <1>15 DEF PoolInv

(* ts_thread_pool_submit on a running pool: one more job is outstanding. *)
LEMMA SubmitRunningStep ==
  ASSUME PoolInv, NEW j \in Jobs, SubmitCount(j), inited
  PROVE  PoolInv'
<1> USE DEF stopVars
<1>1. /\ mpc = "user" /\ heap[j] = "unallocated"
      /\ drv = "code" \/ frames # <<>>
      /\ inited' = TRUE /\ inflight' = inflight + 1
      /\ heap' = [heap EXCEPT ![j] = "live"]
      /\ mjob' = j /\ mpc' = "push"
      /\ UNCHANGED <<workQ, doneQ, shutdown, wpc, wjob, ready, frames, drv, did, stopVars>>
  <2>1. miscounted' = miscounted
    BY DEF SubmitCount, PoolInv, TypeOK
  <2> QED BY <2>1 DEF SubmitCount, UserCode
<1>2. TypeOK'
  BY <1>1 DEF PoolInv, TypeOK, MainPC
<1>3. /\ Outstanding' = Outstanding \cup {j}
      /\ j \notin Outstanding
  BY <1>1 DEF PoolInv, TypeOK, Outstanding
<1>4. mjob = NoJob /\ Submitting = {} /\ Submitting' = {j}
  BY <1>1, ConstantsAssumption DEF PoolInv, Control, Submitting
<1>5. Holders' = Holders
  BY <1>1 DEF Holders
<1>6. /\ Queued' = Queued /\ Held' = Held /\ Done' = Done /\ Completing' = Completing
  BY <1>1, <1>5 DEF Queued, Held, Done, Completing, Contents
<1>7. Control'
  BY <1>1, <1>5, ConstantsAssumption DEF PoolInv, Control, LoopLeft
<1>8. Stopped' /\ LoopLeft'
  BY <1>1 DEF PoolInv, Stopped, LoopLeft
<1>11. ResultStored' /\ CompleteAfterWork'
  BY <1>1, <1>6 DEF PoolInv, ResultStored, CompleteAfterWork
<1>9. OnePlace'
  <2>1. NoDuplicates(workQ)' /\ NoDuplicates(doneQ)' /\ NoDuplicates(frames)'
    BY <1>1 DEF PoolInv, OnePlace, NoDuplicates
  <2> QED BY <1>1, <1>3, <1>4, <1>5, <1>6, <1>11, <2>1 DEF PoolInv, OnePlace
<1>10. IsFiniteSet(Outstanding)' /\ InflightExact'
  <2>1. Cardinality(Outstanding) \in Nat /\ inflight \in Nat
    BY FS_CardinalityType DEF PoolInv, TypeOK
  <2>2. /\ IsFiniteSet(Outstanding')
        /\ Cardinality(Outstanding') = Cardinality(Outstanding) + 1
    BY <1>3, FS_AddElement DEF PoolInv
  <2> QED BY <1>1, <2>1, <2>2 DEF PoolInv, InflightExact
<1> QED BY <1>2, <1>7, <1>8, <1>9, <1>10, <1>11 DEF PoolInv

(* ts_thread_pool_submit that starts the pool: what an earlier pool left
   queued is forgotten, and the new job is outstanding with those that complete. *)
LEMMA SubmitStartingStep ==
  ASSUME PoolInv, NEW j \in Jobs, SubmitCount(j), ~inited
  PROVE  PoolInv'
<1>1. /\ mpc = "user" /\ heap[j] = "unallocated"
      /\ drv = "code" \/ frames # <<>>
      /\ inited' = TRUE /\ inflight' = 1
      /\ workQ' = <<>> /\ doneQ' = <<>> /\ shutdown' = FALSE
      /\ wpc' = [w \in Workers |-> "pop"]
      /\ heap' = [k \in Jobs |-> IF k = j THEN "live"
                                 ELSE IF k \in Queued THEN "leaked" ELSE heap[k]]
      /\ mjob' = j /\ mpc' = "push"
      /\ UNCHANGED <<wjob, ready, frames, drv, did, draining, casts, shutdowns>>
  BY DEF SubmitCount, UserCode, Queued
<1>2. /\ doneQ = <<>> /\ mjob = NoJob
      /\ \A w \in Workers : wpc[w] \in {"none", "exit"}
      /\ draining = 0
  BY <1>1 DEF PoolInv, TypeOK, Control, Stopped
<1>3. Holders = {} /\ Holders' = {} /\ Held = {} /\ Held' = {}
  BY <1>1, <1>2 DEF Holders, Held
<1>4. /\ Submitting = {} /\ Done = {} /\ Submitting' = {j}
      /\ Queued' = {} /\ Done' = {} /\ Completing' = Completing
  BY <1>1, <1>2, ConstantsAssumption, EmptyFacts
     DEF Submitting, Queued, Done, Completing
\* what is left outstanding is the new job and the completions in progress
<1>5. /\ Outstanding' = {j} \cup Completing
      /\ j \notin Completing /\ Completing \subseteq Outstanding
  <2>1. Outstanding = Queued \cup Completing /\ Queued \cap Completing = {}
    BY <1>3, <1>4 DEF PoolInv, OnePlace
  <2>2. j \notin Outstanding /\ \A k \in Outstanding : k \in Jobs /\ heap[k] = "live"
    BY <1>1 DEF Outstanding
  <2>3. ASSUME NEW k \in Outstanding' PROVE k \in {j} \cup Completing
    BY <1>1, <2>1 DEF PoolInv, TypeOK, Outstanding
  <2>4. ASSUME NEW k \in {j} \cup Completing PROVE k \in Outstanding'
    BY <1>1, <2>1, <2>2 DEF PoolInv, TypeOK, Outstanding
  <2> QED BY <2>1, <2>2, <2>3, <2>4
<1>6. TypeOK'
  <2>1. miscounted' \in BOOLEAN
    BY DEF SubmitCount, PoolInv, TypeOK
  <2> QED BY <1>1, <2>1, EmptyFacts DEF PoolInv, TypeOK, MainPC, WorkerPC
<1>7. Control'
  <2>1. \A w \in Workers : wjob'[w] # NoJob <=> w \in Holders'
    BY <1>1, <1>3 DEF PoolInv, Control
  <2>2. j # NoJob
    BY ConstantsAssumption
  <2>3. drv # "exit"
    BY <1>1 DEF PoolInv, LoopLeft
  <2> QED BY <1>1, <1>2, <2>1, <2>2, <2>3 DEF Control
<1>8. Stopped' /\ LoopLeft'
  <2>1. Stopped'
    <3>1. Len(frames) \in Nat
      BY DEF PoolInv, TypeOK
    <3> QED BY <1>1, <1>2, <3>1 DEF Stopped
  <2>2. drv = "exit" => frames = <<>>
    BY DEF PoolInv, LoopLeft
  <2>3. frames # <<>> => miscounted'
    BY DEF SubmitCount
  <2>4. drv \in {"last", "exit"} => frames # <<>>
    BY <1>1
  <2> QED BY <1>1, <2>1, <2>2, <2>3, <2>4 DEF LoopLeft
<1>11. ResultStored' /\ CompleteAfterWork'
  BY <1>1, <1>4 DEF PoolInv, ResultStored, CompleteAfterWork
<1>9. OnePlace'
  <2>1. NoDuplicates(frames)'
    BY <1>1 DEF PoolInv, OnePlace, NoDuplicates
  <2>2. NoDuplicates(workQ)' /\ NoDuplicates(doneQ)'
    BY <1>1, EmptyFacts
  <2> QED BY <1>3, <1>4, <1>5, <1>11, <2>1, <2>2 DEF OnePlace
<1>10. IsFiniteSet(Outstanding)' /\ InflightExact'
  <2>1. IsFiniteSet(Completing)
    BY <1>5, FS_Subset DEF PoolInv
  <2>2. Cardinality(Completing) \in Nat
    BY <2>1, FS_CardinalityType
  <2>3. /\ IsFiniteSet(Outstanding')
        /\ Cardinality(Outstanding') = Cardinality(Completing) + 1
    BY <1>5, <2>1, FS_AddElement
  <2>4. miscounted' \/ frames = <<>>
    BY DEF SubmitCount
  <2>5. frames = <<>> => Cardinality(Completing) = 0
    BY EmptyFacts, FS_EmptySet DEF Completing
  <2> QED BY <1>1, <2>2, <2>3, <2>4, <2>5 DEF InflightExact
<1> QED BY <1>6, <1>7, <1>8, <1>9, <1>10, <1>11 DEF PoolInv

(* q_push(&g_work, job): the job is queued and at most one worker is woken. *)
LEMMA SubmitPushStep ==
  ASSUME PoolInv, SubmitPush
  PROVE  PoolInv'
<1> USE DEF memVars, stopVars
<1> DEFINE j == mjob
<1>1. /\ mpc = "push" /\ workQ' = Enqueue(workQ, j)
      /\ mjob' = NoJob /\ mpc' = "user"
      /\ UNCHANGED <<doneQ, inflight, inited, shutdown, wjob, memVars,
                     frames, drv, did, stopVars>>
  BY DEF SubmitPush, PushWork
<1>2. \/ wpc' = wpc
      \/ \E w \in Waiting : wpc' = [wpc EXCEPT ![w] = "pop"]
  BY DEF SubmitPush, PushWork
<1>3. j \in Jobs /\ Submitting = {j} /\ Submitting' = {} /\ j \notin Queued
  BY <1>1, ConstantsAssumption DEF PoolInv, TypeOK, Control, Submitting, OnePlace
<1>4. /\ workQ' \in Seq(Jobs) /\ NoDuplicates(workQ')
      /\ Queued' = Queued \cup {j}
  <2>1. workQ \in Seq(Jobs) /\ NoDuplicates(workQ) /\ j \notin Contents(workQ)
    BY <1>3 DEF PoolInv, TypeOK, OnePlace, Queued
  <2> HIDE DEF j
  <2> QED BY <1>1, <1>3, <2>1, EnqueueFacts DEF Queued
<1>5. TypeOK'
  BY <1>1, <1>2, <1>4 DEF PoolInv, TypeOK, WorkerPC, MainPC, Waiting
<1>6. /\ Holders' = Holders
      /\ \A w \in Workers : wpc'[w] = "push" => wpc[w] = "push"
      /\ \A w \in Workers : wpc[w] \in {"none", "exit"} => wpc'[w] = wpc[w]
  BY <1>2 DEF PoolInv, TypeOK, Holders, Waiting
<1>7. /\ Held' = Held /\ Done' = Done /\ Completing' = Completing
      /\ Outstanding' = Outstanding
  BY <1>1, <1>6 DEF Held, Done, Completing, Outstanding, Contents
<1>8. Control'
  BY <1>1, <1>6 DEF PoolInv, Control
<1>9. Stopped' /\ LoopLeft'
  BY <1>1, <1>6 DEF PoolInv, Control, Stopped, LoopLeft
<1>12. ResultStored' /\ CompleteAfterWork'
  BY <1>1, <1>6, <1>7 DEF PoolInv, ResultStored, CompleteAfterWork
<1>10. OnePlace'
  <2>1. NoDuplicates(doneQ)' /\ NoDuplicates(frames)'
    BY <1>1 DEF PoolInv, OnePlace, NoDuplicates
  <2> HIDE DEF j
  <2> QED BY <1>1, <1>3, <1>4, <1>6, <1>7, <1>12, <2>1 DEF PoolInv, OnePlace
<1>11. IsFiniteSet(Outstanding)' /\ InflightExact'
  BY <1>1, <1>7 DEF PoolInv, InflightExact
<1> QED BY <1>5, <1>8, <1>9, <1>10, <1>11, <1>12 DEF PoolInv

(* ts_completion_poll pops g_done: the job's completion starts. *)
LEMMA PollJobStep ==
  ASSUME PoolInv, PollJob
  PROVE  PoolInv'
<1> USE DEF workerVars, memVars, stopVars
<1> DEFINE j == Head(doneQ)
<1>1. /\ mpc = "poll" /\ inited /\ doneQ # <<>>
      /\ frames' = Append(frames, j)
      /\ doneQ' = Dequeue(doneQ)
      /\ mpc' = "user"
      /\ UNCHANGED <<workQ, inflight, inited, shutdown, workerVars, memVars,
                     mjob, drv, did, stopVars>>
  BY DEF PollJob
<1>2. /\ doneQ' \in Seq(Jobs) /\ j \in Jobs /\ j \in Done
      /\ NoDuplicates(doneQ') /\ Done' = Done \ {j}
  BY <1>1, DequeueFacts DEF PoolInv, TypeOK, OnePlace, Done
<1> HIDE DEF j
<1>3. /\ frames' \in Seq(Jobs) /\ NoDuplicates(frames') /\ frames' # <<>>
      /\ Completing' = Completing \cup {j}
  <2>1. frames \in Seq(Jobs) /\ NoDuplicates(frames) /\ j \notin Contents(frames)
    BY <1>2 DEF PoolInv, TypeOK, OnePlace, Completing
  <2>2. frames' = Enqueue(frames, j)
    BY <1>1 DEF Enqueue
  <2>3. /\ frames' \in Seq(Jobs) /\ NoDuplicates(frames')
        /\ Contents(frames') = Contents(frames) \cup {j}
    BY <1>2, <2>1, <2>2, EnqueueFacts
  <2>4. frames' # <<>>
    BY <2>3, EmptyFacts
  <2> QED BY <2>3, <2>4 DEF Completing
<1>4. TypeOK'
  BY <1>1, <1>2, <1>3 DEF PoolInv, TypeOK, MainPC
<1>5. Holders' = Holders
  BY <1>1 DEF Holders
<1>6. /\ Submitting' = Submitting /\ Queued' = Queued /\ Held' = Held
      /\ Outstanding' = Outstanding
  BY <1>1, <1>5 DEF Submitting, Queued, Held, Outstanding, Contents
<1>7. Control'
  BY <1>1, <1>3, <1>5 DEF PoolInv, Control
<1>8. Stopped' /\ LoopLeft'
  <2>1. Stopped'
    <3>1. Len(frames') = Len(frames) + 1 /\ Len(frames) \in Nat /\ draining \in Nat
      BY <1>1, <1>2 DEF PoolInv, TypeOK
    <3>2. /\ draining > 0 => draining <= Len(frames) + 1
          /\ \A w \in Workers : draining > 0 => wpc[w] = "exit"
      BY DEF PoolInv, Stopped
    <3>3. draining' = draining /\ inited' /\ wpc' = wpc
      BY <1>1
    <3>4. /\ draining > 0 => draining <= Len(frames') + 1
          /\ draining # Len(frames') + 1
      BY <3>1, <3>2
    <3> QED BY <3>2, <3>3, <3>4 DEF Stopped
  \* something is in g_done, so g_inflight is not 0
  <2>2. j \in Outstanding
    BY <1>2 DEF PoolInv, OnePlace
  <2>3. ~miscounted => inflight # 0
    BY <2>2, FS_EmptySet DEF PoolInv, InflightExact
  <2> QED BY <1>1, <2>1, <2>3 DEF PoolInv, Control, LoopLeft
<1>11. ResultStored' /\ CompleteAfterWork'
  <2>1. j \in ready
    BY <1>2 DEF PoolInv, CompleteAfterWork
  <2>2. ready' = ready /\ ResultStored'
    BY <1>1 DEF PoolInv, ResultStored
  <2> QED BY <1>2, <1>3, <2>1, <2>2 DEF PoolInv, CompleteAfterWork
<1>9. OnePlace'
  <2>1. NoDuplicates(workQ)'
    BY <1>1 DEF PoolInv, OnePlace, NoDuplicates
  <2> QED BY <1>1, <1>2, <1>3, <1>5, <1>6, <1>11, <2>1 DEF PoolInv, OnePlace
<1>10. IsFiniteSet(Outstanding)' /\ InflightExact'
  BY <1>1, <1>6 DEF PoolInv, InflightExact
<1> QED BY <1>4, <1>7, <1>8, <1>9, <1>10, <1>11 DEF PoolInv

(* The completion returned: the counter drops and the job is freed. *)
LEMMA SettleStep ==
  ASSUME PoolInv, Settle
  PROVE  PoolInv'
<1> USE DEF workerVars, stopVars
<1> DEFINE j == frames[Len(frames)]
           rest == SubSeq(frames, 1, Len(frames) - 1)
<1>1. /\ mpc = "settle" /\ frames # <<>>
      /\ inflight' = IF inflight > 0 THEN inflight - 1 ELSE inflight
      /\ heap' = [heap EXCEPT ![j] = "freed"]
      /\ frames' = rest
      /\ did' \in BOOLEAN /\ mpc' = "poll"
      /\ UNCHANGED <<workQ, doneQ, inited, shutdown, workerVars, ready,
                     mjob, drv, stopVars>>
  BY DEF Settle, PoolInv, Control, TypeOK
<1>2. /\ rest \in Seq(Jobs) /\ j \in Jobs /\ j \in Completing
      /\ NoDuplicates(rest) /\ Contents(rest) = Completing \ {j}
  BY <1>1, FrontFacts DEF PoolInv, TypeOK, OnePlace, Completing
<1>14. Len(frames) \in Nat \ {0} /\ Len(rest) = Len(frames) - 1
  <2>1. Len(frames) \in Nat \ {0}
    BY <1>1 DEF PoolInv, TypeOK
  <2>2. \A i \in 1..(Len(frames) - 1) : frames[i] \in Jobs
    BY <2>1 DEF PoolInv, TypeOK
  <2>3. PICK n \in Nat : n = Len(frames) - 1
    BY <2>1
  <2>4. Len(rest) = IF 1 <= n THEN n - 1 + 1 ELSE 0
    BY <2>2, <2>3, SubSeqProperties
  <2> QED BY <2>1, <2>3, <2>4
<1> HIDE DEF j, rest
<1>3. Completing' = Completing \ {j}
  BY <1>1, <1>2 DEF Completing
<1>4. /\ Outstanding' = Outstanding \ {j}
      /\ j \in Outstanding
  <2>1. j \in Outstanding
    BY <1>2 DEF PoolInv, OnePlace
  <2> QED BY <1>1, <1>2, <2>1 DEF PoolInv, TypeOK, Outstanding
<1>5. /\ IsFiniteSet(Outstanding') /\ inflight' \in Nat
      /\ inflight' <= Cardinality(Outstanding')
      /\ miscounted \/ inflight' = Cardinality(Outstanding')
      /\ inflight = 0 => inflight' = 0
  <2>1. /\ IsFiniteSet(Outstanding \ {j})
        /\ Cardinality(Outstanding \ {j}) = Cardinality(Outstanding) - 1
    BY <1>4, FS_RemoveElement DEF PoolInv
  <2>2. Cardinality(Outstanding \ {j}) \in Nat
    BY <2>1, FS_CardinalityType
  <2>3. Cardinality(Outstanding) \in Nat
    BY FS_CardinalityType DEF PoolInv
  <2> QED BY <1>1, <1>4, <2>1, <2>2, <2>3 DEF PoolInv, TypeOK, InflightExact
<1>6. TypeOK'
  BY <1>1, <1>2, <1>5 DEF PoolInv, TypeOK, MainPC
<1>7. Holders' = Holders
  BY <1>1 DEF Holders
<1>8. /\ Submitting' = Submitting /\ Queued' = Queued /\ Held' = Held /\ Done' = Done
  BY <1>1, <1>7 DEF Submitting, Queued, Held, Done, Contents
<1>9. Control'
  BY <1>1, <1>7 DEF PoolInv, Control
<1>10. Stopped' /\ LoopLeft'
  <2>1. Len(frames') = Len(frames) - 1 /\ Len(frames) \in Nat \ {0}
    BY <1>1, <1>14
  <2>2. draining # Len(frames) + 1 /\ draining \in Nat
    BY <1>1 DEF PoolInv, TypeOK, Stopped
  <2>3. draining > 0 => draining <= Len(frames) + 1 /\ \A w \in Workers : wpc[w] = "exit"
    BY DEF PoolInv, Stopped
  <2>4. draining > 0 => draining <= Len(frames') + 1
    BY <2>1, <2>2, <2>3
  <2>5. Stopped'
    BY <1>1, <2>3, <2>4 DEF PoolInv, Stopped
  <2> QED BY <1>1, <2>5 DEF PoolInv, Control, LoopLeft
<1>13. ResultStored' /\ CompleteAfterWork'
  <2>1. ready' = ready /\ ResultStored'
    BY <1>1 DEF PoolInv, ResultStored
  <2> QED BY <1>3, <1>8, <2>1 DEF PoolInv, CompleteAfterWork
<1>11. OnePlace'
  <2>1. NoDuplicates(workQ)' /\ NoDuplicates(doneQ)'
    BY <1>1 DEF PoolInv, OnePlace, NoDuplicates
  <2> QED BY <1>1, <1>2, <1>3, <1>4, <1>7, <1>8, <1>13, <2>1 DEF PoolInv, OnePlace
<1>12. InflightExact'
  BY <1>1, <1>5 DEF InflightExact
<1> QED BY <1>5, <1>6, <1>9, <1>10, <1>11, <1>12, <1>13 DEF PoolInv

-----------------------------------------------------------------------------
(* The theorems *)

(* The invariant holds in an empty pool, *)
LEMMA InitInv == Init => PoolInv
<1> SUFFICES ASSUME Init PROVE PoolInv
  OBVIOUS
<1> USE DEF Init
<1>1. TypeOK
  <2>1. <<>> \in Seq(Jobs)
    BY EmptyFacts
  <2>2. casts \in 0..Cardinality(Workers) /\ shutdowns \in 0..MaxShutdowns
    BY WorkersFinite, ConstantsAssumption
  <2> QED BY <2>1, <2>2 DEF TypeOK, WorkerPC, MainPC, DriverPC
<1>2. Holders = {} /\ Held = {} /\ Outstanding = {} /\ Submitting = {}
  BY DEF Holders, Held, Outstanding, Submitting
<1>3. Control /\ Stopped /\ LoopLeft /\ ResultStored
  BY <1>2 DEF Control, Stopped, LoopLeft, ResultStored
<1>4. OnePlace /\ CompleteAfterWork
  BY <1>2, EmptyFacts DEF OnePlace, Queued, Done, Completing, CompleteAfterWork
<1>5. IsFiniteSet(Outstanding) /\ InflightExact
  BY <1>2, FS_EmptySet DEF InflightExact
<1> QED BY <1>1, <1>3, <1>4, <1>5 DEF PoolInv

(* PoolInv is inductive: every step of a worker, of the main thread and of
   the code that calls the pool preserves it. *)
LEMMA StepInv == PoolInv /\ [Next]_vars => PoolInv'
<1> SUFFICES ASSUME PoolInv, [Next]_vars PROVE PoolInv'
  OBVIOUS
<1>1. CASE UNCHANGED vars
  <2>1. /\ Holders' = Holders /\ Control' /\ Stopped' /\ LoopLeft' /\ TypeOK'
        /\ UNCHANGED <<workQ, doneQ, frames, wjob, wpc, mjob, inflight, miscounted, memVars>>
    BY <1>1 DEF vars, poolVars, workerVars, memVars, mainVars, stopVars,
                PoolInv, Holders, Control, Stopped, LoopLeft, TypeOK
  <2> QED BY <2>1, QuietStep DEF PoolInv
<1>2. ASSUME NEW w \in Workers, WorkerStep(w) \/ SpuriousWakeup(w) PROVE PoolInv'
  BY <1>2, WorkerQuiet, PopJobStep, WorkStep, PushDoneStep DEF WorkerStep
<1>3. CASE MainStep
  BY <1>3, SubmitPushStep, MainQuiet, BroadcastQuiet, PollJobStep, SettleStep
     DEF MainStep, PollStep
<1>4. CASE Calls
  <2>1. ASSUME NEW j \in Jobs, SubmitCount(j) PROVE PoolInv'
    BY <2>1, SubmitRunningStep, SubmitStartingStep
  <2> QED BY <1>4, <2>1, MainQuiet DEF Calls
<1>5. CASE CallbackReturn \/ EntryReturn
  BY <1>5, MainQuiet
<1> QED BY <1>1, <1>2, <1>3, <1>4, <1>5 DEF Next, Exited

(* The invariant of the pool, for every number of jobs, workers and waits
   (thread_pool.c). *)
THEOREM Invariance == Spec => []PoolInv
BY InitInv, StepInv, PTL DEF Spec

(* Types are preserved by every operation of the pool. *)
THEOREM TypeCorrect == Spec => []TypeOK
<1>1. PoolInv => TypeOK
  BY DEF PoolInv
<1> QED BY <1>1, Invariance, PTL

(* A submitted job is in exactly one place until its completion returned, for
   any number of jobs, workers and restarts of the pool. *)
THEOREM JobsInOnePlace == Spec => []OnePlace
<1>1. PoolInv => OnePlace
  BY DEF PoolInv
<1> QED BY <1>1, Invariance, PTL

(* g_inflight is at most the number of outstanding jobs, and exactly that number as
   long as no completion shut the pool down and started another. *)
THEOREM InflightCounts == Spec => []InflightExact
<1>1. PoolInv => InflightExact
  BY DEF PoolInv
<1> QED BY <1>1, Invariance, PTL

(* No completion runs before work() stored its result. *)
THEOREM ResultsBeforeCompletions == Spec => []CompleteAfterWork
<1>1. PoolInv => CompleteAfterWork
  BY DEF PoolInv
<1> QED BY <1>1, Invariance, PTL

(* ts_async_run never returns to main() while a job is outstanding, unless the pool
   is down or one was started inside a completion. *)
THEOREM ReturnsDrained == Spec => []ExitOnlyWhenDrained
<1>1. PoolInv => ExitOnlyWhenDrained
  <2> SUFFICES ASSUME PoolInv, drv = "exit", inited, ~miscounted PROVE Outstanding = {}
    BY DEF ExitOnlyWhenDrained
  <2>1. Cardinality(Outstanding) = 0 /\ IsFiniteSet(Outstanding)
    BY DEF PoolInv, LoopLeft, InflightExact
  <2> QED BY <2>1, FS_EmptySet
<1> QED BY <1>1, Invariance, PTL

-----------------------------------------------------------------------------
(* Refinement: the pool implements JobService *)

(* An empty pool is an idle service. *)
LEMMA InitMaps == Init => Service!JInit
<1> SUFFICES ASSUME Init PROVE Service!JInit
  OBVIOUS
<1>1. Holders = {} /\ {j \in Jobs : heap[j] = "freed"} = {}
      /\ {j \in Jobs : heap[j] = "leaked"} = {}
  BY DEF Init, Holders
<1> QED BY <1>1 DEF Init, Service!JInit

\* the abstract state in the names of the concrete one
Freed == {j \in Jobs : heap[j] = "freed"}
Leaked == {j \in Jobs : heap[j] = "leaked"}

(* The jobs the service knows are those of the pool. *)
LEMMA KnownMaps ==
  Service!Known = Queued \cup Held \cup Done \cup Completing \cup Freed \cup Leaked
BY DEF Service!Known, Service!Contents, Contents, Queued, Held, Done, Completing,
       Freed, Leaked

(* A step that moves no job is a stutter of the service. *)
LEMMA QuietMaps ==
  ASSUME Holders' = Holders, UNCHANGED <<workQ, doneQ, frames, wjob, heap>>
  PROVE  UNCHANGED Service!jobVars
BY DEF Service!jobVars

(* A worker takes the oldest queued job, and a worker is free to do so. *)
LEMMA StartMaps ==
  ASSUME PoolInv, NEW w \in Workers, PopJob(w)
  PROVE  Service!Start
<1> USE DEF memVars, mainVars, At, Go
<1>1. Holders' = Holders \cup {w} /\ w \notin Holders
  BY DEF PopJob, PoolInv, TypeOK, Holders
<1>2. Held' = Held \cup {Head(workQ)}
  <2>1. \A v \in Holders : wjob'[v] = wjob[v]
    BY <1>1 DEF PopJob, PoolInv, TypeOK, Holders
  <2>2. wjob'[w] = Head(workQ)
    BY DEF PopJob, PoolInv, TypeOK
  <2> QED BY <1>1, <2>1, <2>2 DEF Held
<1>3. Head(workQ) \notin Held
  <2>1. Head(workQ) \in Queued
    BY DequeueFacts DEF PopJob, PoolInv, TypeOK, Queued
  <2> QED BY <2>1 DEF PoolInv, OnePlace
<1>4. Cardinality(Held) < Cardinality(Workers)
  <2>1. IsFiniteSet(Holders) /\ Cardinality(Holders) < Cardinality(Workers)
    <3>1. Holders \subseteq Workers /\ Holders # Workers
      BY <1>1 DEF Holders
    <3> QED BY <3>1, ConstantsAssumption, FS_Subset, FS_CardinalityType
  <2>2. IsFiniteSet(Held) /\ Cardinality(Held) <= Cardinality(Holders)
    <3> DEFINE f == [v \in Holders |-> wjob[v]]
    <3>1. f \in Surjection(Holders, Held)
      <4>1. f \in [Holders -> Held] /\ \A x \in Held : \E v \in Holders : f[v] = x
        BY DEF Held
      <4> HIDE DEF f
      <4> QED BY <4>1, Fun_IsSurj
    <3>2. IsFiniteSet(Holders)
      BY <2>1
    <3> HIDE DEF f
    <3>3. /\ IsFiniteSet(Held)
          /\ Cardinality(Held) <= Cardinality(Holders)
          /\ Cardinality(Held) = Cardinality(Holders) <=> f \in Injection(Holders, Held)
      BY ONLY <3>1, <3>2, FS_Surjection
    <3> QED BY <3>3
  <2> QED BY <2>1, <2>2, FS_CardinalityType, WorkersFinite
<1>5. /\ workQ # <<>> /\ workQ' = Tail(workQ)
      /\ UNCHANGED <<doneQ, frames, heap>>
  BY DEF PopJob, Dequeue
<1>7. Service!Cardinality({wjob[v] : v \in Holders}) < Cardinality(Workers)
  BY <1>4 DEF Held, Service!Cardinality, Cardinality
<1>8. Head(workQ) \notin {wjob[v] : v \in Holders}
  BY <1>3 DEF Held
<1>9. {wjob[v] : v \in Holders}' = {wjob[v] : v \in Holders} \cup {Head(workQ)}
  BY <1>2 DEF Held
<1>10. UNCHANGED <<doneQ, frames, {j \in Jobs : heap[j] = "freed"},
                   {j \in Jobs : heap[j] = "leaked"}>>
  BY <1>5
<1> QED BY <1>5, <1>7, <1>8, <1>9, <1>10 DEF Service!Start

(* Submitting maps to the service when q_push queues the job. *)
LEMMA SubmitMaps ==
  ASSUME PoolInv, SubmitPush
  PROVE  \E j \in Jobs : Service!Submit(j)
<1>1. Holders' = Holders
  BY DEF SubmitPush, PushWork, PoolInv, TypeOK, Holders, Waiting
<1>2. mjob \in Outstanding /\ mjob \notin Queued \cup Held \cup Done \cup Completing
  BY ConstantsAssumption DEF SubmitPush, PoolInv, Control, OnePlace, Submitting
<1>3. mjob \notin Freed \cup Leaked
  BY <1>2 DEF Freed, Leaked, Outstanding
<1>4. mjob \notin Service!Known
  BY <1>2, <1>3, KnownMaps
<1>5. PICK j \in Jobs : j = mjob
  BY <1>2 DEF Outstanding
<1>6. Service!Submit(j)
  BY <1>1, <1>4, <1>5 DEF Service!Submit, SubmitPush, PushWork, Enqueue, memVars
<1> QED BY <1>6

(* Starting the pool again abandons what it had queued, and stutters when it
   had nothing queued. *)
LEMMA RestartMaps ==
  ASSUME PoolInv, NEW j \in Jobs, SubmitCount(j)
  PROVE  Service!Abandon \/ UNCHANGED Service!jobVars
<1>1. CASE inited
  <2>1. /\ Holders' = Holders /\ UNCHANGED <<workQ, doneQ, frames, wjob>>
        /\ heap[j] = "unallocated" /\ heap' = [heap EXCEPT ![j] = "live"]
    BY <1>1 DEF SubmitCount, Holders
  <2>2. Freed' = Freed /\ Leaked' = Leaked
    BY <2>1 DEF PoolInv, TypeOK, Freed, Leaked
  <2> QED BY <2>1, <2>2 DEF Service!jobVars, Freed, Leaked
<1>2. CASE ~inited
  <2>1. /\ doneQ = <<>> /\ doneQ' = <<>> /\ frames' = frames /\ workQ' = <<>>
        /\ Holders = {} /\ Holders' = {} /\ Submitting = {} /\ Held = {}
    BY <1>2 DEF SubmitCount, UserCode, PoolInv, Stopped, Control, Holders, Held, Submitting
  <2>2. /\ Freed' = Freed
        /\ Leaked' = Leaked \cup Queued
    <3>1. \A k \in Queued : heap[k] = "live" /\ k \in Jobs /\ k # j
      BY DEF SubmitCount, PoolInv, OnePlace, Outstanding
    <3>2. heap' = [k \in Jobs |-> IF k = j THEN "live"
                                  ELSE IF k \in Queued THEN "leaked" ELSE heap[k]]
      BY <1>2 DEF SubmitCount, Queued
    <3>3. heap[j] = "unallocated"
      BY DEF SubmitCount
    <3> QED BY <3>1, <3>2, <3>3 DEF Freed, Leaked
  <2>3. CASE workQ # <<>>
    BY <2>1, <2>2, <2>3
       DEF Service!Abandon, Service!Contents, Contents, Queued, Freed, Leaked
  <2>4. CASE workQ = <<>>
    <3>1. Queued = {}
      BY <2>4, EmptyFacts DEF Queued
    <3> QED BY <2>1, <2>2, <2>4, <3>1 DEF Service!jobVars, Freed, Leaked
  <2> QED BY <2>3, <2>4
<1> QED BY <1>1, <1>2

(* A worker's result joins the results that wait for the main thread. *)
LEMMA FinishMaps ==
  ASSUME PoolInv, NEW w \in Workers, PushDone(w)
  PROVE  \E j \in Jobs : Service!Finish(j)
<1> USE DEF memVars, At, Go
<1>1. w \in Holders /\ wjob[w] \in Held /\ wjob[w] \in Jobs
  BY DEF PushDone, PoolInv, TypeOK, Control, Holders, Held
<1>2. Holders' = Holders \ {w}
  BY DEF PushDone, PoolInv, TypeOK, Holders
<1>3. \A v \in Holders' : wjob'[v] = wjob[v] /\ wjob[v] # wjob[w]
  BY <1>1, <1>2 DEF PushDone, PoolInv, TypeOK, Holders, OnePlace
<1>4. Held' = Held \ {wjob[w]}
  BY <1>1, <1>2, <1>3 DEF Held
<1>5. PICK j \in Jobs : j = wjob[w]
  BY <1>1
<1>6. Service!Finish(j)
  BY <1>1, <1>4, <1>5 DEF Service!Finish, PushDone, Enqueue, Held
<1> QED BY <1>6

(* A completion starts with the oldest result. *)
LEMMA DeliverMaps ==
  ASSUME PoolInv, PollJob
  PROVE  Service!Deliver
<1>1. Holders' = Holders /\ UNCHANGED <<wjob, workQ, heap>>
  BY DEF PollJob, Holders, workerVars, memVars
<1> QED BY <1>1 DEF PollJob, Dequeue, Service!Deliver

(* The innermost completion returned. *)
LEMMA ReturnMaps ==
  ASSUME PoolInv, Settle
  PROVE  Service!Return
<1> DEFINE j == frames[Len(frames)]
<1>1. Holders' = Holders /\ UNCHANGED <<wjob, workQ, doneQ>>
  BY DEF Settle, Holders, workerVars
<1>2. j \in Jobs /\ j \in Outstanding /\ frames # <<>>
  BY FrontFacts DEF Settle, PoolInv, TypeOK, Control, OnePlace, Completing
<1>3. heap' = [heap EXCEPT ![j] = "freed"]
  BY DEF Settle
<1> HIDE DEF j
<1>4. Freed' = Freed \cup {j} /\ Leaked' = Leaked
  BY <1>2, <1>3 DEF PoolInv, TypeOK, Freed, Leaked, Outstanding
<1> QED BY <1>1, <1>2, <1>4 DEF j, Settle, Service!Return, Freed, Leaked

(* Every step of the pool is a step of the service, or none. *)
LEMMA StepMaps == PoolInv /\ [Next]_vars => [Service!JNext]_Service!jobVars
<1> SUFFICES ASSUME PoolInv, [Next]_vars PROVE [Service!JNext]_Service!jobVars
  OBVIOUS
<1> USE DEF poolVars, workerVars, memVars, mainVars, stopVars
<1>1. CASE UNCHANGED vars
  BY <1>1, QuietMaps DEF vars, Holders
<1>2. ASSUME NEW w \in Workers, WorkerStep(w) \/ SpuriousWakeup(w)
      PROVE  [Service!JNext]_Service!jobVars
  <2>1. CASE PopJob(w)
    BY <2>1, StartMaps DEF Service!JNext
  <2>2. CASE PushDone(w)
    BY <2>2, FinishMaps DEF Service!JNext
  <2>3. CASE PopExit(w) \/ PopCheck(w) \/ PopWait(w) \/ SpuriousWakeup(w) \/ Work(w)
    <3>1. /\ Holders' = Holders
          /\ UNCHANGED <<workQ, doneQ, frames, wjob, heap>>
      BY <2>3 DEF PopExit, PopCheck, PopWait, SpuriousWakeup, Work, At, Go,
                  PoolInv, TypeOK, Holders
    <3> QED BY <3>1, QuietMaps
  <2> QED BY <1>2, <2>1, <2>2, <2>3 DEF WorkerStep
<1>3. CASE SubmitPush
  BY <1>3, SubmitMaps DEF Service!JNext
<1>4. CASE PollJob
  BY <1>4, DeliverMaps DEF Service!JNext
<1>5. CASE Settle
  BY <1>5, ReturnMaps DEF Service!JNext
<1>6. ASSUME NEW j \in Jobs, SubmitCount(j) PROVE [Service!JNext]_Service!jobVars
  BY <1>6, RestartMaps DEF Service!JNext
<1>7. CASE Broadcast
  <2>1. Holders' = Holders /\ UNCHANGED <<workQ, doneQ, frames, wjob, heap>>
    BY <1>7 DEF Broadcast, PoolInv, TypeOK, Holders, Waiting
  <2> QED BY <2>1, QuietMaps
<1>8. CASE \/ PollCall \/ WaitCall \/ WaitTimeout \/ CallbackReturn
           \/ PollEmpty \/ ShutdownCall \/ Join
           \/ EntryReturn \/ LoopTest \/ LoopDecide
  <2>1. Holders' = Holders /\ UNCHANGED <<workQ, doneQ, frames, wjob, heap>>
    BY <1>8 DEF PollCall, WaitCall, WaitTimeout, CallbackReturn, PollEmpty,
         ShutdownCall, Join, EntryReturn, LoopTest, LoopDecide, Holders
  <2> QED BY <2>1, QuietMaps
<1> QED BY <1>1, <1>2, <1>3, <1>4, <1>5, <1>6, <1>7, <1>8
       DEF Next, MainStep, PollStep, Calls, Exited

(* Jobs start in submission order, results are delivered in the order they
   were pushed, each exactly once, for any number of jobs and workers. *)
THEOREM Refinement == Spec => ImplementsService
BY InitMaps, StepMaps, Invariance, PTL DEF Spec, ImplementsService, Service!JSpec

-----------------------------------------------------------------------------
(* Wakeups: no job waits for a sleeping worker *)

WakeInv == PoolInv /\ CheckedEmpty /\ NoSleepingOnWork

\* what the workers' states and the queue did in a step that only wakes workers
(* A set of workers that grows has more members. *)
LEMMA MoreAwake ==
  ASSUME PoolInv, NEW A, NEW B, A \subseteq B, B \subseteq Workers
  PROVE  /\ Cardinality(A) \in Nat /\ Cardinality(B) \in Nat
         /\ Cardinality(A) <= Cardinality(B)
         /\ B # A => Cardinality(A) < Cardinality(B)
<1>1. IsFiniteSet(A) /\ IsFiniteSet(B)
  BY ConstantsAssumption, FS_Subset
<1>2. Cardinality(A) \in Nat /\ Cardinality(B) \in Nat
  BY <1>1, FS_CardinalityType
<1>3. Cardinality(A) <= Cardinality(B) /\ (Cardinality(B) = Cardinality(A) => B = A)
  BY <1>1, FS_Subset
<1> QED BY <1>2, <1>3

(* A worker takes a job, and none sleeps on another. *)
LEMMA WakePopJob ==
  ASSUME WakeInv, NEW w \in Workers, PopJob(w)
  PROVE  CheckedEmpty' /\ NoSleepingOnWork'
<1> USE DEF At, Go
<1>1. /\ workQ \in Seq(Jobs) /\ workQ # <<>> /\ workQ' = Tail(workQ)
      /\ wpc[w] = "pop" /\ wpc' = [wpc EXCEPT ![w] = "work"]
      /\ \A v \in Workers : wpc[v] # "checked"
  BY DEF PopJob, Dequeue, WorkMutexFree, WakeInv, PoolInv, TypeOK
<1>2. Len(workQ') = Len(workQ) - 1 /\ Len(workQ) \in Nat
  BY <1>1
<1>3. /\ Waiting' = Waiting /\ Awake' = Awake \ {w} /\ w \in Awake
  BY <1>1 DEF WakeInv, PoolInv, TypeOK, Waiting, Awake
<1>4. /\ Cardinality(Awake') = Cardinality(Awake) - 1
      /\ Cardinality(Awake) \in Nat
  <2>1. IsFiniteSet(Awake)
    BY ConstantsAssumption, FS_Subset DEF Awake
  <2> QED BY <2>1, <1>3, FS_RemoveElement, FS_CardinalityType
<1>5. NoSleepingOnWork'
  BY <1>2, <1>3, <1>4 DEF WakeInv, NoSleepingOnWork
<1>6. CheckedEmpty'
  BY <1>1 DEF WakeInv, PoolInv, TypeOK, CheckedEmpty
<1> QED BY <1>5, <1>6

(* A job is pushed before the signal. *)
LEMMA WakeSubmitPush ==
  ASSUME WakeInv, SubmitPush
  PROVE  CheckedEmpty' /\ NoSleepingOnWork'
<1>1. /\ workQ \in Seq(Jobs) /\ workQ' = Append(workQ, mjob)
      /\ \A v \in Workers : wpc[v] # "checked"
      /\ mjob \in Jobs
  BY ConstantsAssumption
     DEF SubmitPush, PushWork, Enqueue, WorkMutexFree, WakeInv, PoolInv, TypeOK, Control
<1>2. Len(workQ') = Len(workQ) + 1 /\ Len(workQ) \in Nat
  BY <1>1
<1>3. CASE Waiting = {}
  <2>1. wpc' = wpc
    BY <1>3 DEF SubmitPush, PushWork
  <2> QED BY <1>1, <1>3, <2>1 DEF CheckedEmpty, NoSleepingOnWork, Waiting
<1>4. CASE Waiting # {}
  <2>1. PICK w \in Waiting : wpc' = [wpc EXCEPT ![w] = "pop"]
    BY <1>4 DEF SubmitPush, PushWork
  <2>2. Awake' = Awake \cup {w} /\ w \notin Awake
    BY <2>1 DEF WakeInv, PoolInv, TypeOK, Waiting, Awake
  <2>3. IsFiniteSet(Awake)
    BY ConstantsAssumption, FS_Subset DEF Awake
  <2>4. Cardinality(Awake') = Cardinality(Awake) + 1 /\ Cardinality(Awake) \in Nat
    BY <2>2, <2>3, FS_AddElement, FS_CardinalityType
  <2>5. NoSleepingOnWork'
    BY <1>2, <1>4, <2>4 DEF WakeInv, NoSleepingOnWork
  <2>6. CheckedEmpty'
    BY <1>1, <2>1 DEF WakeInv, PoolInv, TypeOK, CheckedEmpty, Waiting
  <2> QED BY <2>5, <2>6
<1> QED BY <1>3, <1>4

(* Steps that leave g_work alone and put no worker to sleep, or that find it
   empty. *)
LEMMA WakeOther ==
  ASSUME WakeInv, NEW w \in Workers,
         \/ PopExit(w) \/ PopCheck(w) \/ PopWait(w) \/ SpuriousWakeup(w)
         \/ Work(w) \/ PushDone(w)
  PROVE  CheckedEmpty' /\ NoSleepingOnWork'
<1> USE DEF At, Go, poolVars, WakeInv, PoolInv, TypeOK
<1>1. CASE PopExit(w) \/ PopCheck(w) \/ PopWait(w)
  <2>1. workQ = <<>> /\ workQ' = <<>>
    BY <1>1 DEF PopExit, PopCheck, PopWait, CheckedEmpty
  <2>2. Cardinality(Awake') \in Nat
    BY MoreAwake DEF Awake
  <2> QED BY <2>1, <2>2 DEF CheckedEmpty, NoSleepingOnWork
<1>2. CASE SpuriousWakeup(w) \/ Work(w) \/ PushDone(w)
  <2>1. /\ workQ' = workQ /\ Waiting' \subseteq Waiting
        /\ Awake \subseteq Awake' /\ Awake' \subseteq Workers
        /\ \A v \in Workers : wpc'[v] = "checked" => wpc[v] = "checked"
    BY <1>2 DEF SpuriousWakeup, Work, PushDone, Waiting, Awake
  <2>2. /\ Cardinality(Awake) \in Nat /\ Cardinality(Awake') \in Nat
        /\ Cardinality(Awake) <= Cardinality(Awake')
    BY <2>1, MoreAwake
  <2>3. NoSleepingOnWork'
    BY <2>1, <2>2 DEF NoSleepingOnWork
  <2> QED BY <2>1, <2>3 DEF CheckedEmpty
<1> QED BY <1>1, <1>2

(* Every step keeps it, *)
LEMMA WakeStep == WakeInv /\ [Next]_vars => WakeInv'
<1> SUFFICES ASSUME WakeInv, [Next]_vars PROVE CheckedEmpty' /\ NoSleepingOnWork'
  BY StepInv DEF WakeInv
<1> USE DEF poolVars, workerVars
<1>1. CASE UNCHANGED <<workQ, wpc>>
  BY <1>1 DEF WakeInv, CheckedEmpty, NoSleepingOnWork, Waiting, Awake
<1>2. ASSUME NEW w \in Workers, WorkerStep(w) \/ SpuriousWakeup(w)
      PROVE  CheckedEmpty' /\ NoSleepingOnWork'
  BY <1>2, WakePopJob, WakeOther DEF WorkerStep
<1>3. CASE SubmitPush
  BY <1>3, WakeSubmitPush
<1>4. CASE Broadcast
  <2>1. workQ' = workQ /\ Waiting' = {}
        /\ \A v \in Workers : wpc'[v] = "checked" => wpc[v] = "checked"
    BY <1>4 DEF Broadcast, Waiting, WakeInv, PoolInv, TypeOK
  <2> QED BY <2>1 DEF WakeInv, CheckedEmpty, NoSleepingOnWork
<1>5. ASSUME NEW j \in Jobs, SubmitCount(j), ~inited
      PROVE  CheckedEmpty' /\ NoSleepingOnWork'
  <2>1. workQ' = <<>> /\ Waiting' = {}
    BY <1>5 DEF SubmitCount, Waiting
  <2> QED BY <2>1 DEF CheckedEmpty, NoSleepingOnWork
<1>6. ASSUME NEW j \in Jobs, SubmitCount(j), inited
      PROVE  UNCHANGED <<workQ, wpc>>
  BY <1>6 DEF SubmitCount
<1>7. CASE \/ PollCall \/ WaitCall \/ WaitTimeout \/ CallbackReturn \/ PollJob
           \/ Settle \/ PollEmpty \/ ShutdownCall \/ Join
           \/ EntryReturn \/ LoopTest \/ LoopDecide
  BY <1>7, <1>1 DEF PollCall, WaitCall, WaitTimeout, CallbackReturn, PollJob,
         Settle, PollEmpty, ShutdownCall, Join, EntryReturn, LoopTest, LoopDecide
<1>8. CASE UNCHANGED vars
  BY <1>1, <1>8 DEF vars
<1> QED BY <1>1, <1>2, <1>3, <1>4, <1>5, <1>6, <1>7, <1>8
       DEF Next, MainStep, PollStep, Calls, Exited

(* and it holds in an empty pool. *)
LEMMA WakeInit == Init => WakeInv
<1> SUFFICES ASSUME Init PROVE CheckedEmpty /\ NoSleepingOnWork
  BY InitInv DEF WakeInv
<1>1. Waiting = {}
  BY DEF Init, Waiting
<1> QED BY <1>1 DEF Init, CheckedEmpty, NoSleepingOnWork

(* No job waits for a sleeping worker, for any number of jobs and workers. *)
THEOREM JobsFindWorkers == Spec => []NoSleepingOnWork
<1>1. WakeInv => NoSleepingOnWork
  BY DEF WakeInv
<1> QED BY <1>1, WakeInit, WakeStep, PTL DEF Spec
=============================================================================
