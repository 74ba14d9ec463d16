----------------------------- MODULE ThreadPool -----------------------------
(***************************************************************************)
(* runtime/src/thread_pool.c, POSIX build without TS_NEED_TIMERS: the two   *)
(* job queues, the worker threads, the main thread that submits jobs, runs  *)
(* their completions and drains the pool in ts_async_run, and shutdown.     *)
(*                                                                          *)
(* Granularity.  A critical section is one step, except that a worker which *)
(* found the queue empty keeps g_work.mu between its test of the shutdown   *)
(* flag and pthread_cond_wait: ts_thread_pool_shutdown does not take the    *)
(* mutex, so it can run in between.  g_done.mu needs no such step: whoever  *)
(* touches what it protects takes it.                                       *)
(*                                                                          *)
(* The main thread runs user code, which calls the pool; a completion is    *)
(* user code again, so polls nest.  frames holds the job of each completion *)
(* in progress, outermost first.                                            *)
(***************************************************************************)
EXTENDS Naturals, Sequences, FiniteSets

CONSTANTS Jobs,           \* TsJob objects a program may submit
          Workers,        \* g_workers
          NoJob,          \* NULL
          MaxShutdowns    \* bound: calls of ts_thread_pool_shutdown

ASSUME ConstantsAssumption ==
  /\ IsFiniteSet(Workers)
  /\ Workers # {}
  /\ NoJob \notin Jobs
  /\ MaxShutdowns \in Nat

VARIABLES
  workQ,      \* g_work, head first
  doneQ,      \* g_done, head first
  inflight,   \* g_inflight
  inited,     \* g_pool_inited
  shutdown,   \* g_pool_shutdown
  wpc,        \* where each worker thread is in worker_main / q_pop
  wjob,       \* the worker's local variable job
  heap,       \* allocation state of each TsJob
  ready,      \* jobs whose userdata holds what work() stored there
  mpc,        \* where the main thread is
  mjob,       \* the job the main thread is submitting
  frames,     \* completions in progress on the main thread
  drv,        \* where main() is in the program and in ts_async_run
  did,        \* ts_async_run's local variable did, as a truth value
  draining,   \* 0, or one more than the completions in progress when
              \* ts_thread_pool_shutdown called ts_completion_poll
  casts,      \* broadcasts that shutdown has still to send
  shutdowns,  \* calls of ts_thread_pool_shutdown so far (bounded)
  miscounted  \* a pool was started while completions of an earlier one were
              \* in progress (history)

poolVars == <<workQ, doneQ, inflight, inited, shutdown>>
workerVars == <<wpc, wjob>>
memVars == <<heap, ready>>
mainVars == <<mpc, mjob, frames, drv, did>>
stopVars == <<draining, casts, shutdowns, miscounted>>
vars == <<poolVars, workerVars, memVars, mainVars, stopVars>>

WorkerPC == {"none", "pop", "checked", "waiting", "work", "push", "exit"}
MainPC == {"user", "push", "poll", "settle", "waiting", "cast", "join"}
DriverPC == {"code", "test", "decide", "last", "exit"}

TypeOK ==
  /\ workQ \in Seq(Jobs)
  /\ doneQ \in Seq(Jobs)
  /\ inflight \in Nat
  /\ inited \in BOOLEAN
  /\ shutdown \in BOOLEAN
  /\ wpc \in [Workers -> WorkerPC]
  /\ wjob \in [Workers -> Jobs \cup {NoJob}]
  /\ heap \in [Jobs -> {"unallocated", "live", "freed", "leaked"}]
  /\ ready \subseteq Jobs
  /\ mpc \in MainPC
  /\ mjob \in Jobs \cup {NoJob}
  /\ frames \in Seq(Jobs)
  /\ drv \in DriverPC
  /\ did \in BOOLEAN
  /\ draining \in Nat
  /\ casts \in 0..Cardinality(Workers)
  /\ shutdowns \in 0..MaxShutdowns
  /\ miscounted \in BOOLEAN

Init ==
  /\ workQ = <<>>
  /\ doneQ = <<>>
  /\ inflight = 0
  /\ inited = FALSE
  /\ shutdown = FALSE
  /\ wpc = [w \in Workers |-> "none"]
  /\ wjob = [w \in Workers |-> NoJob]
  /\ heap = [j \in Jobs |-> "unallocated"]
  /\ ready = {}
  /\ mpc = "user"
  /\ mjob = NoJob
  /\ frames = <<>>
  /\ drv = "code"
  /\ did = FALSE
  /\ draining = 0
  /\ casts = 0
  /\ shutdowns = 0
  /\ miscounted = FALSE

-----------------------------------------------------------------------------
(* Queues *)

Contents(s) == {s[i] : i \in 1..Len(s)}

Waiting == {w \in Workers : wpc[w] = "waiting"}

\* g_work.mu is held across steps only by a worker about to wait
WorkMutexFree == \A w \in Workers : wpc[w] # "checked"

EnqueueAtHead(q, j) == <<j>> \o q      \* faulty: last in, first out
Enqueue(q, j) == Append(q, j)

DequeueKeepsHead(q) == q               \* faulty: q->head = job->next is missing
Dequeue(q) == Tail(q)

\* faulty: signals only when the queue was empty
PushWorkSignalsOnce(j) ==
  /\ workQ' = Enqueue(workQ, j)
  /\ IF Waiting = {} \/ workQ # <<>>
       THEN wpc' = wpc
       ELSE \E w \in Waiting : wpc' = [wpc EXCEPT ![w] = "pop"]

\* faulty: no pthread_cond_signal
PushWorkSilently(j) == workQ' = Enqueue(workQ, j) /\ wpc' = wpc

\* q_push(&g_work, j), whose pthread_cond_signal wakes one waiting worker
PushWork(j) ==
  /\ workQ' = Enqueue(workQ, j)
  /\ IF Waiting = {}
       THEN wpc' = wpc
       ELSE \E w \in Waiting : wpc' = [wpc EXCEPT ![w] = "pop"]

JobsPendingResults == inited /\ doneQ # <<>>   \* faulty: forgets jobs in progress
JobsPending == inited /\ inflight > 0

-----------------------------------------------------------------------------
(* Worker threads: worker_main and the timeout_ms < 0 branch of q_pop.
   They end with the process. *)

At(w, pc) == drv # "exit" /\ wpc[w] = pc
Go(w, pc) == wpc' = [wpc EXCEPT ![w] = pc]

PopJob(w) ==
  /\ At(w, "pop") /\ WorkMutexFree
  /\ workQ # <<>>
  /\ wjob' = [wjob EXCEPT ![w] = Head(workQ)]
  /\ workQ' = Dequeue(workQ)
  /\ Go(w, "work")
  /\ UNCHANGED <<doneQ, inflight, inited, shutdown, memVars, mainVars, stopVars>>

\* the queue is empty and the flag is set: q_pop returns NULL, the thread ends
PopExit(w) ==
  /\ At(w, "pop") /\ WorkMutexFree
  /\ workQ = <<>>
  /\ shutdown
  /\ Go(w, "exit")
  /\ UNCHANGED <<poolVars, wjob, memVars, mainVars, stopVars>>

PopCheck(w) ==
  /\ At(w, "pop") /\ WorkMutexFree
  /\ workQ = <<>>
  /\ ~shutdown
  /\ Go(w, "checked")
  /\ UNCHANGED <<poolVars, wjob, memVars, mainVars, stopVars>>

PopWait(w) ==
  /\ At(w, "checked")
  /\ Go(w, "waiting")
  /\ UNCHANGED <<poolVars, wjob, memVars, mainVars, stopVars>>

SpuriousWakeup(w) ==
  /\ At(w, "waiting")
  /\ Go(w, "pop")
  /\ UNCHANGED <<poolVars, wjob, memVars, mainVars, stopVars>>

Work(w) ==
  /\ At(w, "work")
  /\ ready' = ready \cup {wjob[w]}
  /\ Go(w, "push")
  /\ UNCHANGED <<poolVars, wjob, heap, mainVars, stopVars>>

\* q_push(&g_done, job): the signal ends the main thread's timed wait
PushDone(w) ==
  /\ At(w, "push")
  /\ doneQ' = Enqueue(doneQ, wjob[w])
  /\ wjob' = [wjob EXCEPT ![w] = NoJob]
  /\ mpc' = IF mpc = "waiting" THEN "user" ELSE mpc
  /\ Go(w, "pop")
  /\ UNCHANGED <<workQ, inflight, inited, shutdown, memVars,
                 mjob, frames, drv, did, stopVars>>

WorkerStep(w) ==
  \/ PopJob(w) \/ PopExit(w) \/ PopCheck(w) \/ PopWait(w)
  \/ Work(w) \/ PushDone(w)

-----------------------------------------------------------------------------
(* The main thread: the calls user code makes *)

UserCode == mpc = "user" /\ (drv = "code" \/ frames # <<>>)

\* ts_thread_pool_submit up to its q_push; starts the pool when it is down, and a
\* pool that starts forgets whatever an earlier one had queued, and that the
\* completions in progress are still to be counted down
SubmitCount(j) ==
  /\ UserCode
  /\ heap[j] = "unallocated"
  /\ inited' = TRUE
  /\ IF inited
       THEN /\ inflight' = inflight + 1
            /\ heap' = [heap EXCEPT ![j] = "live"]
            /\ UNCHANGED <<workQ, doneQ, shutdown, wpc>>
       ELSE /\ inflight' = 1
            /\ workQ' = <<>>
            /\ doneQ' = <<>>
            /\ shutdown' = FALSE
            /\ wpc' = [w \in Workers |-> "pop"]
            /\ heap' = [k \in Jobs |-> IF k = j THEN "live"
                                       ELSE IF k \in Contents(workQ) THEN "leaked"
                                       ELSE heap[k]]
  /\ miscounted' = (miscounted \/ (~inited /\ frames # <<>>))
  /\ mjob' = j
  /\ mpc' = "push"
  /\ UNCHANGED <<wjob, ready, frames, drv, did, draining, casts, shutdowns>>

SubmitPush ==
  /\ mpc = "push" /\ WorkMutexFree
  /\ PushWork(mjob)
  /\ mjob' = NoJob
  /\ mpc' = "user"
  /\ UNCHANGED <<doneQ, inflight, inited, shutdown, wjob, memVars,
                 frames, drv, did, stopVars>>

\* user code polls, as ts_await does
PollCall ==
  /\ UserCode
  /\ mpc' = "poll"
  /\ UNCHANGED <<poolVars, workerVars, memVars, mjob, frames, drv, did, stopVars>>

\* ts_completion_wait sleeps only if there is something to wait for
WaitCall ==
  /\ UserCode
  /\ JobsPending /\ doneQ = <<>>
  /\ mpc' = "waiting"
  /\ UNCHANGED <<poolVars, workerVars, memVars, mjob, frames, drv, did, stopVars>>

WaitTimeout ==
  /\ mpc = "waiting"
  /\ mpc' = "user"
  /\ UNCHANGED <<poolVars, workerVars, memVars, mjob, frames, drv, did, stopVars>>

-----------------------------------------------------------------------------
(* ts_completion_poll *)

PollJob ==
  /\ mpc = "poll"
  /\ inited /\ doneQ # <<>>
  /\ frames' = Append(frames, Head(doneQ))
  /\ doneQ' = Dequeue(doneQ)
  /\ mpc' = "user"
  /\ UNCHANGED <<workQ, inflight, inited, shutdown, workerVars, memVars,
                 mjob, drv, did, stopVars>>

CallbackReturn ==
  /\ mpc = "user"
  /\ frames # <<>>
  /\ mpc' = "settle"
  /\ UNCHANGED <<poolVars, workerVars, memVars, mjob, frames, drv, did, stopVars>>

\* faulty: g_inflight is left alone
SettleUncounted ==
  /\ mpc = "settle"
  /\ heap' = [heap EXCEPT ![frames[Len(frames)]] = "freed"]
  /\ frames' = SubSeq(frames, 1, Len(frames) - 1)
  /\ did' = (did \/ Len(frames) = 1)
  /\ mpc' = "poll"
  /\ UNCHANGED <<poolVars, workerVars, ready, mjob, drv, stopVars>>

\* g_inflight-- under g_done.mu, free(job), n++
Settle ==
  /\ mpc = "settle"
  /\ inflight' = IF inflight > 0 THEN inflight - 1 ELSE inflight
  /\ heap' = [heap EXCEPT ![frames[Len(frames)]] = "freed"]
  /\ frames' = SubSeq(frames, 1, Len(frames) - 1)
  /\ did' = (did \/ Len(frames) = 1)
  /\ mpc' = "poll"
  /\ UNCHANGED <<workQ, doneQ, inited, shutdown, workerVars, ready, mjob, drv, stopVars>>

\* nothing to pop: return to the caller, which is user code, ts_async_run
\* (whose last poll ends the program) or ts_thread_pool_shutdown
PollEmpty ==
  /\ mpc = "poll"
  /\ ~inited \/ doneQ = <<>>
  /\ mpc' = "user"
  /\ drv' = IF frames = <<>> /\ drv = "last" THEN "exit" ELSE drv
  /\ IF draining = Len(frames) + 1
       THEN inited' = FALSE /\ draining' = 0
       ELSE UNCHANGED <<inited, draining>>
  /\ UNCHANGED <<workQ, doneQ, inflight, shutdown, workerVars, memVars,
                 mjob, frames, did, casts, shutdowns, miscounted>>

-----------------------------------------------------------------------------
(* ts_thread_pool_shutdown: flag and broadcasts without the mutex, join,
   drain, g_pool_inited = 0.  A completion may call it, and the drain is then a
   nested poll.  Not modelled: a call out of a completion that the drain itself
   runs, which joins threads that were joined (undefined behaviour). *)

ShutdownCall ==
  /\ UserCode
  /\ inited
  /\ draining = 0
  /\ shutdowns < MaxShutdowns
  /\ shutdowns' = shutdowns + 1
  /\ shutdown' = TRUE
  /\ casts' = Cardinality(Workers)
  /\ mpc' = "cast"
  /\ UNCHANGED <<workQ, doneQ, inflight, inited, workerVars, memVars,
                 mjob, frames, drv, did, draining, miscounted>>

\* faulty: one broadcast too many (i <= TS_POOL_WORKERS)
BroadcastTooOften ==
  /\ mpc = "cast"
  /\ wpc' = [w \in Workers |-> IF w \in Waiting THEN "pop" ELSE wpc[w]]
  /\ casts' = casts - 1
  /\ mpc' = IF casts = 0 THEN "join" ELSE "cast"
  /\ UNCHANGED <<poolVars, wjob, memVars, mjob, frames, drv, did,
                 draining, shutdowns, miscounted>>

Broadcast ==
  /\ mpc = "cast"
  /\ wpc' = [w \in Workers |-> IF w \in Waiting THEN "pop" ELSE wpc[w]]
  /\ casts' = casts - 1
  /\ mpc' = IF casts = 1 THEN "join" ELSE "cast"
  /\ UNCHANGED <<poolVars, wjob, memVars, mjob, frames, drv, did,
                 draining, shutdowns, miscounted>>

Join ==
  /\ mpc = "join"
  /\ \A w \in Workers : wpc[w] = "exit"
  /\ draining' = Len(frames) + 1
  /\ mpc' = "poll"
  /\ UNCHANGED <<poolVars, workerVars, memVars, mjob, frames, drv, did,
                 casts, shutdowns, miscounted>>

-----------------------------------------------------------------------------
(* main() after the entry function: ts_async_run with the timer stubs *)

EntryReturn ==
  /\ UserCode
  /\ frames = <<>>
  /\ drv' = "test"
  /\ UNCHANGED <<poolVars, workerVars, memVars, mpc, mjob, frames, did, stopVars>>

Driver(pc) == mpc = "user" /\ frames = <<>> /\ drv = pc

LoopTest ==
  /\ Driver("test")
  /\ drv' = IF JobsPending THEN "decide" ELSE "last"
  /\ did' = FALSE
  /\ mpc' = "poll"
  /\ UNCHANGED <<poolVars, workerVars, memVars, mjob, frames, stopVars>>

\* another round, a wait of 50 ms first if this one did nothing, or the end
LoopDecide ==
  /\ Driver("decide")
  /\ IF did \/ JobsPending
       THEN /\ drv' = "test"
            /\ mpc' = IF ~did /\ doneQ = <<>> THEN "waiting" ELSE "user"
       ELSE /\ drv' = "last"
            /\ mpc' = "poll"
  /\ UNCHANGED <<poolVars, workerVars, memVars, mjob, frames, did, stopVars>>

\* main() returned: the process is gone
Exited == drv = "exit" /\ UNCHANGED vars

-----------------------------------------------------------------------------

PollStep == PollJob \/ Settle \/ PollEmpty

MainStep ==
  \/ SubmitPush
  \/ WaitTimeout
  \/ PollStep
  \/ Broadcast \/ Join
  \/ LoopTest \/ LoopDecide

Calls ==
  \/ \E j \in Jobs : SubmitCount(j)
  \/ PollCall \/ WaitCall
  \/ ShutdownCall

Next ==
  \/ \E w \in Workers : WorkerStep(w) \/ SpuriousWakeup(w)
  \/ MainStep
  \/ Calls
  \/ CallbackReturn
  \/ EntryReturn
  \/ Exited

\* The operating system runs every thread and grants a mutex that is free again
\* and again, work() returns, and user code is not an endless loop: it returns
\* if it can return again and again.
Fairness ==
  /\ \A w \in Workers : SF_vars(WorkerStep(w))
  /\ SF_vars(MainStep)
  /\ SF_vars(CallbackReturn)
  /\ SF_vars(EntryReturn)

Spec == Init /\ [][Next]_vars /\ Fairness

-----------------------------------------------------------------------------
(* Safety *)

Outstanding == {j \in Jobs : heap[j] = "live"}

Holders == {w \in Workers : wpc[w] \in {"work", "push"}}

NoDuplicates(s) == \A i, k \in 1..Len(s) : s[i] = s[k] => i = k

Submitting == {mjob} \ {NoJob}
Queued == Contents(workQ)
Held == {wjob[w] : w \in Holders}
Done == Contents(doneQ)
Completing == Contents(frames)

(* A completion reads userdata only after work() has stored it: worker_main
   calls work() before it pushes the job to g_done. *)
CompleteAfterWork == Done \cup Completing \subseteq ready

(* A job the program submitted and whose completion has not returned is in
   exactly one place: on its way into g_work, queued, with one worker, in
   g_done, or in one completion on the main thread; a freed or leaked job is in
   none, and a job in g_done or completing has been worked on (submit, q_push,
   q_pop, worker_main, ts_completion_poll: no job is lost, run twice, completed
   early, completed twice or used after free). *)
OnePlace ==
  /\ NoDuplicates(workQ) /\ NoDuplicates(doneQ) /\ NoDuplicates(frames)
  /\ \A v, w \in Holders : wjob[v] = wjob[w] => v = w
  /\ Submitting \cap (Queued \cup Held \cup Done \cup Completing) = {}
  /\ Queued \cap (Held \cup Done \cup Completing) = {}
  /\ Held \cap (Done \cup Completing) = {}
  /\ Done \cap Completing = {}
  /\ Outstanding = Submitting \cup Queued \cup Held \cup Done \cup Completing
  /\ CompleteAfterWork

Awake == {w \in Workers : wpc[w] = "pop"}

(* While jobs are queued and a worker sleeps in q_pop, at least as many
   workers are awake and about to pop as there are jobs: no job waits for a
   sleeping worker although q_push signals only once per job. *)
NoSleepingOnWork == Waiting # {} => Len(workQ) <= Cardinality(Awake)

(* g_inflight never counts more than the jobs submitted and not yet completed,
   and counts exactly those, also while completions nest and after a restart, so
   that ts_jobs_pending is exact.  The exception: a completion that shut the pool
   down and submits starts a pool at 0, and is then counted down itself; from
   then on g_inflight is too low. *)
InflightExact ==
  /\ inflight <= Cardinality(Outstanding)
  /\ miscounted \/ inflight = Cardinality(Outstanding)

(* ts_async_run returns to main() only when no job is outstanding.  Two exceptions:
   the pool is down (ts_jobs_pending is 0 then, and what a shutdown left in g_work
   never runs), or was started inside a completion, and g_inflight is too low. *)
ExitOnlyWhenDrained == drv = "exit" => ~inited \/ miscounted \/ Outstanding = {}

-----------------------------------------------------------------------------
(* The inductive invariant behind the safety properties *)

\* which local variables are set at which program counters
Control ==
  /\ \A w \in Workers : wjob[w] # NoJob <=> w \in Holders
  /\ mjob # NoJob <=> mpc = "push"
  /\ mpc = "push" => inited
  /\ mpc = "settle" => frames # <<>>
  /\ mpc = "cast" => casts > 0
  /\ mpc \in {"cast", "join"} => inited /\ draining = 0
  /\ drv = "exit" => mpc = "user"

\* what shutdown leaves behind
Stopped ==
  /\ draining > 0 => inited /\ draining <= Len(frames) + 1 /\ \A w \in Workers : wpc[w] = "exit"
  /\ draining = Len(frames) + 1 => mpc = "poll"
  /\ ~inited => doneQ = <<>> /\ \A w \in Workers : wpc[w] \in {"none", "exit"}

\* ts_async_run left its loop because no job was in flight, or none was counted
LoopLeft ==
  /\ drv = "exit" => frames = <<>>
  /\ drv \in {"last", "exit"} /\ ~miscounted =>
       frames = <<>> /\ mpc \in {"poll", "user"} /\ (inited => inflight = 0)

\* the worker that holds g_work.mu before its wait still sees an empty queue
CheckedEmpty == (\E w \in Workers : wpc[w] = "checked") => workQ = <<>>

ResultStored == \A w \in Workers : wpc[w] = "push" => wjob[w] \in ready

PoolInv ==
  /\ TypeOK
  /\ Control
  /\ Stopped
  /\ LoopLeft
  /\ OnePlace
  /\ IsFiniteSet(Outstanding) /\ InflightExact
  /\ ResultStored
  /\ CompleteAfterWork

-----------------------------------------------------------------------------
(* Liveness *)

(* Every submitted job's completion runs and returns, unless the program shuts
   the pool down: queue, worker, timed wait and nested polls never lose it. *)
EveryJobCompletes ==
  \A j \in Jobs : heap[j] = "live" ~> heap[j] = "freed" \/ shutdowns > 0

(* "Wake all workers" (thread_pool.c, ts_thread_pool_shutdown): after the
   broadcasts every worker ends and pthread_join returns. *)
ShutdownReturns == mpc = "join" ~> mpc # "join"

-----------------------------------------------------------------------------
(* The pool implements the job service *)

Service == INSTANCE JobService WITH
  Parallelism <- Cardinality(Workers),
  queue <- workQ,
  running <- {wjob[w] : w \in Holders},
  finished <- doneQ,
  delivering <- frames,
  delivered <- {j \in Jobs : heap[j] = "freed"},
  abandoned <- {j \in Jobs : heap[j] = "leaked"}

(* Jobs start in submission order, results are delivered on the main thread in
   the order they were pushed, each exactly once, nested like calls; only the
   restart of a pool abandons jobs. *)
ImplementsService == Service!JSpec
=============================================================================
