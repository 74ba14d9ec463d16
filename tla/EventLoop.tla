------------------------------ MODULE EventLoop ------------------------------
(***************************************************************************)
(* How the main thread of a compiled program waits: the loop main() ends    *)
(* with (generateMain in src/driver/compiler.ts), ts_async_run, and         *)
(* ts_await, all three of which poll timers and completed jobs and run the  *)
(* callbacks they find on the spot.                                         *)
(*                                                                          *)
(* The pool is the job service that ThreadPool implements.  Of a timer only *)
(* its state matters here, so only timeouts are modelled and time is the    *)
(* step that makes one due.  stack is the C stack of the main thread.  A    *)
(* callback first settles the promise of its activity, as the completions   *)
(* of node_fs.c and setTimeout(resolve) do, and then runs user code.        *)
(* Nothing clears a timeout here, and the timer a traversal reads after its *)
(* callback awaited, which may be freed (Timers), is taken to read inactive.*)
(***************************************************************************)
EXTENDS JobService

CONSTANTS Timers,        \* timeouts a program may set
          Events,        \* messages and requests other threads or peers may send
          Orphans,       \* promises nobody will settle
          Nobody,
          MaxDepth       \* bound: frames on the stack

ASSUME EventLoopAssumption ==
  /\ Jobs \cap (Timers \cup Events \cup Orphans) = {} /\ Timers \cap (Events \cup Orphans) = {}
  /\ Nobody \notin Jobs \cup Timers
  /\ MaxDepth \in Nat

VARIABLES
  careful,   \* timer callbacks submit no job if the loop is ts_async_run, and a
             \* callback awaits no orphan and catches what is thrown in it,
             \* also by an await of a rejected promise (rigid)
  cut,       \* jobs whose completion a throw has left: never counted down
  loop,      \* which loop main() has (never changes): "server" with HTTP,
             \* "sockets" with WebSockets or workers, else "async"
  timer,     \* state of each timeout
  sent,      \* events whose callback was called
  open,      \* sockets or workers keep the loop alive
  settled,   \* promises that are no longer pending
  stack      \* frames of the main thread, innermost last

loopVars == <<careful, cut, loop, timer, sent, open, settled, stack>>
vars == <<jobVars, loopVars>>

Promises == Jobs \cup Timers \cup Orphans

\* kind: which function; of: the callback's activity or the promise awaited;
\* at: where it is; did: what the polls it called have done; ahead: the timers
\* the traversal has still to reach
FramesOf(kinds, places) ==
  [kind : kinds, of : Promises \cup Events \cup {Nobody}, at : places,
   did : BOOLEAN, ahead : SUBSET Timers]

Frames ==
  FramesOf({"main"}, {"code", "start", "timersDone", "jobsDone", "run", "last", "exit"})
    \cup FramesOf({"await"}, {"start", "timersDone", "jobsDone"})
    \cup FramesOf({"timers", "jobs", "call"}, {"start"})

Frame(kind, of, at, ahead) ==
  [kind |-> kind, of |-> of, at |-> at, did |-> FALSE, ahead |-> ahead]

TypeOK ==
  /\ careful \in BOOLEAN
  /\ cut \subseteq Jobs
  /\ loop \in {"server", "sockets", "async"}
  /\ timer \in [Timers -> {"unset", "armed", "due", "fired"}]
  /\ sent \subseteq Events
  /\ open \in BOOLEAN
  /\ settled \subseteq Promises
  /\ stack \in Seq(Frames) /\ stack # <<>>
  /\ delivering \in Seq(Jobs)

Init ==
  /\ JInit
  /\ careful \in BOOLEAN
  /\ cut = {}
  /\ timer = [t \in Timers |-> "unset"]
  /\ sent = {}
  /\ loop \in {"server", "sockets", "async"}
  /\ open = (loop # "async")
  /\ settled = {}
  /\ stack = <<Frame("main", Nobody, "code", {})>>

Depth == Len(stack)
Top == stack[Depth]
TopIs(kind, at) == Top.kind = kind /\ Top.at = at

Push(s, frame) == Append(s, frame)
Moved(at) == [stack EXCEPT ![Depth].at = at]

\* return to the caller, which learns whether this poll did anything
Returned(did) ==
  [SubSeq(stack, 1, Depth - 1) EXCEPT ![Depth - 1].did = @ \/ did]

-----------------------------------------------------------------------------
JobsPending == cut # {} \/ Known # delivered \cup abandoned
Armed == {t \in Timers : timer[t] \in {"armed", "due"}}
Due == {t \in Timers : timer[t] = "due"}
TimersPending == Armed # {}

AsyncPending == JobsPending \/ TimersPending

PoolStep ==
  /\ Top.at # "exit"
  /\ Start \/ \E j \in Jobs : Finish(j)
  /\ UNCHANGED loopVars

TimePasses(t) ==
  /\ Top.at # "exit"
  /\ timer[t] = "armed"
  /\ timer' = [timer EXCEPT ![t] = "due"]
  /\ UNCHANGED <<jobVars, careful, cut, loop, sent, open, settled, stack>>

\* the last socket is closed, the last worker ends
Close ==
  /\ Top.at # "exit" /\ open
  /\ open' = FALSE
  /\ UNCHANGED <<jobVars, careful, cut, loop, timer, sent, settled, stack>>

-----------------------------------------------------------------------------
(* User code: the entry function or a callback *)

UserCode == Top.kind = "call" \/ TopIs("main", "code")

JobCalls == {i \in 1..Depth : stack[i].kind = "call" /\ stack[i].of \in Jobs}

InTimer == \E i \in 1..Depth : stack[i].kind = "call" /\ stack[i].of \in Timers

SubmitJob(j) ==
  /\ UserCode
  /\ ~careful \/ loop # "async" \/ ~InTimer
  /\ j \notin cut
  /\ Submit(j)
  /\ UNCHANGED loopVars

SetTimeout(t) ==
  /\ UserCode
  /\ timer[t] = "unset"
  /\ timer' = [timer EXCEPT ![t] = "armed"]
  /\ UNCHANGED <<jobVars, careful, cut, loop, sent, open, settled, stack>>

\* a promise user code can have and that is still pending
Awaitable ==
  ((Known \cup Armed) \ settled)
    \cup (IF ~careful \/ Depth = 1 THEN Orphans ELSE {})

Await(p) ==
  /\ UserCode
  /\ p \in Awaitable
  /\ Depth < MaxDepth
  /\ stack' = Push(stack, Frame("await", p, "start", {}))
  /\ UNCHANGED <<jobVars, careful, cut, loop, timer, sent, open, settled>>

\* TS_THROW by a callback, or by ts_await if its promise was rejected: longjmp to
\* a try statement further out, in another callback or in main(), whose catch
\* clause is code of the program too.  What the frames above it had still to do is
\* not done.  (Whether a promise was rejected is not kept: an await whose throw
\* the awaiting code catches goes on like one that returned.)
Throw ==
  /\ ~careful
  /\ Top.kind = "call" \/ (Top.kind = "await" /\ Top.of \in settled)
  /\ \E i \in 1..Depth - 1 :
       /\ i = 1 \/ stack[i].kind = "call"
       /\ stack' = IF i = 1 THEN <<[stack[1] EXCEPT !.at = "code"]>>
                   ELSE SubSeq(stack, 1, i)
       /\ delivering' = SubSeq(delivering, 1, Cardinality({k \in JobCalls : k <= i}))
       /\ cut' = cut \cup {stack[k].of : k \in {m \in JobCalls : m > i}}
  /\ UNCHANGED <<queue, running, finished, delivered, abandoned,
                 careful, loop, timer, sent, open, settled>>

CallReturn ==
  /\ Top.kind = "call"
  /\ stack' = Returned(TRUE)
  /\ IF Top.of \in Jobs THEN Return ELSE UNCHANGED jobVars
  /\ UNCHANGED <<careful, cut, loop, timer, sent, open, settled>>

-----------------------------------------------------------------------------
(* The two polls *)

TimersPoll == Frame("timers", Nobody, "start", Due)
JobsPoll == Frame("jobs", Nobody, "start", {})

\* ts_timers_poll calls a timer that is due and still active
Fire ==
  /\ TopIs("timers", "start")
  /\ \E t \in Top.ahead \cap Due :
       /\ timer' = [timer EXCEPT ![t] = "fired"]
       /\ settled' = settled \cup {t}
       /\ stack' = Push(stack, Frame("call", t, "start", {}))
  /\ UNCHANGED <<jobVars, careful, cut, loop, sent, open>>

TimersReturn ==
  /\ TopIs("timers", "start")
  /\ Top.ahead \cap Due = {}
  /\ stack' = Returned(Top.did)
  /\ UNCHANGED <<jobVars, careful, cut, loop, timer, sent, open, settled>>

\* ts_completion_poll pops a job and calls its completion
Complete ==
  /\ TopIs("jobs", "start")
  /\ Deliver
  /\ settled' = settled \cup {Head(finished)}
  /\ stack' = Push(stack, Frame("call", Head(finished), "start", {}))
  /\ UNCHANGED <<careful, cut, loop, timer, sent, open>>

JobsReturn ==
  /\ TopIs("jobs", "start")
  /\ finished = <<>>
  /\ stack' = Returned(Top.did)
  /\ UNCHANGED <<jobVars, careful, cut, loop, timer, sent, open, settled>>

PollStep == Fire \/ TimersReturn \/ Complete \/ JobsReturn

-----------------------------------------------------------------------------
(* ts_await *)

Unsettled == Top.of \notin settled

\* the test of the loop, then the timers if there are any
AwaitTimers ==
  /\ TopIs("await", "start") /\ Unsettled
  /\ LET next == [stack EXCEPT ![Depth].at = "timersDone", ![Depth].did = FALSE]
     IN stack' = IF TimersPending THEN Push(next, TimersPoll) ELSE next
  /\ UNCHANGED <<jobVars, careful, cut, loop, timer, sent, open, settled>>

\* faulty: polls timers only
AwaitSkipsJobs ==
  /\ TopIs("await", "timersDone") /\ Unsettled
  /\ stack' = Moved("jobsDone")
  /\ UNCHANGED <<jobVars, careful, cut, loop, timer, sent, open, settled>>

AwaitJobs ==
  /\ TopIs("await", "timersDone") /\ Unsettled
  /\ stack' = Push(Moved("jobsDone"), JobsPoll)
  /\ UNCHANGED <<jobVars, careful, cut, loop, timer, sent, open, settled>>

\* faulty: gives up although jobs are in flight
HopelessIdle == ~Top.did /\ ~TimersPending
\* faulty: never gives up
HopelessNever == FALSE
\* "Nothing will settle this promise"
Hopeless == ~Top.did /\ ~JobsPending /\ ~TimersPending

\* round again; a round that did nothing first waits 50 ms for a job or polls
\* the timers once more
AwaitAgain ==
  /\ TopIs("await", "jobsDone") /\ Unsettled
  /\ ~Hopeless
  /\ stack' = IF ~Top.did /\ ~JobsPending
                THEN Push(Moved("start"), TimersPoll)
                ELSE Moved("start")
  /\ UNCHANGED <<jobVars, careful, cut, loop, timer, sent, open, settled>>

\* with the result, with undefined, or with a throw that the awaiting code catches
AwaitReturn ==
  /\ Top.kind = "await"
  /\ ~Unsettled \/ (Top.at = "jobsDone" /\ Hopeless)
  /\ stack' = Returned(FALSE)
  /\ UNCHANGED <<jobVars, careful, cut, loop, timer, sent, open, settled>>

AwaitStep == AwaitTimers \/ AwaitJobs \/ AwaitAgain \/ AwaitReturn

-----------------------------------------------------------------------------
(* main() after the entry function *)

EntryReturn ==
  /\ TopIs("main", "code")
  /\ stack' = Moved("start")
  /\ UNCHANGED <<jobVars, careful, cut, loop, timer, sent, open, settled>>

Main(at) == TopIs("main", at)
Goto(at) == [stack EXCEPT ![1].at = at, ![1].did = FALSE]

\* if (ts_timers_pending()) ts_timers_poll();
ServerTimers ==
  stack' = IF TimersPending THEN Push(Goto("timersDone"), TimersPoll)
           ELSE Goto("timersDone")

ServerJobs == stack' = Push(Goto("start"), JobsPoll)

\* node_http_server_poll, ts_websocket_poll, ts_worker_poll: external; one may
\* run the callback of an event
ServerEvent(e) ==
  /\ loop # "async" /\ Main("start")
  /\ e \notin sent /\ open
  /\ sent' = sent \cup {e}
  /\ stack' = Push(stack, Frame("call", e, "start", {}))
  /\ UNCHANGED <<jobVars, careful, cut, loop, timer, open, settled>>

\* for (;;), or while (sockets, workers or asynchronous work are pending)
ServerRound ==
  /\ loop # "async"
  /\ \/ /\ Main("start")
        /\ IF loop = "server" \/ open \/ AsyncPending
             THEN ServerTimers
             ELSE stack' = Goto("exit")
     \/ Main("timersDone") /\ ServerJobs
  /\ UNCHANGED <<jobVars, careful, cut, loop, timer, sent, open, settled>>

\* faulty: leaves the loop whenever a round did nothing
AsyncDecideIdle ==
  stack' = IF ~Top.did THEN Goto("run") ELSE Goto("start")
\* leaves the loop for ts_timers_run when only timers are left, or when nothing
\* is; otherwise another round, after a wait if this one did nothing
AsyncDecide ==
  stack' = IF ~JobsPending /\ (TimersPending \/ ~Top.did)
             THEN Goto("run") ELSE Goto("start")

\* ts_timers_run, then the last poll of completions
AsyncTimers ==
  stack' = IF TimersPending THEN Push(stack, TimersPoll) ELSE Push(Goto("last"), JobsPoll)

\* ts_async_run: rounds of completions while jobs are in flight, ts_timers_run,
\* one last poll of completions
AsyncRun ==
  /\ loop = "async"
  /\ \/ Main("start") /\ stack' = IF AsyncPending THEN Push(Goto("jobsDone"), JobsPoll)
                                  ELSE Goto("run")
     \/ Main("jobsDone") /\ AsyncDecide
     \/ Main("run") /\ AsyncTimers
     \/ Main("last") /\ stack' = Goto("exit")
  /\ UNCHANGED <<jobVars, careful, cut, loop, timer, sent, open, settled>>

Exited == Main("exit") /\ UNCHANGED vars

-----------------------------------------------------------------------------
LoopStep == PollStep \/ AwaitStep \/ ServerRound \/ AsyncRun

Next ==
  \/ PoolStep
  \/ \E t \in Timers : TimePasses(t) \/ SetTimeout(t)
  \/ Close
  \/ \E j \in Jobs : SubmitJob(j)
  \/ \E p \in Promises : Await(p)
  \/ \E e \in Events : ServerEvent(e)
  \/ CallReturn \/ Throw
  \/ EntryReturn
  \/ LoopStep
  \/ Exited

\* The pool works (ThreadPool), time passes, the thread is scheduled, and
\* callbacks and the entry function return if they can again and again.
Fairness ==
  /\ WF_vars(PoolStep)
  /\ \A t \in Timers : WF_vars(TimePasses(t))
  /\ WF_vars(LoopStep)
  /\ SF_vars(CallReturn)
  /\ SF_vars(EntryReturn)

Spec == Init /\ [][Next]_vars /\ Fairness

-----------------------------------------------------------------------------
(* Properties *)

(* "Event loop: drain async I/O + timers + websockets + workers + HTTP"
   (compiler.ts, generateMain): when main() returns, every job that was
   submitted has completed and every timeout that was set has fired.  Not so if
   ts_timers_run, after which ts_async_run waits for nothing, called a timer
   that submitted a job. *)
NothingLeftAtExit == careful /\ Top.at = "exit" => ~JobsPending /\ ~TimersPending

(* ts_await of a job's or a timeout's promise never comes back with the
   promise still pending, although other callbacks ran and waited in between:
   what settles it keeps ts_jobs_pending or ts_timers_pending true.  Rejected
   promises are settled too; a timeout that was cleared would leave its promise to
   nobody. *)
AwaitSettles ==
  [][Top.kind = "await" /\ Top.of \in Jobs \cup Timers /\ Len(stack') < Depth
       => Top.of \in settled]_vars

(* Callbacks of jobs nest like the C stack: the completions in progress are
   exactly the job callbacks on the stack, outermost first, so a nested poll
   never completes a job that an outer one is completing. *)
CompletionsOnStack ==
  /\ Len(delivering) = Cardinality(JobCalls)
  /\ \A i \in JobCalls : delivering[Cardinality({k \in JobCalls : k <= i})] = stack[i].of

(* The state between two steps of compiler.ts' loop: the completions in progress
   are the job callbacks on the stack, and main() leaves nothing behind. *)
LoopInv == TypeOK /\ NothingLeftAtExit /\ CompletionsOnStack

Distinct(s) == \A i, j \in 1..Len(s) : s[i] = s[j] => i = j

\* Why: a job is in one place, and no longer pending when its callback is called;
JobsOnce ==
  /\ queue \in Seq(Jobs) /\ running \subseteq Jobs /\ finished \in Seq(Jobs)
  /\ delivered \subseteq Jobs /\ abandoned = {}
  /\ Distinct(queue) /\ Distinct(finished) /\ Distinct(delivering)
  /\ Contents(queue) \cap running = {}
  /\ (Contents(queue) \cup running) \cap Contents(finished) = {}
  /\ (Contents(queue) \cup running \cup Contents(finished)) \cap Contents(delivering) = {}
  /\ delivered \cap (Contents(queue) \cup running \cup Contents(finished) \cup Contents(delivering)) = {}
  /\ delivered \cup Contents(delivering) \subseteq settled
\* what is awaited was submitted or set;
Awaited ==
  \A i \in 1..Depth : stack[i].kind = "await" =>
    /\ stack[i].of \in Jobs => stack[i].of \in settled \cup Known
    /\ stack[i].of \in Timers => stack[i].of \in settled \cup Armed
\* and what runs while ts_async_run winds up is in a timer's callback, which
\* submits no job, or is the last poll, which finds none.
Winding ==
  LET main == stack[1]
  IN /\ main.kind = "main" /\ \A i \in 2..Depth : stack[i].kind # "main"
     /\ main.at \in {"run", "last"} => loop = "async"
     /\ main.at = "exit" => Depth = 1
     /\ careful /\ main.at = "run" =>
          /\ ~JobsPending
          /\ Depth >= 2 => stack[2].kind = "timers"
          /\ Depth >= 3 => stack[3].kind = "call" /\ stack[3].of \in Timers
     /\ careful /\ main.at \in {"last", "exit"} =>
          /\ ~JobsPending /\ ~TimersPending
          /\ Depth >= 2 => Depth = 2 /\ stack[2].kind = "jobs"

LoopIInv == LoopInv /\ JobsOnce /\ Awaited /\ Winding

(* Every job that is submitted, from wherever, completes: neither timers nor
   nested waits starve the completions.  Programs that are not careful lose the job
   whose completion a throw leaves, a rejected await say (promise.c:144-147). *)
EveryJobCompletes == \A j \in Jobs : careful /\ j \in Known ~> j \in delivered

(* "Nothing will settle this promise" (promise.c, ts_await): an await of a
   promise that nothing settles gives up once nothing else is pending.  In a
   callback of a job it never does: ts_jobs_pending counts that job. *)
AwaitReturns ==
  \A p \in Promises :
    (careful /\ \E i \in 1..Depth : stack[i].kind = "await" /\ stack[i].of = p)
      ~> ~ \E i \in 1..Depth : stack[i].kind = "await" /\ stack[i].of = p
=============================================================================
