------------------------------ MODULE Workers ------------------------------
(***************************************************************************)
(* node_worker_threads.c.  A worker thread runs the program's own entry     *)
(* function, whatever file the Worker was made for, and what tells it who   *)
(* it is (isMainThread, threadId, parentPort, workerData) is kept in globals *)
(* of the process that every starting worker overwrites.  A port is one     *)
(* queue under a mutex: postMessage appends to it and receiveMessageOnPort  *)
(* takes from it, on whichever side; no callback is ever called, and        *)
(* ts_worker_pending is always 0.  terminate cancels the thread and joins it.*)
(*                                                                          *)
(* rules says what a program keeps to.  A worker is started and terminated  *)
(* by the thread that created it.                                           *)
(***************************************************************************)
EXTENDS Naturals, Sequences, FiniteSets, SequencesExt

CONSTANTS Programs, \* kinds of program: sets of rules
          Workers,  \* Worker objects, and the threads they start
          Main,     \* the main thread
          Messages, \* messages, each posted at most once
          Nulls,    \* those whose value is null or undefined
          Nothing   \* no port, no value

(* "guarded":    the entry function tests isMainThread first, and creates
                 workers only when that was true
   "startsLater": module level code starts no worker
   "oneAtATime": a worker is started when those before it were terminated
   "keepsOut":   the main thread does not use parentPort
   "oneWay":     workers post nothing on parentPort
   "polls":      the code of a worker asks for messages until it is terminated
   "silent":     nothing is posted
   "stays":      main() does not come to its end (an HTTP server)
   "yields":     the code of a worker comes to a cancellation point (it prints, it
                 reads a file) again and again; computing does not, and a loop of
                 receiveMessageOnPort (lock, unlock, malloc) does not either *)
AllRules ==
  {"guarded", "startsLater", "oneAtATime", "keepsOut", "oneWay", "polls", "silent",
   "stays", "yields"}
ASSUME WorkersAssumption ==
  /\ Programs \subseteq SUBSET AllRules
  /\ IsFiniteSet(Workers) /\ IsFiniteSet(Messages) /\ Nulls \subseteq Messages
  /\ Main \notin Workers
  /\ Nothing \notin Workers \cup {Main} \cup ({"worker"} \X Workers)

VARIABLES
  rules,        \* what the program keeps to (rigid)
  isMainThread, \* g_is_main_thread
  currentId,    \* g_current_thread_id
  nextId,       \* g_next_thread_id
  parentPort,   \* g_parent_port
  workerData,   \* g_worker_data: the worker it was given to
  creator,      \* thread that created the worker, or Nothing
  id,           \* thread_id of a worker
  started, terminated, \* the flags of the workers
  pc,           \* where a thread is
  arg,          \* what its operation works on
  half,         \* what isMainThread said to the entry function
  held,         \* the port parentPort returned to it last
  cancel,       \* threads pthread_cancel was called for
  inbox,        \* queues of the ports
  posted,       \* messages posted to a port, in order (history)
  received      \* answers its code got for the messages it took (history)

globals == <<isMainThread, currentId, nextId, parentPort, workerData>>
objects == <<creator, id, started, terminated>>
queues == <<inbox, posted, received>>
vars == <<rules, globals, objects, pc, arg, half, held, cancel, queues>>

Threads == Workers \cup {Main}
\* the port of a worker, and the one the getter of a thread makes
Ports == {"worker"} \X Workers \cup {"getter"} \X Threads
PortOf(w) == <<"worker", w>>

TypeOK ==
  /\ rules \in Programs
  /\ isMainThread \in BOOLEAN
  /\ currentId \in 0..Cardinality(Workers) /\ nextId \in 1..Cardinality(Workers) + 1
  /\ parentPort \in Ports \cup {Nothing} /\ workerData \in Workers \cup {Nothing}
  /\ creator \in [Workers -> Threads \cup {Nothing}]
  /\ id \in [Workers -> 0..Cardinality(Workers)]
  /\ started \subseteq Workers /\ terminated \subseteq started
  /\ pc \in [Threads -> {"none", "setMain", "setId", "setPort", "setData", "code",
                         "create", "newPort", "gotPort", "joining", "ended", "exit"}]
  /\ arg \in [Threads -> Workers \cup (Workers \X Nat) \cup {Nothing}]
  /\ half \in [Threads -> {"none", "main", "worker"}]
  /\ held \in [Threads -> Ports \cup {Nothing}]
  /\ cancel \subseteq terminated
  /\ inbox \in [Ports -> Seq(Messages)] /\ posted \in [Ports -> Seq(Messages)]
  /\ received \in [Threads -> Seq((Messages \ Nulls) \cup {Nothing})]

Init ==
  /\ rules \in Programs
  /\ isMainThread = TRUE /\ currentId = 0 /\ nextId = 1
  /\ parentPort = Nothing /\ workerData = Nothing
  /\ creator = [w \in Workers |-> Nothing] /\ id = [w \in Workers |-> 0]
  /\ started = {} /\ terminated = {}
  /\ pc = [t \in Threads |-> IF t = Main THEN "code" ELSE "none"]
  /\ arg = [t \in Threads |-> Nothing]
  /\ half = [t \in Threads |-> "none"]
  /\ held = [t \in Threads |-> Nothing]
  /\ cancel = {}
  /\ inbox = [p \in Ports |-> <<>>] /\ posted = inbox
  /\ received = [t \in Threads |-> <<>>]

-----------------------------------------------------------------------------
Running == pc[Main] # "exit"
\* t runs code of the program: of a module, if half is "none" in the main thread
InCode(t) == Running /\ pc[t] = "code"
\* a worker's entry function has made the test it begins with
Tested(t) == t = Main \/ half[t] # "none" \/ "guarded" \notin rules

Goto(t, where) == pc' = [pc EXCEPT ![t] = where]

\* the entry function tests isMainThread
TestMain(t) ==
  /\ InCode(t) /\ half[t] = "none"
  /\ half' = [half EXCEPT ![t] = IF isMainThread THEN "main" ELSE "worker"]
  /\ UNCHANGED <<rules, globals, objects, pc, arg, held, cancel, queues>>

-----------------------------------------------------------------------------
(* new Worker: g_next_thread_id++ is a read and a write *)

Create(t, w) ==
  /\ InCode(t) /\ Tested(t)
  /\ "guarded" \in rules => half[t] # "worker"
  /\ creator[w] = Nothing
  /\ creator' = [creator EXCEPT ![w] = t]
  /\ arg' = [arg EXCEPT ![t] = <<w, nextId>>]
  /\ Goto(t, "create")
  /\ UNCHANGED <<rules, globals, id, started, terminated, half, held, cancel, queues>>

FinishCreate(t) ==
  /\ Running /\ pc[t] = "create"
  /\ id' = [id EXCEPT ![arg[t][1]] = arg[t][2]]
  /\ nextId' = arg[t][2] + 1
  /\ arg' = [arg EXCEPT ![t] = Nothing]
  /\ Goto(t, "code")
  /\ UNCHANGED <<rules, isMainThread, currentId, parentPort, workerData,
                 creator, started, terminated, half, held, cancel, queues>>

\* terminate returned
Joined(w) ==
  w \in terminated /\ ~(pc[creator[w]] = "joining" /\ arg[creator[w]] = w)

MayStart(t, w) ==
  /\ creator[w] = t /\ id[w] # 0
  /\ "startsLater" \in rules => half[t] # "none"
  /\ "oneAtATime" \in rules => \A v \in started : Joined(v)

\* start
Start(t, w) ==
  /\ InCode(t) /\ Tested(t)
  /\ MayStart(t, w)
  /\ w \notin started
  /\ started' = started \cup {w}
  /\ Goto(w, "setMain")
  /\ UNCHANGED <<rules, globals, creator, id, terminated, arg, half, held, cancel, queues>>

-----------------------------------------------------------------------------
(* worker_thread_main *)

\* faulty: the flag is left alone
SetMainForgotten(w) ==
  /\ Running /\ pc[w] = "setMain"
  /\ Goto(w, "setId")
  /\ UNCHANGED <<rules, globals, objects, arg, half, held, cancel, queues>>
SetMain(w) ==
  /\ Running /\ pc[w] = "setMain"
  /\ isMainThread' = FALSE
  /\ Goto(w, "setId")
  /\ UNCHANGED <<rules, currentId, nextId, parentPort, workerData,
                 objects, arg, half, held, cancel, queues>>

SetId(w) ==
  /\ Running /\ pc[w] = "setId"
  /\ currentId' = id[w]
  /\ Goto(w, "setPort")
  /\ UNCHANGED <<rules, isMainThread, nextId, parentPort, workerData,
                 objects, arg, half, held, cancel, queues>>

\* faulty: the port of the first worker stays
SetPortOnce(w) ==
  /\ Running /\ pc[w] = "setPort"
  /\ parentPort' = IF parentPort = Nothing THEN PortOf(w) ELSE parentPort
  /\ Goto(w, "setData")
  /\ UNCHANGED <<rules, isMainThread, currentId, nextId, workerData,
                 objects, arg, half, held, cancel, queues>>
SetPort(w) ==
  /\ Running /\ pc[w] = "setPort"
  /\ parentPort' = PortOf(w)
  /\ Goto(w, "setData")
  /\ UNCHANGED <<rules, isMainThread, currentId, nextId, workerData,
                 objects, arg, half, held, cancel, queues>>

\* and the entry function of the program begins
SetData(w) ==
  /\ Running /\ pc[w] = "setData"
  /\ workerData' = w
  /\ Goto(w, "code")
  /\ UNCHANGED <<rules, isMainThread, currentId, nextId, parentPort,
                 objects, arg, half, held, cancel, queues>>

\* the entry function returns
End(w) ==
  /\ InCode(w)
  /\ "polls" \notin rules
  /\ Goto(w, "ended")
  /\ UNCHANGED <<rules, globals, objects, arg, half, held, cancel, queues>>

\* the deferred pthread_cancel takes effect, in a call that is a cancellation
\* point, as pthread_join is; Fairness says when there is one
Cancelled(w) ==
  /\ Running /\ w \in cancel
  /\ pc[w] \in {"code", "joining"}
  /\ Goto(w, "ended")
  /\ UNCHANGED <<rules, globals, objects, arg, half, held, cancel, queues>>

-----------------------------------------------------------------------------
(* terminate *)

\* faulty: the thread is joined and not cancelled
TerminateWithoutCancel(t, w) ==
  /\ InCode(t) /\ Tested(t)
  /\ creator[w] = t
  /\ w \in started \ terminated
  /\ terminated' = terminated \cup {w}
  /\ arg' = [arg EXCEPT ![t] = w]
  /\ Goto(t, "joining")
  /\ UNCHANGED <<rules, globals, creator, id, started, half, held, cancel, queues>>
Terminate(t, w) ==
  /\ InCode(t) /\ Tested(t)
  /\ creator[w] = t
  /\ w \in started \ terminated
  /\ terminated' = terminated \cup {w}
  /\ cancel' = cancel \cup {w}
  /\ arg' = [arg EXCEPT ![t] = w]
  /\ Goto(t, "joining")
  /\ UNCHANGED <<rules, globals, creator, id, started, half, held, queues>>

Join(t) ==
  /\ Running /\ pc[t] = "joining"
  /\ pc[arg[t]] = "ended"
  /\ Goto(t, "code")
  /\ UNCHANGED <<rules, globals, objects, arg, half, held, cancel, queues>>

-----------------------------------------------------------------------------
(* The getter of parentPort, postMessage, receiveMessageOnPort *)

GetParentPort(t) ==
  /\ InCode(t) /\ Tested(t)
  /\ "keepsOut" \in rules => t # Main
  /\ IF parentPort = Nothing
       THEN Goto(t, "newPort") /\ UNCHANGED held
       ELSE held' = [held EXCEPT ![t] = parentPort] /\ UNCHANGED pc
  /\ UNCHANGED <<rules, globals, objects, arg, half, cancel, queues>>

NewPort(t) ==
  /\ Running /\ pc[t] = "newPort"
  /\ parentPort' = <<"getter", t>>
  /\ Goto(t, "gotPort")
  /\ UNCHANGED <<rules, isMainThread, currentId, nextId, workerData,
                 objects, arg, half, held, cancel, queues>>

ReturnPort(t) ==
  /\ Running /\ pc[t] = "gotPort"
  /\ held' = [held EXCEPT ![t] = parentPort]
  /\ Goto(t, "code")
  /\ UNCHANGED <<rules, globals, objects, arg, half, cancel, queues>>

Push(p, m) ==
  /\ \A q \in Ports : m \notin Range(posted[q])
  /\ inbox' = [inbox EXCEPT ![p] = Append(@, m)]
  /\ posted' = [posted EXCEPT ![p] = Append(@, m)]
  /\ UNCHANGED received

Post(t, m) ==
  /\ InCode(t) /\ Tested(t)
  /\ "silent" \notin rules
  /\ \/ \E w \in Workers : id[w] # 0 /\ Push(PortOf(w), m)
     \/ /\ held[t] # Nothing
        /\ "oneWay" \in rules => t = Main
        /\ Push(held[t], m)
  /\ UNCHANGED <<rules, globals, objects, pc, arg, half, held, cancel>>

\* a message whose value is null is taken, and the answer is that there is none
Answer(m) == IF m \in Nulls THEN Nothing ELSE m

Receive(t) ==
  /\ InCode(t) /\ Tested(t)
  /\ held[t] # Nothing /\ inbox[held[t]] # <<>>
  /\ inbox' = [inbox EXCEPT ![held[t]] = Tail(@)]
  /\ received' = [received EXCEPT ![t] = Append(@, Answer(Head(inbox[held[t]])))]
  /\ UNCHANGED <<rules, globals, objects, pc, arg, half, held, cancel, posted>>

-----------------------------------------------------------------------------
\* main() returns: ts_worker_pending is 0, whatever the workers do
Exit ==
  /\ InCode(Main) /\ half[Main] # "none"
  /\ "stays" \notin rules
  /\ Goto(Main, "exit")
  /\ UNCHANGED <<rules, globals, objects, arg, half, held, cancel, queues>>

Setup(w) == SetMain(w) \/ SetId(w) \/ SetPort(w) \/ SetData(w)
Getter(t) == NewPort(t) \/ ReturnPort(t)

\* a stopped program, or nothing more to do for the code of one that stays
Quiet == (~Running \/ "stays" \in rules) /\ UNCHANGED vars

Next ==
  \/ \E t \in Threads :
       \/ TestMain(t) \/ FinishCreate(t) \/ Join(t)
       \/ GetParentPort(t) \/ Getter(t) \/ Receive(t)
       \/ \E w \in Workers : Create(t, w) \/ Start(t, w) \/ Terminate(t, w)
       \/ \E m \in Messages : Post(t, m)
  \/ \E w \in Workers : Setup(w) \/ End(w) \/ Cancelled(w)
  \/ Exit
  \/ Quiet

(* Threads are scheduled; the code of a worker gets to its test, and, if it
   polls, takes its port and what is in it again and again.  A cancelled thread
   ends if it waits in pthread_join, or if its code yields; nothing else makes it
   get to a cancellation point. *)
AtCancellationPoint(w) == pc[w] = "joining" \/ "yields" \in rules
Polls(w) == TestMain(w) \/ Receive(w) \/ (held[w] = Nothing /\ GetParentPort(w))
Fairness ==
  /\ \A w \in Workers :
       WF_vars(Setup(w)) /\ WF_vars(AtCancellationPoint(w) /\ Cancelled(w))
  /\ \A w \in Workers : WF_vars("polls" \in rules /\ Polls(w))
  /\ \A t \in Threads : WF_vars(FinishCreate(t) \/ Getter(t) \/ Join(t))

Spec == Init /\ [][Next]_vars /\ Fairness

-----------------------------------------------------------------------------
(* Properties *)

\* threads that execute code of the program, on the way into or out of a call too
Executing == {w \in Workers : pc[w] \in {"code", "create", "newPort", "gotPort", "joining"}}

Alone == {"guarded", "startsLater", "oneAtATime", "keepsOut"} \subseteq rules

(* The main thread runs the part of the entry function meant for it, and no
   worker does: g_is_main_thread is cleared before a worker's entry, and main()
   reads it before it starts one.  A program that starts a worker from module
   level code may find the main thread in the other part. *)
RightHalf ==
  {"guarded", "startsLater"} \subseteq rules =>
    half[Main] # "worker" /\ \A w \in Workers : half[w] # "main"

(* Worker objects have different ids: in a program whose entry is guarded, only
   the main thread gets to g_next_thread_id++, which is not atomic. *)
DistinctIds ==
  {"guarded", "startsLater"} \subseteq rules =>
    \A v, w \in Workers : id[v] = id[w] /\ id[v] # 0 => v = w

(* When workers run one at a time and the main thread keeps out of parentPort, a
   worker's code finds its own values in the globals.  With two workers the one
   that starts last overwrites them, and the getter of the main thread may
   install a port of its own over that of a starting worker. *)
OwnIdentity ==
  Alone =>
    \A w \in Executing :
      /\ ~isMainThread /\ currentId = id[w]
      /\ parentPort = PortOf(w) /\ workerData = w

Answers(s) == [i \in DOMAIN s |-> Answer(s[i])]

(* In such a program each worker gets what was posted to its port, in that order,
   once, and nobody else gets it.  (What a worker posts on parentPort goes into
   the same queue, and comes back to itself.) *)
MessagesReachTheirWorker ==
  Alone =>
    \A w \in Workers :
      received[w] \o Answers(inbox[PortOf(w)]) = Answers(posted[PortOf(w)])

(* The thread of a worker is gone when terminate has returned. *)
TerminateStops ==
  \A w \in Workers : Joined(w) /\ pc[creator[w]] # "ended" => pc[w] = "ended"

\* Why: a worker object is made, numbered, started and run in this order;
Live == {w \in Workers : pc[w] \notin {"none", "ended"}}
Lifecycle ==
  /\ nextId >= 1
  /\ pc[Main] \in {"code", "create", "newPort", "gotPort", "joining", "exit"}
  /\ \A w \in Workers :
       /\ pc[w] = "none" <=> w \notin started
       /\ w \in started => id[w] # 0
       /\ creator[w] = Nothing => id[w] = 0
  /\ \A t \in Threads :
       /\ pc[t] = "joining" => arg[t] \in Workers
       /\ pc[t] = "create" => /\ arg[t] \in Workers \X Nat /\ arg[t][2] >= 1
                              /\ creator[arg[t][1]] = t
\* who terminated it waits for it, until one of the two is gone;
JoinedOrGone ==
  \A w \in terminated :
    \/ "ended" \in {pc[w], pc[creator[w]]}
    \/ pc[creator[w]] = "joining" /\ arg[creator[w]] = w
\* with a guarded entry only the main thread creates and starts workers, and the
\* flag is cleared before their code runs;
OnlyMainCreates ==
  {"guarded", "startsLater"} \subseteq rules =>
    /\ half[Main] = "none" => started = {} /\ isMainThread
    /\ pc[Main] = "create" => arg[Main][2] = nextId /\ id[arg[Main][1]] = 0
    /\ \A w \in Workers :
         /\ creator[w] \in {Main, Nothing} /\ pc[w] # "create"
         /\ pc[w] \notin {"none", "setMain"} => ~isMainThread
         /\ id[w] < nextId
\* and one at a time, which finds its own values in the globals.
OneLive ==
  Alone =>
    /\ \A v, w \in Live : v = w
    /\ \A t \in Threads : pc[t] \notin {"newPort", "gotPort"}
    /\ \A w \in Live :
         /\ pc[w] \notin {"setMain", "setId"} => currentId = id[w]
         /\ pc[w] \notin {"setMain", "setId", "setPort"} => parentPort = PortOf(w)
         /\ pc[w] \notin {"setMain", "setId", "setPort", "setData"} => workerData = w
WorkersIInv ==
  Lifecycle /\ JoinedOrGone /\ RightHalf /\ DistinctIds /\ OnlyMainCreates /\ OneLive

\* Why: an id counts a worker object that was made;
Created == {w \in Workers : creator[w] # Nothing}
Numbered ==
  LET n == Cardinality(Created)
  IN /\ nextId <= n + 1 /\ currentId <= n
     /\ \A w \in Workers : id[w] <= n
     /\ \A t \in Threads : pc[t] = "create" => arg[t][2] <= n
\* and a worker that runs alone holds no port but its own.
OwnPort ==
  Alone => \A t \in Threads : held[t] = Nothing \/ (t \in Workers /\ held[t] = PortOf(t))

(* What programs that keep to the rules named in each part can rely on in
   node_worker_threads.c, for all interleavings of the threads. *)
WorkersInv ==
  /\ TypeOK
  /\ RightHalf
  /\ DistinctIds
  /\ MessagesReachTheirWorker
  /\ TerminateStops

(* terminate returns in a program whose workers yield: the thread gets through its
   setup to a cancellation point, though it may itself be waiting for a worker of
   its own.  The thread of a worker that only computes, or polls its port, is never
   cancelled, and pthread_join in terminate waits for it for ever. *)
TerminateReturns ==
  \A t \in Threads :
    "yields" \in rules /\ pc[t] = "joining" ~> pc[t] # "joining" \/ ~Running

(* The messages of a worker that was started arrive unless it is terminated, if
   it polls and main() does not return (no ts_worker_pending keeps it). *)
MessagesArrive ==
  \A w \in Workers :
    ( /\ Alone /\ {"oneWay", "polls", "stays"} \subseteq rules
      /\ w \in started /\ inbox[PortOf(w)] # <<>> )
    ~> (inbox[PortOf(w)] = <<>> \/ w \in terminated)
=============================================================================
