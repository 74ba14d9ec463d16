------------------------------- MODULE Timers -------------------------------
(***************************************************************************)
(* setTimeout / setInterval of runtime/src/builtins.c: the timer list, one  *)
(* poll over it, and ts_timers_run.  One thread; the interleaving is that   *)
(* of callbacks with the traversal that calls them: a callback adds and     *)
(* clears timers, and through ts_await it polls again while the outer poll  *)
(* still holds a pointer into the list.                                     *)
(*                                                                          *)
(* A timer is its id.  ts_timer_add prepends and ids grow, so the list is   *)
(* the set of linked ids in descending order.  The clock is cut into ticks  *)
(* and the half millisecond of tolerance is not told apart from equality.   *)
(***************************************************************************)
EXTENDS Naturals, Sequences, FiniteSets

CONSTANTS MaxTimers,    \* bound: timers created
          MaxTime,      \* bound: the clock
          Delays,       \* delays a program asks for
          MaxNest       \* bound: polls on the stack

ASSUME TimersAssumption ==
  /\ MaxTimers \in Nat /\ MaxTime \in Nat /\ MaxNest \in Nat
  /\ Delays \subseteq Nat

Ids == 1..MaxTimers
ListStart == MaxTimers + 1   \* the traversal has not reached a timer yet

VARIABLES
  awaits,     \* whether callbacks of this program await (never changes)
  clock,      \* ts_now_ms()
  nextId,     \* g_next_timer_id
  linked,     \* timers in g_timers; the others below nextId were freed
  active,     \* t->active
  repeating,  \* t->repeating
  interval,   \* t->interval_ms
  due,        \* t->next_fire_ms
  polls,      \* calls of ts_timers_poll in progress: loop pointer t and local now
  pc,         \* "user": user code runs; "scan": the innermost poll traverses
  drv,        \* main(): the program's code, ts_timers_run, its end
  calls,      \* history: calls of each timer, counted up to 2
  started,    \* history: when each timer was last called
  broken      \* a freed timer was read

listVars == <<nextId, linked, active, repeating, interval, due>>
histVars == <<calls, started>>
timersVars == <<awaits, clock, listVars, polls, pc, drv, histVars, broken>>

TimersTypeOK ==
  /\ awaits \in BOOLEAN
  /\ clock \in 0..MaxTime
  /\ nextId \in 1..(MaxTimers + 1)
  /\ linked \subseteq 1..(nextId - 1)
  /\ active \subseteq linked /\ repeating \subseteq Ids
  /\ interval \in [Ids -> Nat]
  /\ due \in [Ids -> Nat]
  /\ polls \in Seq([at : 1..ListStart, now : 0..MaxTime])
  /\ Len(polls) <= MaxNest
  /\ pc \in {"user", "scan"}
  /\ drv \in {"code", "run", "end"}
  /\ calls \in [Ids -> 0..2]
  /\ started \in [Ids -> 0..MaxTime]
  /\ broken \in BOOLEAN

TimersInit ==
  /\ awaits \in BOOLEAN
  /\ clock = 0
  /\ nextId = 1
  /\ linked = {} /\ active = {} /\ repeating = {}
  /\ interval = [t \in Ids |-> 0]
  /\ due = [t \in Ids |-> 0]
  /\ polls = <<>>
  /\ pc = "user"
  /\ drv = "code"
  /\ calls = [t \in Ids |-> 0]
  /\ started = [t \in Ids |-> 0]
  /\ broken = FALSE

Tick ==
  /\ clock < MaxTime
  /\ clock' = clock + 1
  /\ UNCHANGED <<awaits, listVars, polls, pc, drv, histVars, broken>>

-----------------------------------------------------------------------------
(* What user code does: the entry function, or a timer's callback *)

CodeRuns == pc = "user" /\ ~broken /\ (drv = "code" \/ polls # <<>>)

TimerAdd(delay, repeats) ==
  /\ CodeRuns
  /\ nextId <= MaxTimers
  /\ clock + delay <= MaxTime
  /\ linked' = linked \cup {nextId}
  /\ active' = active \cup {nextId}
  /\ repeating' = IF repeats THEN repeating \cup {nextId} ELSE repeating
  /\ interval' = [interval EXCEPT ![nextId] = delay]
  /\ due' = [due EXCEPT ![nextId] = clock + delay]
  /\ nextId' = nextId + 1
  /\ UNCHANGED <<awaits, clock, polls, pc, drv, histVars, broken>>

\* faulty: the timer is unlinked and freed at once
TimerClearFrees(t) ==
  /\ CodeRuns
  /\ t \in active
  /\ linked' = linked \ {t}
  /\ active' = active \ {t}
  /\ UNCHANGED <<awaits, clock, nextId, repeating, interval, due, polls, pc, drv, histVars, broken>>

TimerClear(t) ==
  /\ CodeRuns
  /\ t \in active
  /\ active' = active \ {t}
  /\ UNCHANGED <<awaits, clock, nextId, linked, repeating, interval, due,
                 polls, pc, drv, histVars, broken>>

\* ts_timers_poll called by ts_await in user code, or by ts_timers_run;
\* it returns at once when no timer is active
Poll ==
  /\ active # {}
  /\ Len(polls) < MaxNest
  /\ polls' = Append(polls, [at |-> ListStart, now |-> clock])
  /\ pc' = "scan"

AwaitPolls ==
  /\ CodeRuns
  /\ awaits \/ polls = <<>>
  /\ Poll
  /\ UNCHANGED <<awaits, clock, listVars, drv, histVars, broken>>

-----------------------------------------------------------------------------
(* The traversal *)

TopPoll == polls[Len(polls)]

\* faulty: does not test t->active
DueAheadLinked == {t \in linked : t < TopPoll.at /\ due[t] <= TopPoll.now}
\* timers the traversal will still find due
DueAhead == {t \in active : t < TopPoll.at /\ due[t] <= TopPoll.now}

\* the loop pointer of the innermost poll still points into the list
Points == TopPoll.at \in linked \cup {ListStart}

\* a one-shot timer is deactivated before its callback runs
Call(t) == active' = IF t \in repeating THEN active ELSE active \ {t}

\* t = t->next up to the next active and due timer, and its call
FireTimer ==
  /\ pc = "scan" /\ ~broken /\ Points
  /\ \E t \in DueAhead :
       /\ \A u \in DueAhead : u <= t
       /\ Call(t)
       /\ polls' = [polls EXCEPT ![Len(polls)].at = t]
       /\ calls' = [calls EXCEPT ![t] = IF @ < 2 THEN @ + 1 ELSE @]
       /\ started' = [started EXCEPT ![t] = clock]
  /\ pc' = "user"
  /\ UNCHANGED <<awaits, clock, nextId, linked, repeating, interval, due, drv, broken>>

\* faulty: the next time is counted from the previous one
RearmFromDue(t) == due' = [due EXCEPT ![t] = @ + interval[t]]
Rearm(t) == due' = [due EXCEPT ![t] = clock + interval[t]]

CallbackReturn ==
  /\ pc = "user" /\ ~broken /\ polls # <<>> /\ Points
  /\ IF TopPoll.at \in repeating \cap active
       THEN Rearm(TopPoll.at)
       ELSE due' = due
  /\ pc' = "scan"
  /\ UNCHANGED <<awaits, clock, nextId, linked, active, repeating, interval,
                 polls, drv, histVars, broken>>

\* the callback returned to a traversal whose timer is gone: t->active and
\* t->next are read from freed memory, and anything may follow
ReadFreed ==
  /\ pc = "user" /\ ~broken /\ polls # <<>> /\ ~Points
  /\ broken' = TRUE
  /\ UNCHANGED <<awaits, clock, listVars, polls, pc, drv, histVars>>

Survivors == active

\* ts_timers_gc_inactive and return, to a callback or to ts_timers_run
PollReturn ==
  /\ pc = "scan" /\ ~broken
  /\ DueAhead = {}
  /\ linked' = Survivors
  /\ polls' = SubSeq(polls, 1, Len(polls) - 1)
  /\ pc' = "user"
  /\ UNCHANGED <<awaits, clock, nextId, active, repeating, interval, due, drv, histVars, broken>>

-----------------------------------------------------------------------------
(* main() *)

EntryReturns ==
  /\ CodeRuns /\ polls = <<>>
  /\ drv' = "run"
  /\ UNCHANGED <<awaits, clock, listVars, polls, pc, histVars, broken>>

Running == drv = "run" /\ pc = "user" /\ polls = <<>>

RunPolls ==
  /\ Running
  /\ Poll
  /\ UNCHANGED <<awaits, clock, listVars, drv, histVars, broken>>

\* faulty: polls once instead of in a loop
RunDoneOnce == Running
RunDone == Running /\ active = {}

RunEnds ==
  /\ RunDone
  /\ linked' = Survivors
  /\ drv' = "end"
  /\ UNCHANGED <<awaits, clock, nextId, active, repeating, interval, due,
                 polls, pc, histVars, broken>>

Stopped == (drv = "end" \/ broken) /\ UNCHANGED timersVars

TimersStep == FireTimer \/ PollReturn \/ RunPolls \/ RunEnds

TimersNext ==
  \/ Tick
  \/ \E d \in Delays, r \in BOOLEAN : TimerAdd(d, r)
  \/ \E t \in Ids : TimerClear(t)
  \/ AwaitPolls
  \/ CallbackReturn \/ ReadFreed
  \/ TimersStep
  \/ EntryReturns
  \/ Stopped

\* time passes, the loop is scheduled, user code returns
TimersFairness ==
  /\ WF_timersVars(Tick)
  /\ WF_timersVars(TimersStep)
  /\ SF_timersVars(CallbackReturn \/ ReadFreed)
  /\ SF_timersVars(EntryReturns)

TimersSpec == TimersInit /\ [][TimersNext]_timersVars /\ TimersFairness

-----------------------------------------------------------------------------
(* Properties *)

(* No poll reads a timer that was freed if callbacks do not await: clearing a
   timer, from whatever callback, only marks it, and ts_timers_gc_inactive
   runs when the traversal is over. *)
NoUseAfterFree == ~awaits => ~broken /\ (polls # <<>> => Points)

(* A timer of setTimeout is called at most once, also when its callback or
   another one awaits and so polls the same list again. *)
OneShotOnce == \A t \in Ids \ repeating : calls[t] <= 1

(* The timer list of builtins.c whatever callbacks do to it: the traversals in
   progress are safe, and one-shot timers are. *)
TimersInv == TimersTypeOK /\ NoUseAfterFree /\ OneShotOnce

\* Why: a timer that may still be called once was not called yet, ids are fresh,
\* and polls do not nest unless callbacks await.
Uncalled ==
  /\ \A t \in Ids : t >= nextId => calls[t] = 0
  /\ \A t \in active \ repeating : calls[t] = 0
Traversal ==
  /\ pc = "scan" => polls # <<>>
  /\ ~awaits => Len(polls) <= 1
  /\ \A i \in DOMAIN polls : polls[i].now <= clock

TimersIInv == TimersInv /\ Uncalled /\ Traversal

(* Calls of an interval timer start at least its interval apart, however long
   callbacks take: there are no catch-up bursts.  (With callbacks that await, a
   nested poll calls the interval inside itself.) *)
IntervalSpacing ==
  [][~awaits =>
       \A t \in repeating : calls[t] > 0 /\ (calls'[t] # calls[t] \/ started'[t] # started[t])
         => started'[t] >= started[t] + interval[t]]_timersVars

\* Why: when its callback has returned, an interval is due its interval later.
InCallback(t) == polls # <<>> /\ pc = "user" /\ TopPoll.at = t
NextCallLate ==
  \A t \in Ids :
    /\ started[t] <= clock
    /\ ~awaits /\ t \in repeating \cap active /\ calls[t] > 0 /\ ~InCallback(t)
         => due[t] >= started[t] + interval[t]

(* A timer cleared while it waits its turn in the poll that would call it is
   not called: a call is always of a timer no earlier callback cleared, and a
   timer never comes back to life. *)
ClearedStaysQuiet ==
  [][\A t \in Ids : t < nextId /\ t \notin active =>
       t \notin active' /\ calls'[t] = calls[t] /\ started'[t] = started[t]]_timersVars

(* Every timeout fires or is cleared, also one set by another callback while
   the list is being traversed, unless a freed timer was read. *)
EveryTimeoutFires ==
  \A t \in Ids : t \in active \ repeating ~> t \notin active \/ broken

=============================================================================
