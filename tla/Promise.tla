------------------------------- MODULE Promise -------------------------------
(***************************************************************************)
(* runtime/src/promise.c without ts_await (EventLoop): promises, the one    *)
(* reaction a promise has room for, and run_handlers, which calls user code *)
(* inside resolve, reject, then and finally.  User code may call any of     *)
(* these again, and may throw, so the C stack of run_handlers frames is     *)
(* part of the state.                                                       *)
(*                                                                          *)
(* A promise is its id; ids are given out in order.  A reaction is what one *)
(* call of then installs: whether each handler is a function, and the       *)
(* derived promise, which also identifies the reaction.  Values are opaque: *)
(* a handler's result that is itself a promise is a value like any other.   *)
(***************************************************************************)
EXTENDS Naturals, Sequences

CONSTANTS MaxPromises,   \* bound: promises created
          MaxDepth,      \* bound: run_handlers frames on the stack
          Values,        \* what promises are settled with
          Undefined

ASSUME PromiseAssumption ==
  /\ MaxPromises \in Nat /\ MaxDepth \in Nat
  /\ Undefined \notin Values

Ids == 1..MaxPromises
NULL == 0
NoReaction == [ful |-> FALSE, rej |-> FALSE, next |-> NULL]

VARIABLES
  single,    \* whether the program calls then or finally at most once for each
             \* promise (never changes)
  made,      \* promises allocated so far
  state,     \* p->state
  result,    \* p->result
  reaction,  \* p->onFulfilled, p->onRejected, p->then_promise
  onFinally, \* promises with a function in p->onFinally
  resolvers, \* promises whose resolve and reject user code was given
  stack,     \* calls of run_handlers in progress, innermost last
  calls,     \* history: handler calls of each reaction, counted up to 2
  cut        \* history: promises whose run_handlers an exception left

promVars == <<made, state, result, reaction, onFinally, resolvers>>
vars == <<single, promVars, stack, calls, cut>>

Made == 1..made
Settled == {p \in Made : state[p] # "pending"}

TypeOK ==
  /\ single \in BOOLEAN
  /\ made \in 0..MaxPromises
  /\ state \in [Ids -> {"pending", "fulfilled", "rejected"}]
  /\ result \in [Ids -> Values \cup {Undefined}]
  /\ \A p \in Ids : state[p] = "pending" <=> result[p] = Undefined
  /\ reaction \in [Ids -> [ful : BOOLEAN, rej : BOOLEAN, next : Made \cup {NULL}]]
  /\ onFinally \subseteq Made /\ resolvers \subseteq Made
  /\ stack \in Seq([p : Settled, at : {"start", "handler", "chain", "finally"}])
  /\ calls \in [Ids -> 0..2]
  /\ cut \subseteq Made

Init ==
  /\ single \in BOOLEAN
  /\ made = 0
  /\ state = [p \in Ids |-> "pending"]
  /\ result = [p \in Ids |-> Undefined]
  /\ reaction = [p \in Ids |-> NoReaction]
  /\ onFinally = {} /\ resolvers = {}
  /\ stack = <<>>
  /\ calls = [p \in Ids |-> 0]
  /\ cut = {}

-----------------------------------------------------------------------------
Top == stack[Len(stack)]
Below == SubSeq(stack, 1, Len(stack) - 1)
TopAt(at) == stack # <<>> /\ Top.at = at
UserCode == stack # <<>> => Top.at \in {"handler", "finally"}

Call(frames, p) == Append(frames, [p |-> p, at |-> "start"])
Moved(at) == Append(Below, [p |-> Top.p, at |-> at])

\* faulty: the handlers run before the state is set, and so do nothing
SettleLate(p, st, v, frames) ==
  /\ stack' = frames
  /\ IF p \in Made /\ state[p] = "pending"
       THEN /\ state' = [state EXCEPT ![p] = st]
            /\ result' = [result EXCEPT ![p] = v]
       ELSE UNCHANGED <<state, result>>

\* ts_promise_resolve and ts_promise_reject, called with these frames below
Settle(p, st, v, frames) ==
  IF p \in Made /\ state[p] = "pending"
    THEN /\ state' = [state EXCEPT ![p] = st]
         /\ result' = [result EXCEPT ![p] = v]
         /\ stack' = Call(frames, p)
    ELSE UNCHANGED <<state, result>> /\ stack' = frames

-----------------------------------------------------------------------------
(* User code *)

\* Promise_constructor, and ts_promise_new in native code that settles later
New ==
  /\ UserCode
  /\ made < MaxPromises
  /\ made' = made + 1
  /\ resolvers' = resolvers \cup {made + 1}
  /\ UNCHANGED <<single, state, result, reaction, onFinally, stack, calls, cut>>

Resolve(p, st, v) ==
  /\ UserCode
  /\ p \in resolvers
  /\ Len(stack) < MaxDepth
  /\ Settle(p, st, v, stack)
  /\ UNCHANGED <<single, made, reaction, onFinally, resolvers, calls, cut>>

\* a program that chains calls then or finally once for each promise
MayReact(p) == single => reaction[p] = NoReaction /\ p \notin onFinally

\* run_handlers at once when the promise is settled
RunIfSettled(p) == stack' = IF p \in Settled THEN Call(stack, p) ELSE stack

\* faulty: waits for a resolve that has already happened
ThenOnlyPending(p, ful, rej) ==
  /\ UserCode
  /\ p \in Made /\ MayReact(p)
  /\ made < MaxPromises /\ Len(stack) < MaxDepth
  /\ made' = made + 1
  /\ reaction' = [reaction EXCEPT ![p] = [ful |-> ful, rej |-> rej, next |-> made + 1]]
  /\ stack' = stack
  /\ UNCHANGED <<single, state, result, onFinally, resolvers, calls, cut>>

\* ts_promise_then, and with ful = FALSE ts_promise_catch
Then(p, ful, rej) ==
  /\ UserCode
  /\ p \in Made /\ MayReact(p)
  /\ made < MaxPromises /\ Len(stack) < MaxDepth
  /\ made' = made + 1
  /\ reaction' = [reaction EXCEPT ![p] = [ful |-> ful, rej |-> rej, next |-> made + 1]]
  /\ RunIfSettled(p)
  /\ UNCHANGED <<single, state, result, onFinally, resolvers, calls, cut>>

\* ts_promise_then of a value that is no promise
ThenValue(v) ==
  /\ UserCode
  /\ made < MaxPromises
  /\ made' = made + 1
  /\ state' = [state EXCEPT ![made + 1] = "fulfilled"]
  /\ result' = [result EXCEPT ![made + 1] = v]
  /\ UNCHANGED <<single, reaction, onFinally, resolvers, stack, calls, cut>>

Finally(p) ==
  /\ UserCode
  /\ p \in Made /\ MayReact(p)
  /\ Len(stack) < MaxDepth
  /\ onFinally' = onFinally \cup {p}
  /\ RunIfSettled(p)
  /\ UNCHANGED <<single, made, state, result, reaction, resolvers, calls, cut>>

\* TS_THROW in a handler: longjmp to user code further down, or out of all
\* handlers; the run_handlers calls in between never go on
Throw ==
  /\ UserCode /\ stack # <<>>
  /\ \E k \in 0..(Len(stack) - 1) :
       /\ k > 0 => stack[k].at \in {"handler", "finally"}
       /\ stack' = SubSeq(stack, 1, k)
       /\ cut' = cut \cup {stack[i].p : i \in (k + 1)..Len(stack)}
  /\ UNCHANGED <<single, promVars, calls>>

-----------------------------------------------------------------------------
(* run_handlers *)

HasHandler(p) ==
  IF state[p] = "fulfilled" THEN reaction[p].ful ELSE reaction[p].rej

RunHandler ==
  /\ TopAt("start") /\ HasHandler(Top.p)
  /\ stack' = Moved("handler")
  /\ LET n == reaction[Top.p].next
     IN calls' = [calls EXCEPT ![n] = IF @ < 2 THEN @ + 1 ELSE @]
  /\ UNCHANGED <<single, promVars, cut>>

\* faulty: a rejection without a handler resolves the derived promise
PassOnResolves ==
  /\ TopAt("start") /\ ~HasHandler(Top.p)
  /\ Settle(reaction[Top.p].next, "fulfilled", result[Top.p], Moved("chain"))
  /\ UNCHANGED <<single, made, reaction, onFinally, resolvers, calls, cut>>

\* no handler for this outcome: the derived promise gets the same outcome
PassOn ==
  /\ TopAt("start") /\ ~HasHandler(Top.p)
  /\ Settle(reaction[Top.p].next, state[Top.p], result[Top.p], Moved("chain"))
  /\ UNCHANGED <<single, made, reaction, onFinally, resolvers, calls, cut>>

\* the derived promise is the one then_promise holds after the handler
HandlerReturn(out) ==
  /\ TopAt("handler")
  /\ Settle(reaction[Top.p].next, "fulfilled", out, Moved("chain"))
  /\ UNCHANGED <<single, made, reaction, onFinally, resolvers, calls, cut>>

RunFinally ==
  /\ TopAt("chain")
  /\ stack' = IF Top.p \in onFinally THEN Moved("finally") ELSE Below
  /\ UNCHANGED <<single, promVars, calls, cut>>

FinallyReturn ==
  /\ TopAt("finally")
  /\ stack' = Below
  /\ UNCHANGED <<single, promVars, calls, cut>>

\* the program does something else
Idle == stack = <<>> /\ UNCHANGED vars

-----------------------------------------------------------------------------
Next ==
  \/ New
  \/ \E p \in Ids, st \in {"fulfilled", "rejected"}, v \in Values : Resolve(p, st, v)
  \/ \E p \in Ids, ful, rej \in BOOLEAN : Then(p, ful, rej)
  \/ \E v \in Values : ThenValue(v) \/ HandlerReturn(v)
  \/ \E p \in Ids : Finally(p)
  \/ Throw
  \/ RunHandler \/ PassOn \/ RunFinally \/ FinallyReturn
  \/ Idle

Spec == Init /\ [][Next]_vars

-----------------------------------------------------------------------------
(* Properties *)

(* When no handler is running, the derived promise of the last then of every
   settled promise is settled, unless an exception left its handlers: nested
   calls of then on the same promise do not lose it. *)
DerivedSettled ==
  stack = <<>> =>
    \A p \in Settled \ cut : reaction[p].next # NULL => reaction[p].next \in Settled

(* A derived promise whose reaction has no handler for the outcome gets the
   very outcome of its source: rejections travel down a chain to the first
   handler, and no re-run of handlers replaces them. *)
OutcomePassesOn ==
  \A p \in Settled :
    LET n == reaction[p].next IN
    n \in Settled /\ ~HasHandler(p) => state[n] = state[p] /\ result[n] = result[p]

(* The promises of promise.c: a state goes with its result, and both travel down
   a chain unchanged. *)
PromiseInv == TypeOK /\ OutcomePassesOn

\* Why: what has not been made is untouched; a derived promise has one source,
\* is settled by it alone and never before it;
Derivation ==
  /\ \A p \in Ids : p > made => state[p] = "pending" /\ reaction[p] = NoReaction
  /\ \A p \in Ids : reaction[p].next # NULL =>
       /\ reaction[p].next \notin resolvers
       /\ reaction[p].next \in Settled => p \in Settled
       /\ \A q \in Ids : reaction[q].next = reaction[p].next => p = q
  /\ \A p \in Ids : reaction[p].next = NULL => reaction[p] = NoReaction
\* only the innermost frame is yet to look at its handlers, and one that has
\* called a handler had one, unless a reaction put in since has been served;
Frames ==
  \A i \in 1..Len(stack) :
    /\ stack[i].at = "start" => i = Len(stack)
    /\ \A p \in Settled : stack[i] = [p |-> p, at |-> "handler"] =>
         /\ reaction[p].next # NULL
         /\ HasHandler(p) \/ reaction[p].next \in Settled \/ stack[Len(stack)] = [p |-> p, at |-> "start"]
\* and a frame that will settle it waits for every derived promise.
Awaited(p) == \E i \in 1..Len(stack) : stack[i].p = p /\ stack[i].at \in {"start", "handler"}
DerivedAwaited ==
  \A p \in Settled \ cut :
    reaction[p].next # NULL => reaction[p].next \in Settled \/ Awaited(p)

PromiseIInv == PromiseInv /\ Derivation /\ Frames /\ DerivedAwaited

\* Why, for a program that attaches one reaction to each promise: the only frame that
\* has not looked at its handlers owes the call, and nobody has made it before.
Due(p) == TopAt("start") /\ Top.p = p
Served ==
  single =>
    /\ \A n \in Ids : n > made => calls[n] = 0
    /\ \A p \in Ids : LET n == reaction[p].next IN n # NULL =>
         /\ calls[n] <= 1
         /\ calls[n] = 1 => p \in Settled /\ HasHandler(p)
         /\ calls[n] = 0 /\ p \in Settled /\ HasHandler(p) => Due(p)
         /\ Due(p) => calls[n] = 0

(* In a program that attaches one reaction to each promise, a handler is
   called exactly once when its promise is settled, before control is back in
   the program, wherever then and resolve were called from; otherwise never. *)
HandlersExactlyOnce ==
  single =>
    \A p \in Made : reaction[p].next # NULL =>
      /\ calls[reaction[p].next] <= 1
      /\ stack = <<>> =>
           (calls[reaction[p].next] = 1 <=> p \in Settled /\ HasHandler(p))
=============================================================================
