-------------------------------- MODULE Events --------------------------------
(***************************************************************************)
(* The EventEmitter of runtime/src/builtins/node_events.c.  emit calls its  *)
(* listeners synchronously from a snapshot and, when they have all          *)
(* returned, stores the list of those that stay.  In between listeners call *)
(* the emitter again, so emits nest, and they may throw.                    *)
(*                                                                          *)
(* removeAllListeners() replaces the map of listener lists; an emit in      *)
(* progress keeps its pointer to the old one.  A registration is a record   *)
(* with an id of its own; one emitter is modelled, and the warning about    *)
(* too many listeners is left out.                                          *)
(***************************************************************************)
EXTENDS Naturals, Sequences

CONSTANTS Names,      \* event names
          Error,      \* the name "error"
          Fns,        \* listener functions
          MaxRegs,    \* bound: registrations
          MaxClears,  \* bound: calls of removeAllListeners()
          MaxDepth    \* bound: emits in progress

ASSUME EventsAssumption ==
  /\ Error \in Names
  /\ MaxRegs \in Nat /\ MaxClears \in Nat /\ MaxDepth \in Nat

VARIABLES
  touches,    \* whether listeners use the event that is being emitted on the
              \* emitter (never changes)
  regs,       \* registrations made so far
  map,        \* which map _events points to
  listeners,  \* the listener list of each event, in the current map
  stack,      \* emits in progress, innermost last
  calls,      \* history: calls of each registration, counted up to 2
  wanted,     \* history: the lists the calls on the emitter ask for
  thrown      \* history: events whose emit an exception left

emitterVars == <<regs, map, listeners>>
histVars == <<calls, wanted, thrown>>
eventsVars == <<touches, emitterVars, stack, histVars>>

Regs == 1..MaxRegs
Entries == [id : Regs, fn : Fns, once : BOOLEAN, map : 0..MaxClears]

EventsTypeOK ==
  /\ touches \in BOOLEAN
  /\ regs \in 0..MaxRegs /\ map \in 0..MaxClears
  /\ listeners \in [Names -> Seq(Entries)]
  /\ stack \in Seq([name : Names, map : 0..map, snap : Seq(Entries),
                    next : Nat \ {0}, remaining : Seq(Entries),
                    calling : BOOLEAN])
  /\ \A i \in 1..Len(stack) :
       /\ stack[i].next <= Len(stack[i].snap) + 1
       /\ Len(stack[i].remaining) < stack[i].next
  /\ calls \in [Regs -> 0..2]
  /\ wanted \in [Names -> Seq(Entries)]
  /\ thrown \subseteq Names

EventsInit ==
  /\ touches \in BOOLEAN
  /\ regs = 0 /\ map = 0
  /\ listeners = [n \in Names |-> <<>>]
  /\ stack = <<>>
  /\ calls = [r \in Regs |-> 0]
  /\ wanted = [n \in Names |-> <<>>]
  /\ thrown = {}

-----------------------------------------------------------------------------
Top == stack[Len(stack)]
Below == SubSeq(stack, 1, Len(stack) - 1)

\* a listener runs, or no emit is in progress
UserCode == stack # <<>> => Top.calling

Emitting == {stack[i].name : i \in 1..Len(stack)}
MayUse(name) == UserCode /\ (touches \/ name \notin Emitting)

\* the list without the first of these positions
Without(list, at) ==
  IF at = {} THEN list
  ELSE LET i == CHOOSE i \in at : \A k \in at : i <= k
       IN SubSeq(list, 1, i - 1) \o SubSeq(list, i + 1, Len(list))

Removed(list, fn) == Without(list, {i \in DOMAIN list : list[i].fn = fn})

AddListener(name, fn, once, prepend) ==
  /\ MayUse(name)
  /\ regs < MaxRegs
  /\ LET entry == [id |-> regs + 1, fn |-> fn, once |-> once, map |-> map]
         Added(list) == IF prepend THEN <<entry>> \o list ELSE Append(list, entry)
     IN /\ listeners' = [listeners EXCEPT ![name] = Added(@)]
        /\ wanted' = [wanted EXCEPT ![name] = Added(@)]
  /\ regs' = regs + 1
  /\ UNCHANGED <<touches, map, stack, calls, thrown>>

\* faulty: removes the last match
RemoveLastListener(name, fn) ==
  /\ MayUse(name)
  /\ LET at == {i \in DOMAIN listeners[name] : listeners[name][i].fn = fn}
     IN listeners' = [listeners EXCEPT ![name] =
          Without(@, {i \in at : \A k \in at : i >= k})]
  /\ wanted' = [wanted EXCEPT ![name] = Removed(@, fn)]
  /\ UNCHANGED <<touches, regs, map, stack, calls, thrown>>

\* "remove first match only (Node semantics)"
RemoveListener(name, fn) ==
  /\ MayUse(name)
  /\ listeners' = [listeners EXCEPT ![name] = Removed(@, fn)]
  /\ wanted' = [wanted EXCEPT ![name] = Removed(@, fn)]
  /\ UNCHANGED <<touches, regs, map, stack, calls, thrown>>

RemoveAll(name) ==
  /\ MayUse(name)
  /\ listeners' = [listeners EXCEPT ![name] = <<>>]
  /\ wanted' = [wanted EXCEPT ![name] = <<>>]
  /\ UNCHANGED <<touches, regs, map, stack, calls, thrown>>

\* removeAllListeners() without a name: a new map
Clear ==
  /\ UserCode
  /\ map < MaxClears
  /\ map' = map + 1
  /\ listeners' = [n \in Names |-> <<>>]
  /\ wanted' = [n \in Names |-> <<>>]
  /\ UNCHANGED <<touches, regs, stack, calls, thrown>>

-----------------------------------------------------------------------------
(* emit *)

\* longjmp to user code below k, or out of all emits
Unwind(k) ==
  /\ k > 0 => stack[k].calling
  /\ stack' = SubSeq(stack, 1, k)
  /\ thrown' = thrown \cup {stack[i].name : i \in (k + 1)..Len(stack)}

EmitNothing(name) ==
  /\ MayUse(name)
  /\ listeners[name] = <<>>
  /\ IF name = Error THEN \E k \in 0..Len(stack) : Unwind(k)
     ELSE UNCHANGED <<stack, thrown>>
  /\ UNCHANGED <<touches, emitterVars, calls, wanted>>

Emit(name) ==
  /\ MayUse(name)
  /\ listeners[name] # <<>>
  /\ Len(stack) < MaxDepth
  /\ stack' = Append(stack, [name |-> name, map |-> map, snap |-> listeners[name],
                             next |-> 1, remaining |-> <<>>, calling |-> FALSE])
  /\ UNCHANGED <<touches, emitterVars, histVars>>

SnapLeft == Top.next <= Len(Top.snap)

CallListener ==
  /\ stack # <<>> /\ ~Top.calling /\ SnapLeft
  /\ LET entry == Top.snap[Top.next]
     IN calls' = [calls EXCEPT ![entry.id] = IF @ < 2 THEN @ + 1 ELSE @]
  /\ stack' = [stack EXCEPT ![Len(stack)].calling = TRUE]
  /\ UNCHANGED <<touches, emitterVars, wanted, thrown>>

\* the once flag decides whether the entry stays
Stays(entry) == ~entry.once

AfterCall(emit, kept) ==
  [emit EXCEPT !.calling = FALSE, !.remaining = kept, !.next = @ + 1]

ListenerReturn ==
  /\ stack # <<>> /\ Top.calling
  /\ LET entry == Top.snap[Top.next]
         kept == IF Stays(entry) THEN Append(Top.remaining, entry) ELSE Top.remaining
     IN /\ stack' = Append(Below, AfterCall(Top, kept))
        /\ wanted' = [wanted EXCEPT ![Top.name] =
             Without(@, {i \in DOMAIN @ : @[i].once /\ @[i].id = entry.id})]
  /\ UNCHANGED <<touches, emitterVars, calls, thrown>>

\* faulty: looks the map up again
EmitReturnsToNewMap ==
  /\ stack # <<>> /\ ~Top.calling /\ ~SnapLeft
  /\ listeners' = [listeners EXCEPT ![Top.name] = Top.remaining]
  /\ stack' = Below
  /\ UNCHANGED <<touches, regs, map, histVars>>

\* stores the remaining listeners in the map it started from
EmitReturn ==
  /\ stack # <<>> /\ ~Top.calling /\ ~SnapLeft
  /\ listeners' = IF Top.map = map THEN [listeners EXCEPT ![Top.name] = Top.remaining]
                  ELSE listeners
  /\ stack' = Below
  /\ UNCHANGED <<touches, regs, map, histVars>>

Throw ==
  /\ stack # <<>> /\ Top.calling
  /\ \E k \in 0..(Len(stack) - 1) : Unwind(k)
  /\ UNCHANGED <<touches, emitterVars, calls, wanted>>

-----------------------------------------------------------------------------
EventsNext ==
  \/ \E name \in Names :
       \/ \E fn \in Fns, once, prepend \in BOOLEAN : AddListener(name, fn, once, prepend)
       \/ \E fn \in Fns : RemoveListener(name, fn)
       \/ RemoveAll(name) \/ EmitNothing(name) \/ Emit(name)
  \/ Clear
  \/ CallListener \/ ListenerReturn \/ EmitReturn \/ Throw

EventsSpec == EventsInit /\ [][EventsNext]_eventsVars

-----------------------------------------------------------------------------
(* Properties *)

(* As long as listeners leave the event alone that is being emitted, every
   event that no emit is busy with has exactly the listeners the calls asked
   for, in order (prepended ones first, the first match removed, once
   listeners gone after one emit), whatever listeners do to other events. *)
ListenersExact ==
  ~touches =>
    \A n \in Names \ (Emitting \cup thrown) : listeners[n] = wanted[n]

(* A once listener is called at most once, if listeners leave the event alone
   that is being emitted and do not throw, also when emits of other events
   nest in it. *)
OnceOnce ==
  ~touches =>
    \A n \in Names \ thrown : \A i \in 1..Len(listeners[n]) :
      LET e == listeners[n][i]
      IN e.once /\ calls[e.id] > 0 => n \in Emitting

(* removeAllListeners() is final also for the events that are being emitted:
   no emit in progress puts a listener registered before it back. *)
ClearIsFinal ==
  \A n \in Names : \A i \in 1..Len(listeners[n]) : listeners[n][i].map = map

(* The listener map of node_events.c while emits are in progress: what was used up
   or cleared does not come back. *)
EventsInv == EventsTypeOK /\ OnceOnce /\ ClearIsFinal

\* Why: a registration has a number of its own and belongs to one event;
In(list) == {list[i] : i \in DOMAIN list}
Known(n) ==
  In(listeners[n]) \cup In(wanted[n])
  \cup UNION {In(stack[i].snap) \cup In(stack[i].remaining) :
                i \in {i \in DOMAIN stack : stack[i].name = n}}
Registered ==
  /\ \A r \in Regs : r > regs => calls[r] = 0
  /\ \A n \in Names : \A e \in Known(n) : e.id <= regs
  /\ \A n, m \in Names : \A e \in Known(n), f \in Known(m) : e.id = f.id => n = m
  /\ \A n \in Names : \A i, k \in DOMAIN wanted[n] : wanted[n][i].id = wanted[n][k].id => i = k
\* what an emit has and keeps is from the map it started with, and stays;
Snapshots ==
  \A i \in DOMAIN stack :
    /\ \A e \in In(stack[i].snap) \cup In(stack[i].remaining) : e.map = stack[i].map
    /\ \A e \in In(stack[i].remaining) : ~e.once
    /\ stack[i].calling => stack[i].next <= Len(stack[i].snap)
\* and what it will store is what is wanted, if nobody else uses its event.
AsWanted(emit, list) ==
  LET kept == Len(emit.remaining)
  IN /\ Len(list) = kept + Len(emit.snap) + 1 - emit.next
     /\ \A i \in 1..kept : list[i] = emit.remaining[i]
     /\ \A i \in emit.next..Len(emit.snap) : list[kept + 1 + i - emit.next] = emit.snap[i]
Undisturbed ==
  ~touches =>
    /\ \A i, k \in DOMAIN stack : stack[i].name = stack[k].name => i = k
    /\ \A i \in DOMAIN stack :
         IF stack[i].map = map
           THEN stack[i].name \notin thrown => AsWanted(stack[i], wanted[stack[i].name])
           ELSE listeners[stack[i].name] = <<>> /\ wanted[stack[i].name] = <<>>

EventsIInv == EventsInv /\ ListenersExact /\ Registered /\ Snapshots /\ Undisturbed

=============================================================================
