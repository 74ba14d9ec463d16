----------------------------- MODULE Exceptions -----------------------------
(***************************************************************************)
(* try, catch and throw of a compiled program.  TS_TRY is setjmp into one   *)
(* global buffer, _ts_current_error, TS_CATCH the else branch and TS_THROW  *)
(* longjmp (runtime.h): the buffer names the try statement that was entered *)
(* last, whether or not it is still running.  A throw also unwinds the C    *)
(* functions of the runtime that called the code, and what they do after a  *)
(* callback (count the job down, end the poll, settle the derived promise)  *)
(* is skipped.  A finally block is dropped by the visitor.                  *)
(*                                                                          *)
(* rules says what a program keeps to; the language asks for none of it,    *)
(* and each property names the rules it needs.                              *)
(***************************************************************************)
EXTENDS Naturals, Sequences, FiniteSets

CONSTANTS Programs,  \* kinds of program: sets of rules
          Jobs,      \* asynchronous jobs, completed by a callback
          Messages,  \* messages that arrive on a socket
          Thens,     \* promises with a handler and a derived promise
          Nothing,   \* no activity, no target
          MaxFrames, \* bound: user code calls no function beyond that many frames
          MaxDepth,  \* bound: nor when the stack is that deep
          MaxTries,  \* bound: try statements ever entered
          MaxThrows  \* bound: throws

\* the try statements a frame is in, outermost first, and what setjmp stores
Tries == [catches : BOOLEAN, at : {"body", "catch"}]
Buffers == [frame : Nat, tries : Seq(Tries) \ {<<>>}]

(* "inTry":     code throws only while some try block is running
   "flat":      no try statement is entered while another try block is running,
                in the same function, a caller or a callback
   "contained": a callback catches what is thrown in it
   "onlyTop":   the only try statement is the one main() makes, and module
                level code throws nothing *)
ASSUME ExceptionsAssumption ==
  /\ Programs \subseteq SUBSET {"inTry", "flat", "contained", "onlyTop"}
  /\ IsFiniteSet(Jobs) /\ Nothing \notin Buffers
  /\ Jobs \cap Messages = {} /\ Jobs \cap Thens = {} /\ Messages \cap Thens = {}
  /\ {MaxFrames, MaxDepth, MaxTries, MaxThrows} \subseteq Nat

VARIABLES
  rules,     \* what the program keeps to (rigid)
  topTry,    \* main() wraps the entry function in TS_TRY (rigid)
  at,        \* where main() is
  stack,     \* C frames of the main thread, innermost last
  buffer,    \* where longjmp goes
  undefined, \* longjmp went to no live setjmp
  frames, tries, throws, \* how many so far
  submitted, \* jobs submitted whose callback was not called
  called,    \* jobs whose callback was called
  inflight,  \* g_inflight of the pool
  unsent,    \* messages still to come
  polling,   \* g_ws_polling
  resolved,  \* promises that are settled
  derived    \* those whose derived promise is settled

jumpVars == <<at, stack, buffer, undefined, frames, tries, throws>>
workVars == <<submitted, called, inflight, unsent, polling, resolved, derived>>
throwVars == <<rules, topTry, jumpVars, workVars>>

Frames ==
  [kind : {"main", "fn", "job", "socket", "then"},
   of : Jobs \cup Messages \cup Thens \cup {Nothing},
   id : Nat, tries : Seq(Tries)]

ThrowTypeOK ==
  /\ rules \in Programs /\ topTry \in BOOLEAN
  /\ at \in {"init", "entry", "loop", "exit"}
  /\ stack \in Seq(Frames) /\ stack # <<>>
  /\ buffer = Nothing \/ buffer \in Buffers
  /\ undefined \in BOOLEAN
  /\ {frames, tries, throws, inflight} \subseteq Nat
  /\ submitted \subseteq Jobs /\ called \subseteq Jobs
  /\ unsent \subseteq Messages /\ polling \in BOOLEAN
  /\ resolved \subseteq Thens /\ derived \subseteq resolved

Frame(kind, of, id) == [kind |-> kind, of |-> of, id |-> id, tries |-> <<>>]

\* main() calls the first init function
ThrowInit ==
  /\ rules \in Programs /\ topTry \in BOOLEAN
  /\ at = "init"
  /\ stack = <<Frame("main", Nothing, 0), Frame("fn", Nothing, 1)>>
  /\ buffer = Nothing /\ undefined = FALSE
  /\ frames = 1 /\ tries = 0 /\ throws = 0
  /\ submitted = {} /\ called = {} /\ inflight = 0
  /\ unsent = Messages /\ polling = FALSE
  /\ resolved = {} /\ derived = {}

-----------------------------------------------------------------------------
Depth == Len(stack)
Top == stack[Depth]
Last(frame) == Len(frame.tries)

InCatch(frame) == frame.tries # <<>> /\ frame.tries[Last(frame)].at = "catch"

Running == ~undefined /\ at # "exit"
\* a function, a callback, or the catch clause in main() is running
UserCode == Running /\ (Depth > 1 \/ InCatch(Top))
InMain == Running /\ Depth = 1 /\ ~InCatch(Top)

\* the try blocks that are running, as <<frame, try>>
Bodies ==
  UNION {{i} \X {n \in DOMAIN stack[i].tries : stack[i].tries[n].at = "body"} : i \in 1..Depth}
Innermost ==
  CHOOSE p \in Bodies :
    \A q \in Bodies : q[1] < p[1] \/ (q[1] = p[1] /\ q[2] <= p[2])

\* frames the runtime called, and what they were called for
Callbacks == {i \in 1..Depth : stack[i].kind \in {"job", "socket", "then"}}
OnStack == {stack[i].of : i \in Callbacks}

Push(s, kind, of) ==
  /\ frames' = frames + 1
  /\ stack' = Append(s, Frame(kind, of, frames + 1))

-----------------------------------------------------------------------------
(* try, catch and throw *)

WithTry(frame, catches) ==
  [frame EXCEPT !.tries = Append(@, [catches |-> catches, at |-> "body"])]
WithoutTry(frame) == [frame EXCEPT !.tries = SubSeq(@, 1, Len(@) - 1)]

\* faulty: the buffer of the outer try statement is kept
EnterTryKeepsBuffer(catches) ==
  /\ UserCode /\ tries < MaxTries
  /\ "flat" \in rules => Bodies = {}
  /\ "onlyTop" \notin rules
  /\ LET frame == WithTry(Top, catches)
     IN /\ stack' = [stack EXCEPT ![Depth] = frame]
        /\ buffer' = IF buffer = Nothing
                       THEN [frame |-> frame.id, tries |-> frame.tries]
                       ELSE buffer
  /\ tries' = tries + 1
  /\ UNCHANGED <<rules, topTry, workVars, at, undefined, frames, throws>>

\* TS_TRY
EnterTry(catches) ==
  /\ UserCode /\ tries < MaxTries
  /\ "flat" \in rules => Bodies = {}
  /\ "onlyTop" \notin rules
  /\ LET frame == WithTry(Top, catches)
     IN /\ stack' = [stack EXCEPT ![Depth] = frame]
        /\ buffer' = [frame |-> frame.id, tries |-> frame.tries]
  /\ tries' = tries + 1
  /\ UNCHANGED <<rules, topTry, workVars, at, undefined, frames, throws>>

\* the end of a try block or of a catch clause: there is no code for it
LeaveTry ==
  /\ UserCode
  /\ Top.tries # <<>>
  /\ stack' = [stack EXCEPT ![Depth] = WithoutTry(@)]
  /\ UNCHANGED <<rules, topTry, workVars, at, buffer, undefined, frames, tries, throws>>

\* setjmp returns again: the else branch, or what follows the statement if it
\* has no catch clause
Caught(frame) ==
  IF frame.tries[Last(frame)].catches
    THEN [frame EXCEPT !.tries[Last(frame)].at = "catch"]
    ELSE WithoutTry(frame)

ThrowAllowed ==
  /\ "inTry" \in rules => Bodies # {}
  /\ "contained" \in rules =>
       \A i \in Callbacks : Bodies # {} /\ i <= Innermost[1]
  /\ "onlyTop" \in rules => at # "init"

\* the frame that executed the setjmp, if it has not returned
Live == {i \in 1..Depth : buffer # Nothing /\ stack[i].id = buffer.frame}

Throw ==
  /\ UserCode /\ throws < MaxThrows /\ ThrowAllowed
  /\ throws' = throws + 1
  /\ IF Live = {}
       THEN undefined' = TRUE /\ UNCHANGED <<at, stack>>
       ELSE LET i == CHOOSE k \in Live : TRUE
            IN /\ stack' = Append(SubSeq(stack, 1, i - 1),
                                  Caught([stack[i] EXCEPT !.tries = buffer.tries]))
               /\ at' = IF i = 1 THEN "entry" ELSE at
               /\ UNCHANGED undefined
  /\ UNCHANGED <<rules, topTry, workVars, buffer, frames, tries>>

-----------------------------------------------------------------------------
(* Functions, and the callbacks of the runtime *)

Call ==
  /\ UserCode
  /\ frames < MaxFrames /\ Depth < MaxDepth
  /\ Push(stack, "fn", Nothing)
  /\ UNCHANGED <<rules, topTry, workVars, at, buffer, undefined, tries, throws>>

SubmitJob(j) ==
  /\ UserCode
  /\ j \notin submitted \cup called
  /\ submitted' = submitted \cup {j}
  /\ inflight' = inflight + 1
  /\ UNCHANGED <<rules, topTry, called, unsent, polling, resolved, derived, jumpVars>>

\* ts_completion_poll, called by the loop or by a ts_await of user code
Complete(j) ==
  /\ UserCode \/ (InMain /\ at = "loop")
  /\ j \in submitted
  /\ submitted' = submitted \ {j} /\ called' = called \cup {j}
  /\ Push(stack, "job", j)
  /\ UNCHANGED <<rules, topTry, inflight, unsent, polling, resolved, derived,
                 at, buffer, undefined, tries, throws>>

\* faulty: a poll ignores the guard and does not set it
ReceiveUnguarded(m) ==
  /\ InMain /\ at = "loop"
  /\ m \in unsent
  /\ unsent' = unsent \ {m}
  /\ Push(stack, "socket", m)
  /\ UNCHANGED <<rules, topTry, submitted, called, inflight, polling, resolved, derived,
                 at, buffer, undefined, tries, throws>>

\* ts_websocket_poll, called by the loop
Receive(m) ==
  /\ InMain /\ at = "loop"
  /\ ~polling
  /\ m \in unsent
  /\ polling' = TRUE
  /\ unsent' = unsent \ {m}
  /\ Push(stack, "socket", m)
  /\ UNCHANGED <<rules, topTry, submitted, called, inflight, resolved, derived,
                 at, buffer, undefined, tries, throws>>

\* ts_promise_resolve and run_handlers
Resolve(t) ==
  /\ UserCode
  /\ t \notin resolved
  /\ resolved' = resolved \cup {t}
  /\ Push(stack, "then", t)
  /\ UNCHANGED <<rules, topTry, submitted, called, inflight, unsent, polling, derived,
                 at, buffer, undefined, tries, throws>>

\* faulty: ts_completion_poll forgets the count
AfterCallbackUncounted(frame) ==
  /\ inflight' = inflight
  /\ polling' = (polling /\ frame.kind # "socket")
  /\ derived' = IF frame.kind = "then" THEN derived \cup {frame.of} ELSE derived
\* what the caller does when user code returns to it
AfterCallback(frame) ==
  /\ inflight' = IF frame.kind = "job" THEN inflight - 1 ELSE inflight
  /\ polling' = (polling /\ frame.kind # "socket")
  /\ derived' = IF frame.kind = "then" THEN derived \cup {frame.of} ELSE derived

Return ==
  /\ UserCode /\ Depth > 1
  /\ stack' = SubSeq(stack, 1, Depth - 1)
  /\ AfterCallback(Top)
  /\ UNCHANGED <<rules, topTry, at, buffer, undefined, frames, tries, throws,
                 submitted, called, unsent, resolved>>

-----------------------------------------------------------------------------
(* main() *)

\* the modules are initialised: TS_TRY if the program has one, and the entry
Enter ==
  /\ InMain /\ at = "init"
  /\ at' = "entry"
  /\ IF topTry
       THEN LET frame == WithTry(Top, TRUE)
            IN /\ Push(<<frame>>, "fn", Nothing)
               /\ buffer' = [frame |-> frame.id, tries |-> frame.tries]
               /\ tries' = tries + 1
       ELSE Push(stack, "fn", Nothing) /\ UNCHANGED <<buffer, tries>>
  /\ UNCHANGED <<rules, topTry, workVars, undefined, throws>>

\* the entry function returned, or the catch clause ended
StartLoop ==
  /\ InMain /\ at = "entry"
  /\ at' = "loop"
  /\ stack' = <<[Top EXCEPT !.tries = <<>>]>>
  /\ UNCHANGED <<rules, topTry, workVars, buffer, undefined, frames, tries, throws>>

Pending == inflight > 0 \/ unsent # {}

Exit ==
  /\ InMain /\ at = "loop" /\ ~Pending
  /\ at' = "exit"
  /\ UNCHANGED <<rules, topTry, workVars, stack, buffer, undefined, frames, tries, throws>>

\* a round of the loop that finds nothing, or the end
Spin == (~Running \/ (InMain /\ at = "loop" /\ Pending)) /\ UNCHANGED throwVars

-----------------------------------------------------------------------------
Callback ==
  \/ \E j \in Jobs : Complete(j)
  \/ \E m \in Messages : Receive(m)

Code ==
  \/ \E catches \in BOOLEAN : EnterTry(catches)
  \/ Throw \/ Call
  \/ \E j \in Jobs : SubmitJob(j)
  \/ \E t \in Thens : Resolve(t)

MainStep == Enter \/ StartLoop \/ Exit

ThrowNext == Code \/ LeaveTry \/ Return \/ Callback \/ MainStep \/ Spin

\* The main thread is scheduled, and user code comes to its end.
Fairness ==
  WF_throwVars(LeaveTry) /\ WF_throwVars(Return) /\ WF_throwVars(Callback) /\ WF_throwVars(MainStep)

ThrowSpec == ThrowInit /\ [][ThrowNext]_throwVars /\ Fairness

-----------------------------------------------------------------------------
(* Properties *)

Disciplined == {"inTry", "flat"} \subseteq rules

(* If try blocks never overlap and nothing is thrown outside one, a throw
   continues where the language says: in the innermost try statement whose block
   is running.  That the last one entered is that one has to survive functions
   that return out of a try block and the callbacks a ts_await runs. *)
CatchesInnermost ==
  [][throws' # throws /\ Disciplined
       => LET p == Innermost
          IN stack' = Append(SubSeq(stack, 1, p[1] - 1),
                             Caught([stack[p[1]] EXCEPT !.tries = SubSeq(@, 1, p[2])]))]_throwVars

(* longjmp never goes to a buffer that was not set or whose function returned
   (node_7zip.c: "only valid inside a TS_TRY block"), for disciplined programs,
   and for those whose only try statement is the one main() makes: its frame
   outlives every callback of the loop. *)
NoUndefinedJump ==
  Disciplined \/ (topTry /\ "onlyTop" \in rules) => ~undefined

(* When callbacks catch what they throw, no throw skips what the runtime does
   after a callback: g_inflight counts the jobs whose callback has not returned,
   g_ws_polling is set only during a poll, and every derived promise settles. *)
NothingSkipped ==
  Disciplined /\ "contained" \in rules =>
    /\ inflight = Cardinality(submitted \cup (OnStack \cap Jobs))
    /\ polling <=> OnStack \cap Messages # {}
    /\ derived = resolved \ OnStack

(* What a longjmp of runtime.h must leave as it was: a buffer that is still on the
   stack, and the runtime's own accounts. *)
ThrowInv == ThrowTypeOK /\ NoUndefinedJump /\ NothingSkipped

\* Why: a frame has an id of its own and, if the runtime called it, its own reason;
Skeleton ==
  /\ stack[1].kind = "main" /\ stack[1].id = 0
  /\ \A i \in 1..Depth :
       /\ stack[i].id <= frames
       /\ stack[i].kind = "job" => stack[i].of \in called
       /\ stack[i].kind = "socket" => i = 2 /\ stack[i].of \in Messages \ unsent
       /\ stack[i].kind = "then" => stack[i].of \in resolved
  /\ \A i, j \in 1..Depth : i < j => stack[i].id < stack[j].id
  /\ \A i, j \in Callbacks : stack[i].of = stack[j].of => i = j
  /\ submitted \cap called = {}
\* g_inflight counts at least the jobs whose callback has not returned;
JobsCounted == inflight >= Cardinality(submitted \cup (OnStack \cap Jobs))
\* the buffer names the one try block that is running,
BufferNamesBody ==
  Disciplined =>
    /\ \A p, q \in Bodies : p = q
    /\ \A p \in Bodies :
         /\ p[2] = Last(stack[p[1]])
         /\ buffer = [frame |-> stack[p[1]].id, tries |-> stack[p[1]].tries]
\* or main()'s, whose frame stays.
MainsTry ==
  /\ at = "init" => stack[1].tries = <<>>
  /\ topTry /\ "onlyTop" \in rules /\ at # "init" => buffer # Nothing /\ buffer.frame = 0

ThrowIInv == ThrowInv /\ Skeleton /\ JobsCounted /\ BufferNamesBody /\ MainsTry

(* Such a program ends: no throw leaves the loop of main() waiting for a job
   that was called, or a socket that no poll reads any more. *)
LoopEnds == (Disciplined /\ "contained" \in rules) ~> at = "exit"
=============================================================================
