------------------------- MODULE MainThread_proofs -------------------------
(* Proofs about what runs on the main thread of a compiled program: its loop and
   ts_await (EventLoop), for any jobs, timers and depth of the stack, and the timer
   list they poll (Timers), for any number of timers, delays, clock and nesting.
   The two are proved apart, each for its own specification. *)
EXTENDS EventLoop, Timers, FiniteSetTheorems, SequenceTheorems, TLAPS

(* LoopIInv: LoopInv follows from Winding where it says what main() left. *)
Core == TypeOK /\ CompletionsOnStack /\ JobsOnce /\ Awaited /\ Winding

-----------------------------------------------------------------------------
(* Queues without repetitions *)

(* A job is put at the end of a queue, *)
LEMMA Added ==
  ASSUME NEW S, NEW s \in Seq(S), NEW x \in S
  PROVE  /\ Append(s, x) \in Seq(S) /\ Append(s, x) # <<>> /\ Len(Append(s, x)) = Len(s) + 1
         /\ Append(s, x)[Len(s) + 1] = x
         /\ \A k \in 1..Len(s) : Append(s, x)[k] = s[k]
         /\ Contents(Append(s, x)) = Contents(s) \cup {x}
         /\ Distinct(s) /\ x \notin Contents(s) => Distinct(Append(s, x))
<1> DEFINE n == Len(s)
           t == Append(s, x)
<1>1. /\ n \in Nat /\ t \in Seq(S) /\ t # <<>> /\ Len(t) = n + 1
      /\ t[n + 1] = x /\ \A k \in 1..n : t[k] = s[k]
  OBVIOUS
<1>2. \A k : k \in 1..Len(t) <=> k \in 1..n \/ k = n + 1
  BY <1>1
<1>3. \A k \in 1..n : k # n + 1
  BY <1>1
<1> HIDE DEF n, t
<1>4. Contents(t) = Contents(s) \cup {x}
  BY <1>1, <1>2 DEF Contents, n
<1>5. ASSUME Distinct(s), x \notin Contents(s) PROVE Distinct(t)
  BY <1>5, <1>1, <1>2, <1>3 DEF Contents, Distinct, n
<1> QED BY <1>1, <1>4, <1>5 DEF n, t

(* taken from its front, *)
LEMMA Removed ==
  ASSUME NEW S, NEW s \in Seq(S), s # <<>>, Distinct(s)
  PROVE  /\ Tail(s) \in Seq(S) /\ Distinct(Tail(s))
         /\ Head(s) \in Contents(s) /\ Head(s) \in S
         /\ Contents(Tail(s)) = Contents(s) \ {Head(s)}
<1> DEFINE n == Len(s)
           t == Tail(s)
<1>1. /\ n \in Nat /\ n >= 1 /\ t \in Seq(S) /\ Len(t) = n - 1
      /\ Head(s) = s[1] /\ s[1] \in S /\ \A k \in 1..n - 1 : t[k] = s[k + 1]
  OBVIOUS
<1> HIDE DEF n, t
<1>2. \A k \in 1..Len(t) : k + 1 \in 1..n /\ k + 1 # 1 /\ t[k] = s[k + 1]
  BY <1>1
<1>3. Distinct(t)
  BY <1>1, <1>2 DEF Distinct, n
<1>4. Contents(t) \subseteq Contents(s) \ {s[1]}
  <2>1. \A k \in 1..n : s[k] = s[1] => k = 1
    BY <1>1 DEF Distinct, n
  <2> QED BY <1>2, <2>1 DEF Contents, n
<1>5. Contents(s) \ {s[1]} \subseteq Contents(t)
  <2> SUFFICES ASSUME NEW k \in 1..n, k # 1 PROVE s[k] \in Contents(t)
    BY DEF Contents, n
  <2>1. k - 1 \in 1..Len(t) /\ t[k - 1] = s[k]
    BY <1>1
  <2> QED BY <2>1 DEF Contents
<1>6. s[1] \in Contents(s)
  BY <1>1 DEF Contents, n
<1> QED BY <1>1, <1>3, <1>4, <1>5, <1>6 DEF t

(* or from its end. *)
LEMMA Popped ==
  ASSUME NEW S, NEW s \in Seq(S), s # <<>>
  PROVE  LET t == SubSeq(s, 1, Len(s) - 1)
             x == s[Len(s)] IN
         /\ Len(s) \in Nat /\ Len(s) >= 1 /\ t \in Seq(S) /\ Len(t) = Len(s) - 1
         /\ \A k \in 1..Len(s) - 1 : t[k] = s[k]
         /\ x \in S /\ x \in Contents(s)
         /\ Distinct(s) => Distinct(t) /\ Contents(t) = Contents(s) \ {x}
<1> DEFINE n == Len(s)
           t == SubSeq(s, 1, n - 1)
           x == s[n]
<1>0. n \in Nat /\ n >= 1 /\ x \in S
  OBVIOUS
<1>1. /\ n \in Nat /\ n >= 1 /\ t \in Seq(S) /\ Len(t) = n - 1
      /\ x \in S /\ \A k \in 1..n - 1 : t[k] = s[k]
  <2>1. n - 1 \in Int /\ 1 \in Int /\ \A k \in 1..n - 1 : s[k] \in S
    BY <1>0
  <2>2. /\ t \in Seq(S) /\ Len(t) = (IF 1 <= n - 1 THEN n - 1 - 1 + 1 ELSE 0)
        /\ \A k \in 1..n - 1 - 1 + 1 : t[k] = s[1 + k - 1]
    BY <2>1, SubSeqProperties
  <2>3. \A k \in 1..n - 1 : k \in 1..n - 1 - 1 + 1 /\ 1 + k - 1 = k
    BY <1>0
  <2> HIDE DEF t, n
  <2>4. \A k \in 1..n - 1 : t[k] = s[k]
    BY <2>2, <2>3
  <2>5. Len(t) = n - 1
    BY <1>0, <2>2
  <2> QED BY <1>0, <2>2, <2>4, <2>5
<1> HIDE DEF n, t
<1>2. \A k : k \in 1..Len(t) <=> k \in 1..n /\ k # n
  BY <1>1
<1>3. n \in 1..n /\ \A k \in 1..Len(t) : t[k] = s[k]
  BY <1>1
<1>4. ASSUME Distinct(s) PROVE Distinct(t) /\ Contents(t) = Contents(s) \ {x}
  BY <1>4, <1>2, <1>3 DEF Distinct, Contents, n
<1>5. x \in Contents(s)
  BY <1>3 DEF Contents, n
<1> QED BY <1>1, <1>4, <1>5 DEF n, t

(* Cutting a stack off keeps what is below. *)
LEMMA Prefixed ==
  ASSUME NEW S, NEW s \in Seq(S), NEW n \in Nat, n <= Len(s)
  PROVE  /\ SubSeq(s, 1, n) \in Seq(S) /\ Len(SubSeq(s, 1, n)) = n
         /\ \A k \in 1..n : SubSeq(s, 1, n)[k] = s[k]
         /\ Contents(SubSeq(s, 1, n)) \subseteq Contents(s)
         /\ Distinct(s) => Distinct(SubSeq(s, 1, n))
<1> DEFINE t == SubSeq(s, 1, n)
           m == Len(s)
<1>1. m \in Nat /\ n <= m /\ \A k \in 1..n : k \in 1..m /\ s[k] \in S
  OBVIOUS
<1>2. /\ t \in Seq(S)
      /\ Len(t) = IF 1 <= n THEN n - 1 + 1 ELSE 0
      /\ \A k \in 1..(n - 1 + 1) : t[k] = s[1 + k - 1]
  BY <1>1, SubSeqProperties
<1> HIDE DEF t, m
<1>3. Len(t) = n
  BY <1>2
<1>4. ASSUME NEW k \in 1..n PROVE t[k] = s[k]
  <2>1. k \in 1..(n - 1 + 1) /\ 1 + k - 1 = k
    OBVIOUS
  <2> QED BY <1>2, <2>1
<1>5. Contents(t) \subseteq Contents(s) /\ (Distinct(s) => Distinct(t))
  BY <1>1, <1>3, <1>4 DEF Contents, Distinct, m
<1> QED BY <1>2, <1>3, <1>4, <1>5 DEF t

-----------------------------------------------------------------------------
(* Jobs *)

(* JobsOnce through the pool's steps: a job is submitted, *)
LEMMA SubmitOnce ==
  ASSUME JobsOnce, NEW j \in Jobs, Submit(j), UNCHANGED settled
  PROVE  JobsOnce' /\ Known' = Known \cup {j} /\ delivering' = delivering
<1>1. /\ queue \in Seq(Jobs) /\ Distinct(queue) /\ j \notin Contents(queue)
      /\ queue' = Append(queue, j)
      /\ UNCHANGED <<running, finished, delivering, delivered, abandoned>>
  BY DEF JobsOnce, Submit, Known
<1>2. queue' \in Seq(Jobs) /\ Distinct(queue') /\ Contents(queue') = Contents(queue) \cup {j}
  BY <1>1, Added
<1>3. Contents(finished') = Contents(finished) /\ Contents(delivering') = Contents(delivering)
      /\ Distinct(finished') = Distinct(finished) /\ Distinct(delivering') = Distinct(delivering)
  BY <1>1
<1>4. j \notin Known
  BY DEF Submit
<1>5. JobsOnce'
  BY <1>1, <1>2, <1>3, <1>4 DEF JobsOnce, Known
<1> QED BY <1>1, <1>2, <1>3, <1>5 DEF Known

(* a worker takes it, *)
LEMMA StartOnce ==
  ASSUME JobsOnce, Start, UNCHANGED settled
  PROVE  JobsOnce' /\ Known' = Known /\ UNCHANGED <<delivering, delivered, abandoned>>
<1>1. /\ queue \in Seq(Jobs) /\ Distinct(queue) /\ queue # <<>>
      /\ running' = running \cup {Head(queue)} /\ queue' = Tail(queue)
      /\ UNCHANGED <<finished, delivering, delivered, abandoned>>
  BY DEF JobsOnce, Start
<1>2. /\ queue' \in Seq(Jobs) /\ Distinct(queue')
      /\ Head(queue) \in Contents(queue) /\ Head(queue) \in Jobs
      /\ Contents(queue') = Contents(queue) \ {Head(queue)}
  BY <1>1, Removed
<1>3. Contents(finished') = Contents(finished) /\ Contents(delivering') = Contents(delivering)
      /\ Distinct(finished') = Distinct(finished) /\ Distinct(delivering') = Distinct(delivering)
  BY <1>1
<1> DEFINE h == Head(queue)
<1> HIDE DEF h
<1>4. running' = running \cup {h} /\ h \in Contents(queue) /\ h \in Jobs
      /\ Contents(queue') = Contents(queue) \ {h}
  BY <1>1, <1>2 DEF h
<1>5. JobsOnce'
  BY <1>1, <1>2, <1>3, <1>4 DEF JobsOnce
<1>6. Known' = Known
  BY <1>1, <1>3, <1>4 DEF Known
<1> QED BY <1>1, <1>5, <1>6

(* it finishes, *)
LEMMA FinishOnce ==
  ASSUME JobsOnce, NEW j \in Jobs, Finish(j), UNCHANGED settled
  PROVE  JobsOnce' /\ Known' = Known /\ UNCHANGED <<delivering, delivered, abandoned>>
<1>1. /\ finished \in Seq(Jobs) /\ Distinct(finished) /\ j \in running /\ j \notin Contents(finished)
      /\ running' = running \ {j} /\ finished' = Append(finished, j)
      /\ UNCHANGED <<queue, delivering, delivered, abandoned>>
  BY DEF JobsOnce, Finish
<1>2. finished' \in Seq(Jobs) /\ Distinct(finished') /\ Contents(finished') = Contents(finished) \cup {j}
  BY <1>1, Added
<1>3. Contents(queue') = Contents(queue) /\ Contents(delivering') = Contents(delivering)
      /\ Distinct(queue') = Distinct(queue) /\ Distinct(delivering') = Distinct(delivering)
  BY <1>1
<1>5. JobsOnce'
  BY <1>1, <1>2, <1>3 DEF JobsOnce
<1>6. Known' = Known
  BY <1>1, <1>2, <1>3 DEF Known
<1> QED BY <1>1, <1>5, <1>6

(* its completion callback is called, the promise settled, *)
LEMMA DeliverOnce ==
  ASSUME JobsOnce, delivering \in Seq(Jobs), Deliver, settled' = settled \cup {Head(finished)}
  PROVE  /\ JobsOnce' /\ Known' = Known /\ UNCHANGED <<delivered, abandoned>>
         /\ Head(finished) \in Jobs /\ delivering' = Append(delivering, Head(finished))
         /\ delivering' \in Seq(Jobs) /\ Head(finished) \in Known \ delivered
<1> DEFINE h == Head(finished)
<1>1. /\ finished \in Seq(Jobs) /\ Distinct(finished) /\ finished # <<>> /\ Distinct(delivering)
      /\ delivering' = Append(delivering, h) /\ finished' = Tail(finished)
      /\ UNCHANGED <<queue, running, delivered, abandoned>>
  BY DEF JobsOnce, Deliver
<1>2. /\ finished' \in Seq(Jobs) /\ Distinct(finished')
      /\ h \in Contents(finished) /\ h \in Jobs
      /\ Contents(finished') = Contents(finished) \ {h}
  BY <1>1, Removed
<1> HIDE DEF h
<1>3. h \notin Contents(delivering) /\ h \notin delivered
  BY <1>2 DEF JobsOnce
<1>4. /\ delivering' \in Seq(Jobs) /\ Distinct(delivering')
      /\ Contents(delivering') = Contents(delivering) \cup {h}
  BY <1>1, <1>2, <1>3, Added
<1>5. Contents(queue') = Contents(queue) /\ Distinct(queue') = Distinct(queue)
  BY <1>1
<1>6. settled' = settled \cup {h}
  BY DEF h
<1>7. JobsOnce'
  BY <1>1, <1>2, <1>3, <1>4, <1>5, <1>6 DEF JobsOnce
<1>8. Known' = Known /\ h \in Known
  BY <1>1, <1>2, <1>4, <1>5 DEF Known
<1> QED BY <1>1, <1>2, <1>3, <1>4, <1>7, <1>8 DEF h

(* and returns. *)
LEMMA ReturnOnce ==
  ASSUME JobsOnce, delivering \in Seq(Jobs), Return, UNCHANGED settled
  PROVE  /\ JobsOnce' /\ Known' = Known /\ abandoned' = abandoned
         /\ delivering # <<>> /\ delivering' = SubSeq(delivering, 1, Len(delivering) - 1)
         /\ delivering' \in Seq(Jobs) /\ delivering[Len(delivering)] \in Known \ delivered
<1> DEFINE x == delivering[Len(delivering)]
<1>1. /\ delivering # <<>> /\ Distinct(delivering)
      /\ delivering' = SubSeq(delivering, 1, Len(delivering) - 1)
      /\ delivered' = delivered \cup {x}
      /\ UNCHANGED <<queue, running, finished, abandoned>>
  BY DEF JobsOnce, Return
<1>2. /\ delivering' \in Seq(Jobs) /\ Distinct(delivering')
      /\ x \in Contents(delivering) /\ x \in Jobs
      /\ Contents(delivering') = Contents(delivering) \ {x}
  BY <1>1, Popped
<1> HIDE DEF x
<1>3. Contents(queue') = Contents(queue) /\ Contents(finished') = Contents(finished)
      /\ Distinct(queue') = Distinct(queue) /\ Distinct(finished') = Distinct(finished)
  BY <1>1
<1>4. JobsOnce'
  BY <1>1, <1>2, <1>3 DEF JobsOnce
<1>5. Known' = Known /\ x \in Known /\ x \notin delivered
  BY <1>1, <1>2, <1>3 DEF Known, JobsOnce
<1> QED BY <1>1, <1>2, <1>4, <1>5 DEF x

(* Steps that leave the pool alone. *)
LEMMA SameJobs ==
  ASSUME UNCHANGED jobVars, UNCHANGED cut
  PROVE  /\ JobsOnce /\ settled \subseteq settled' => JobsOnce'
         /\ Known' = Known /\ delivered' = delivered /\ delivering' = delivering
         /\ JobsPending' = JobsPending
<1>1. UNCHANGED <<queue, running, finished, delivering, delivered, abandoned>>
  BY DEF jobVars
<1>2. Known' = Known
  BY <1>1 DEF Known
<1>3. JobsPending' = JobsPending
  BY <1>1, <1>2 DEF JobsPending
<1>4. JobsOnce /\ settled \subseteq settled' => JobsOnce'
  BY <1>1 DEF JobsOnce
<1> QED BY <1>1, <1>2, <1>3, <1>4

(* Once no job is pending, none is anywhere. *)
LEMMA Idle ==
  ASSUME JobsOnce, delivering \in Seq(Jobs), ~JobsPending
  PROVE  queue = <<>> /\ running = {} /\ finished = <<>> /\ delivering = <<>> /\ Known = delivered
<1>1. Known = delivered
  BY DEF JobsPending, JobsOnce
<1>2. /\ Contents(queue) = {} /\ running = {} /\ Contents(finished) = {} /\ Contents(delivering) = {}
  BY <1>1 DEF JobsOnce, Known
<1>3. ASSUME NEW s \in Seq(Jobs), Contents(s) = {} PROVE s = <<>>
  <2>1. s # <<>> => s[1] \in Contents(s)
    BY DEF Contents
  <2> QED BY <1>3, <2>1
<1> QED BY <1>1, <1>2, <1>3 DEF JobsOnce

-----------------------------------------------------------------------------
(* Frames *)

SameCall(f, g) == f.kind = g.kind /\ f.of = g.of
Named == Promises \cup Events \cup {Nobody}
Fits(kind, at) ==
  \/ kind = "main" /\ at \in {"code", "start", "timersDone", "jobsDone", "run", "last", "exit"}
  \/ kind = "await" /\ at \in {"start", "timersDone", "jobsDone"}
  \/ kind \in {"timers", "jobs", "call"} /\ at = "start"

(* Frames, without the records. *)
LEMMA FramesAre ==
  /\ \A f \in Frames : Fits(f.kind, f.at) /\ f.of \in Named /\ f.did \in BOOLEAN /\ f.ahead \subseteq Timers
  /\ \A kind, at : \A of \in Named : \A did \in BOOLEAN : \A ahead \in SUBSET Timers :
       Fits(kind, at) => [kind |-> kind, of |-> of, at |-> at, did |-> did, ahead |-> ahead] \in Frames
BY DEF Frames, FramesOf, Fits, Named

(* A new frame, *)
LEMMA FrameFacts ==
  ASSUME NEW kind, NEW at, Fits(kind, at), NEW of \in Named, NEW ahead \in SUBSET Timers
  PROVE  /\ Frame(kind, of, at, ahead) \in Frames
         /\ Frame(kind, of, at, ahead).kind = kind /\ Frame(kind, of, at, ahead).of = of
         /\ Frame(kind, of, at, ahead).at = at
BY FramesAre DEF Frame

(* and one whose function moves on. *)
LEMMA EditFacts ==
  ASSUME NEW f \in Frames
  PROVE  /\ \A a : Fits(f.kind, a) =>
              LET g == [f EXCEPT !.at = a] IN g \in Frames /\ SameCall(g, f) /\ g.at = a
         /\ \A a : Fits(f.kind, a) =>
              LET g == [f EXCEPT !.at = a, !.did = FALSE] IN g \in Frames /\ SameCall(g, f) /\ g.at = a
         /\ \A d \in BOOLEAN :
              LET g == [f EXCEPT !.did = d] IN g \in Frames /\ SameCall(g, f) /\ g.at = f.at
BY DEF Frames, FramesOf, Fits, SameCall

(* The stack is never empty, and has a frame on top. *)
LEMMA StackFacts ==
  ASSUME TypeOK
  PROVE  /\ stack \in Seq(Frames) /\ Depth \in Nat /\ Depth >= 1 /\ Depth \in 1..Depth
         /\ Top \in Frames
         /\ \A i \in 1..Depth : stack[i] \in Frames
<1>1. stack \in Seq(Frames) /\ stack # <<>>
  BY DEF TypeOK
<1>2. Len(stack) \in Nat /\ Len(stack) >= 1 /\ \A i \in 1..Len(stack) : stack[i] \in Frames
  <2> HIDE DEF Frames
  <2> QED BY <1>1
<1> QED BY <1>1, <1>2 DEF Depth, Top

(* The stack with another innermost frame, *)
Retouched(s, a) ==
  /\ s \in Seq(Frames) /\ Len(s) = Depth
  /\ \A i \in 1..Depth - 1 : s[i] = stack[i]
  /\ SameCall(s[Depth], Top) /\ s[Depth].at = a

(* another frame of the same call, *)
LEMMA Replaced ==
  ASSUME TypeOK, NEW g \in Frames, SameCall(g, Top)
  PROVE  Retouched([stack EXCEPT ![Depth] = g], g.at)
<1> DEFINE s == [stack EXCEPT ![Depth] = g]
<1>1. s \in Seq(Frames) /\ Len(s) = Depth /\ s[Depth] = g
      /\ \A i \in 1..Depth - 1 : s[i] = stack[i]
  <2> HIDE DEF Frames
  <2> QED BY StackFacts DEF Depth
<1> HIDE DEF s
<1>2. Retouched(s, g.at)
  BY <1>1 DEF Retouched
<1> QED BY <1>2 DEF s

(* which the actions write in three ways, *)
LEMMA MovedTop ==
  ASSUME TypeOK, NEW a, Fits(Top.kind, a)
  PROVE  /\ Retouched(Moved(a), a)
         /\ Retouched([stack EXCEPT ![Depth].at = a, ![Depth].did = FALSE], a)
         /\ Depth = 1 => Retouched(Goto(a), a)
<1> DEFINE g == [Top EXCEPT !.at = a]
           h == [Top EXCEPT !.at = a, !.did = FALSE]
<1>1. g \in Frames /\ SameCall(g, Top) /\ g.at = a
  BY EditFacts, StackFacts
<1>2. h \in Frames /\ SameCall(h, Top) /\ h.at = a
  BY EditFacts, StackFacts
<1>3. stack \in Seq(Frames) /\ Depth \in DOMAIN stack
  BY StackFacts DEF Depth
<1>4. Moved(a) = [stack EXCEPT ![Depth] = g]
  BY <1>3 DEF Moved, Top
<1>5. [stack EXCEPT ![Depth].at = a, ![Depth].did = FALSE] = [stack EXCEPT ![Depth] = h]
  BY <1>3 DEF Top
<1>6. Depth = 1 => Goto(a) = [stack EXCEPT ![Depth] = h]
  BY <1>3, <1>5 DEF Goto
<1> HIDE DEF g, h
<1> QED BY <1>1, <1>2, <1>4, <1>5, <1>6, Replaced

(* with one frame more, *)
LEMMA Grown ==
  ASSUME TypeOK, NEW s, NEW a, Retouched(s, a), NEW f \in Frames
  PROVE  /\ Append(s, f) \in Seq(Frames) /\ Append(s, f) # <<>> /\ Len(Append(s, f)) = Depth + 1
         /\ \A i \in 1..Depth - 1 : Append(s, f)[i] = stack[i]
         /\ SameCall(Append(s, f)[Depth], Top) /\ Append(s, f)[Depth].at = a
         /\ Append(s, f)[Depth + 1] = f
<1>1. s \in Seq(Frames) /\ Len(s) = Depth /\ Depth \in Nat /\ Depth >= 1
  BY StackFacts DEF Retouched
<1>2. /\ Append(s, f) \in Seq(Frames) /\ Append(s, f) # <<>> /\ Len(Append(s, f)) = Depth + 1
      /\ Append(s, f)[Depth + 1] = f /\ \A k \in 1..Depth : Append(s, f)[k] = s[k]
  BY <1>1, Added
<1>3. /\ \A i \in 1..Depth - 1 : i \in 1..Depth
      /\ Depth \in 1..Depth
  BY <1>1
<1> QED BY <1>2, <1>3 DEF Retouched

(* or the frame as it is, *)
LEMMA Itself ==
  ASSUME TypeOK
  PROVE  Retouched(stack, Top.at)
BY StackFacts DEF Retouched, SameCall, Top, Depth

(* and with one less. *)
LEMMA Shrunk ==
  ASSUME TypeOK, Depth >= 2, NEW d \in BOOLEAN
  PROVE  /\ Returned(d) \in Seq(Frames) /\ Returned(d) # <<>> /\ Len(Returned(d)) = Depth - 1
         /\ \A i \in 1..Depth - 2 : Returned(d)[i] = stack[i]
         /\ SameCall(Returned(d)[Depth - 1], stack[Depth - 1])
         /\ Returned(d)[Depth - 1].at = stack[Depth - 1].at
<1> DEFINE n == Depth - 1
           t == SubSeq(stack, 1, n)
           b == t[n].did \/ d
           g == [t[n] EXCEPT !.did = b]
           s == [t EXCEPT ![n] = g]
<1>1. /\ n \in Nat /\ n >= 1 /\ t \in Seq(Frames) /\ Len(t) = n
      /\ \A k \in 1..n : t[k] = stack[k]
  BY StackFacts, Popped DEF TypeOK, Depth
<1>2. n \in 1..n /\ t[n] = stack[n] /\ t[n] \in Frames
  BY <1>1, StackFacts
<1>3. b \in BOOLEAN
  OBVIOUS
<1> HIDE DEF b
<1>4. g \in Frames /\ SameCall(g, t[n]) /\ g.at = t[n].at
  BY <1>2, <1>3, EditFacts
<1>5. n \in DOMAIN t
  BY <1>1, <1>2
<1>6. Returned(d) = s
  BY <1>5 DEF Returned, b
<1> HIDE DEF t, g
<1>7. s \in Seq(Frames) /\ Len(s) = n /\ s[n] = g /\ \A i \in 1..n - 1 : s[i] = t[i]
  <2> HIDE DEF Frames
  <2> QED BY <1>1, <1>4
<1> HIDE DEF s
<1>8. s # <<>> /\ \A i \in 1..n - 1 : s[i] = stack[i]
  BY <1>1, <1>7
<1>9. \A i \in 1..Depth - 2 : s[i] = stack[i]
  BY <1>8, StackFacts
<1>10. SameCall(s[Depth - 1], stack[Depth - 1]) /\ s[Depth - 1].at = stack[Depth - 1].at
  BY <1>2, <1>4, <1>7
<1> QED BY <1>6, <1>7, <1>8, <1>9, <1>10

-----------------------------------------------------------------------------
(* What a step does to the stack *)

Moves(a) ==
  /\ stack' \in Seq(Frames) /\ stack' # <<>> /\ Len(stack') = Depth
  /\ \A i \in 1..Depth : SameCall(stack'[i], stack[i])
  /\ \A i \in 1..Depth - 1 : stack'[i].at = stack[i].at
  /\ stack'[Depth].at = a
Grows(f, a) ==
  /\ stack' \in Seq(Frames) /\ stack' # <<>> /\ Len(stack') = Depth + 1
  /\ \A i \in 1..Depth : SameCall(stack'[i], stack[i])
  /\ \A i \in 1..Depth - 1 : stack'[i].at = stack[i].at
  /\ stack'[Depth].at = a
  /\ stack'[Depth + 1] = f
Shrinks ==
  /\ stack' \in Seq(Frames) /\ stack' # <<>> /\ Len(stack') = Depth - 1 /\ Depth >= 2
  /\ \A i \in 1..Depth - 1 : SameCall(stack'[i], stack[i]) /\ stack'[i].at = stack[i].at

(* The innermost function moves on, *)
LEMMA MoveStep ==
  ASSUME TypeOK, NEW a, Retouched(stack', a)
  PROVE  Moves(a)
<1>1. /\ stack' \in Seq(Frames) /\ Len(stack') = Depth
      /\ \A i \in 1..Depth - 1 : stack'[i] = stack[i]
      /\ SameCall(stack'[Depth], stack[Depth]) /\ stack'[Depth].at = a
  BY DEF Retouched, Top
<1>2. Depth \in Nat /\ Depth >= 1 /\ \A i \in 1..Depth : i \in 1..Depth - 1 \/ i = Depth
  BY StackFacts
<1>3. stack' # <<>>
  <2>1. Len(<<>>) = 0
    OBVIOUS
  <2> QED BY <1>1, <1>2, <2>1
<1> QED BY <1>1, <1>2, <1>3 DEF Moves, SameCall

(* calls another, *)
LEMMA GrowStep ==
  ASSUME TypeOK, NEW s, NEW a, Retouched(s, a), NEW f \in Frames, stack' = Append(s, f)
  PROVE  Grows(f, a)
<1>1. /\ stack' \in Seq(Frames) /\ stack' # <<>> /\ Len(stack') = Depth + 1
      /\ \A i \in 1..Depth - 1 : stack'[i] = stack[i]
      /\ SameCall(stack'[Depth], Top) /\ stack'[Depth].at = a
      /\ stack'[Depth + 1] = f
  <2> DEFINE t == Append(s, f)
  <2>1. /\ t \in Seq(Frames) /\ t # <<>> /\ Len(t) = Depth + 1
        /\ \A i \in 1..Depth - 1 : t[i] = stack[i]
        /\ SameCall(t[Depth], Top) /\ t[Depth].at = a
        /\ t[Depth + 1] = f
    BY Grown
  <2>2. stack' = t
    OBVIOUS
  <2> HIDE DEF t
  <2> QED BY <2>1, <2>2
<1>2. Depth \in Nat /\ Depth >= 1 /\ \A i \in 1..Depth : i \in 1..Depth - 1 \/ i = Depth
  BY StackFacts
<1> QED BY <1>1, <1>2 DEF Grows, SameCall, Top

(* or returns. *)
LEMMA ShrinkStep ==
  ASSUME TypeOK, Depth >= 2, NEW d \in BOOLEAN, stack' = Returned(d)
  PROVE  Shrinks
<1>1. /\ stack' \in Seq(Frames) /\ stack' # <<>> /\ Len(stack') = Depth - 1
      /\ \A i \in 1..Depth - 2 : stack'[i] = stack[i]
      /\ SameCall(stack'[Depth - 1], stack[Depth - 1])
      /\ stack'[Depth - 1].at = stack[Depth - 1].at
  BY Shrunk
<1>2. \A i \in 1..Depth - 1 : i \in 1..Depth - 2 \/ i = Depth - 1
  BY StackFacts
<1> QED BY <1>1, <1>2 DEF Shrinks, SameCall

(* main() is the outermost frame, and no other. *)
LEMMA Below ==
  ASSUME TypeOK, Winding
  PROVE  /\ Depth = 1 <=> Top.kind = "main"
         /\ stack[1].kind = "main" /\ (Depth = 1 => Top = stack[1])
<1>1. Depth = 1 \/ Depth \in 2..Depth
  BY StackFacts
<1> QED BY <1>1 DEF Winding, Top

-----------------------------------------------------------------------------
(* Completions on the stack *)

IsJobCall(f) == f.kind = "call" /\ f.of \in Jobs
UpTo(i) == {k \in JobCalls : k <= i}

(* The job callbacks on the stack after a move, a call and a return. *)
LEMMA CallsAfter ==
  ASSUME TypeOK
  PROVE  /\ \A a : Moves(a) =>
              JobCalls' = JobCalls /\ \A i \in JobCalls : stack'[i].of = stack[i].of
         /\ \A f, a : Grows(f, a) =>
              /\ JobCalls' = JobCalls \cup (IF IsJobCall(f) THEN {Depth + 1} ELSE {})
              /\ \A i \in JobCalls : stack'[i].of = stack[i].of
         /\ Shrinks =>
              JobCalls' = JobCalls \ {Depth} /\ \A i \in JobCalls' : stack'[i].of = stack[i].of
<1>1. Depth \in Nat /\ Depth >= 1 /\ JobCalls \subseteq 1..Depth
  BY StackFacts DEF JobCalls
<1>2. \A i : i \in 1..Depth + 1 <=> i \in 1..Depth \/ i = Depth + 1
  BY <1>1
<1>3. \A i : i \in 1..Depth - 1 <=> i \in 1..Depth /\ i # Depth
  BY <1>1
<1>4. ASSUME NEW a, Moves(a)
      PROVE  JobCalls' = JobCalls /\ \A i \in JobCalls : stack'[i].of = stack[i].of
  <2>1. JobCalls' = {i \in 1..Depth : stack'[i].kind = "call" /\ stack'[i].of \in Jobs}
    BY <1>4 DEF Moves, JobCalls, Depth
  <2>2. \A i \in 1..Depth : stack'[i].kind = stack[i].kind /\ stack'[i].of = stack[i].of
    BY <1>4 DEF Moves, SameCall
  <2> QED BY <2>1, <2>2 DEF JobCalls
<1>5. ASSUME NEW f, NEW a, Grows(f, a)
      PROVE  /\ JobCalls' = JobCalls \cup (IF IsJobCall(f) THEN {Depth + 1} ELSE {})
             /\ \A i \in JobCalls : stack'[i].of = stack[i].of
  <2>1. JobCalls' = {i \in 1..Depth + 1 : stack'[i].kind = "call" /\ stack'[i].of \in Jobs}
    BY <1>5 DEF Grows, JobCalls, Depth
  <2>2. /\ \A i \in 1..Depth : stack'[i].kind = stack[i].kind /\ stack'[i].of = stack[i].of
        /\ stack'[Depth + 1] = f
    BY <1>5 DEF Grows, SameCall
  <2> QED BY <1>1, <1>2, <2>1, <2>2 DEF JobCalls, IsJobCall
<1>6. ASSUME Shrinks
      PROVE  JobCalls' = JobCalls \ {Depth} /\ \A i \in JobCalls' : stack'[i].of = stack[i].of
  <2>1. JobCalls' = {i \in 1..Depth - 1 : stack'[i].kind = "call" /\ stack'[i].of \in Jobs}
    BY <1>6 DEF Shrinks, JobCalls, Depth
  <2>2. \A i \in 1..Depth - 1 : stack'[i].kind = stack[i].kind /\ stack'[i].of = stack[i].of
    BY <1>6 DEF Shrinks, SameCall
  <2> QED BY <1>3, <2>1, <2>2 DEF JobCalls
<1> QED BY <1>4, <1>5, <1>6

(* They are finitely many, and so are those up to a frame. *)
LEMMA CallsFinite ==
  ASSUME TypeOK
  PROVE  /\ IsFiniteSet(JobCalls) /\ Cardinality(JobCalls) \in Nat
         /\ \A i \in JobCalls : i \in 1..Depth
         /\ \A i : IsFiniteSet(UpTo(i)) /\ Cardinality(UpTo(i)) \in Nat
                  /\ Cardinality(UpTo(i)) <= Cardinality(JobCalls)
         /\ \A i \in JobCalls : Cardinality(UpTo(i)) >= 1
<1>1. JobCalls \subseteq 1..Depth /\ IsFiniteSet(1..Depth)
  BY StackFacts, FS_Interval DEF JobCalls
<1>2. IsFiniteSet(JobCalls) /\ Cardinality(JobCalls) \in Nat
  BY <1>1, FS_Subset, FS_CardinalityType
<1>3. ASSUME NEW i
      PROVE  IsFiniteSet(UpTo(i)) /\ Cardinality(UpTo(i)) \in Nat
             /\ Cardinality(UpTo(i)) <= Cardinality(JobCalls)
  <2>1. UpTo(i) \subseteq JobCalls
    BY DEF UpTo
  <2> QED BY <1>2, <2>1, FS_Subset, FS_CardinalityType
<1>4. ASSUME NEW i \in JobCalls PROVE Cardinality(UpTo(i)) >= 1
  <2>1. i \in UpTo(i)
    BY <1>1, StackFacts DEF UpTo
  <2>2. Cardinality(UpTo(i)) # 0
    BY <1>3, <2>1, FS_EmptySet
  <2> QED BY <1>3, <2>2
<1> QED BY <1>1, <1>2, <1>3, <1>4

(* Every job callback has its place in the completions in progress. *)
LEMMA Ranks ==
  ASSUME TypeOK, CompletionsOnStack
  PROVE  /\ Depth \in Nat /\ Cardinality(JobCalls) \in Nat
         /\ Len(delivering) = Cardinality(JobCalls)
         /\ \A i \in JobCalls : i \in 1..Depth /\ delivering[Cardinality(UpTo(i))] = stack[i].of
         /\ \A i \in JobCalls : Cardinality(UpTo(i)) \in 1..Cardinality(JobCalls)
<1>1. ASSUME NEW i \in JobCalls PROVE delivering[Cardinality(UpTo(i))] = stack[i].of
  BY DEF CompletionsOnStack, UpTo
<1>2. ASSUME NEW i \in JobCalls PROVE Cardinality(UpTo(i)) \in 1..Cardinality(JobCalls)
  BY CallsFinite
<1> QED BY <1>1, <1>2, StackFacts, CallsFinite DEF CompletionsOnStack

(* No job callback comes or goes, *)
LEMMA SameCalls ==
  ASSUME CompletionsOnStack, JobCalls' = JobCalls, delivering' = delivering,
         \A i \in JobCalls : stack'[i].of = stack[i].of
  PROVE  CompletionsOnStack'
BY DEF CompletionsOnStack

(* one is called, *)
LEMMA CallJob ==
  ASSUME TypeOK, CompletionsOnStack, NEW j \in Jobs, delivering' = Append(delivering, j),
         JobCalls' = JobCalls \cup {Depth + 1}, stack'[Depth + 1].of = j,
         \A i \in JobCalls : stack'[i].of = stack[i].of
  PROVE  CompletionsOnStack'
<1> DEFINE c == Cardinality(JobCalls)
<1>1. /\ Depth \in Nat /\ c \in Nat /\ Len(delivering) = c
      /\ \A i \in JobCalls : i \in 1..Depth /\ delivering[Cardinality(UpTo(i))] = stack[i].of
      /\ \A i \in JobCalls : Cardinality(UpTo(i)) \in 1..c
  BY Ranks
<1>2. /\ Len(delivering') = c + 1 /\ delivering'[c + 1] = j
      /\ \A k \in 1..c : delivering'[k] = delivering[k]
  BY <1>1, Added DEF TypeOK
<1>3. Depth + 1 \notin JobCalls
  BY <1>1
<1>4. Cardinality(JobCalls') = c + 1
  BY <1>3, CallsFinite, FS_AddElement
<1>5. ASSUME NEW i \in JobCalls
      PROVE  delivering'[Cardinality({k \in JobCalls' : k <= i})] = stack'[i].of
  <2>0. i \in 1..Depth /\ ~(Depth + 1 <= i)
    BY <1>1
  <2>1. {k \in JobCalls' : k <= i} = UpTo(i)
    BY <2>0 DEF UpTo
  <2>2. delivering'[Cardinality(UpTo(i))] = delivering[Cardinality(UpTo(i))]
    BY <1>1, <1>2
  <2> QED BY <1>1, <2>1, <2>2
<1>6. {k \in JobCalls' : k <= Depth + 1} = JobCalls'
  BY <1>1
<1>7. delivering'[Cardinality({k \in JobCalls' : k <= Depth + 1})] = stack'[Depth + 1].of
  BY <1>2, <1>4, <1>6
<1>8. Len(delivering') = Cardinality(JobCalls')
  BY <1>2, <1>4
<1>9. \A i \in JobCalls' : i \in JobCalls \/ i = Depth + 1
  OBVIOUS
<1>10. \A i \in JobCalls' : delivering'[Cardinality({k \in JobCalls' : k <= i})] = stack'[i].of
  BY <1>5, <1>7, <1>9
<1> QED BY <1>8, <1>10 DEF CompletionsOnStack

(* or the innermost returns. *)
LEMMA JobReturns ==
  ASSUME TypeOK, CompletionsOnStack, delivering # <<>>,
         delivering' = SubSeq(delivering, 1, Len(delivering) - 1),
         Depth \in JobCalls, JobCalls' = JobCalls \ {Depth},
         \A i \in JobCalls' : stack'[i].of = stack[i].of
  PROVE  CompletionsOnStack'
<1> DEFINE c == Cardinality(JobCalls)
<1>1. /\ Depth \in Nat /\ c \in Nat /\ Len(delivering) = c
      /\ \A i \in JobCalls : i \in 1..Depth /\ delivering[Cardinality(UpTo(i))] = stack[i].of
      /\ \A i \in JobCalls : Cardinality(UpTo(i)) \in 1..c
  BY Ranks
<1>2. Len(delivering') = c - 1 /\ \A k \in 1..c - 1 : delivering'[k] = delivering[k]
  BY <1>1, Popped DEF TypeOK
<1>3. Cardinality(JobCalls') = c - 1 /\ IsFiniteSet(JobCalls')
  BY CallsFinite, FS_RemoveElement
<1>4. ASSUME NEW i \in JobCalls'
      PROVE  delivering'[Cardinality({k \in JobCalls' : k <= i})] = stack'[i].of
  <2>1. i \in 1..Depth /\ i # Depth /\ i \in JobCalls
    BY <1>1
  <2>2. UpTo(i) \subseteq JobCalls' /\ {k \in JobCalls' : k <= i} = UpTo(i)
    BY <1>1, <2>1 DEF UpTo
  <2>3. Cardinality(UpTo(i)) <= c - 1
    BY <1>3, <2>2, FS_Subset
  <2>4. Cardinality(UpTo(i)) \in 1..c - 1
    BY <1>1, <2>1, <2>3
  <2>5. delivering'[Cardinality(UpTo(i))] = delivering[Cardinality(UpTo(i))]
    BY <1>2, <2>4
  <2> QED BY <1>1, <2>1, <2>2, <2>5
<1> QED BY <1>2, <1>3, <1>4 DEF CompletionsOnStack

-----------------------------------------------------------------------------
(* Steps above main()'s own frame *)

(* Awaited survives a step that forgets no job and no timer. *)
LEMMA KeepsAwaited ==
  ASSUME Awaited, Known \subseteq Known' \cup settled', settled \subseteq settled',
         Armed \subseteq Armed' \cup settled',
         \A i \in 1..Len(stack') : stack'[i].kind = "await" =>
            \/ i \in 1..Depth /\ SameCall(stack'[i], stack[i])
            \/ /\ stack'[i].of \in Jobs => stack'[i].of \in Known'
               /\ stack'[i].of \in Timers => stack'[i].of \in settled' \cup Armed'
  PROVE  Awaited'
BY DEF Awaited, SameCall, Depth

\* where main() may be while another frame is on top
(* What Winding says of the code that runs above main(), *)
LEMMA InnerAt ==
  ASSUME TypeOK, Winding, Depth >= 2, careful
  PROVE  /\ stack[1].at # "exit"
         /\ stack[1].at = "last" => Depth = 2 /\ Top.kind = "jobs" /\ ~JobsPending /\ ~TimersPending
         /\ stack[1].at = "run" =>
              /\ ~JobsPending /\ loop = "async" /\ stack[2].kind = "timers"
              /\ Depth = 2 => Top.kind = "timers"
              /\ Depth >= 3 => InTimer
<1>1. Depth \in Nat /\ (Depth >= 3 => 3 \in 1..Depth)
  BY StackFacts
<1> QED BY <1>1 DEF Winding, Top, InTimer

(* and how a step of that code keeps it. *)
LEMMA InnerWinding ==
  ASSUME TypeOK, Winding, Depth >= 2, UNCHANGED <<careful, loop>>,
         Len(stack') \in Nat, Len(stack') >= 1, Len(stack') <= Depth + 1,
         stack'[1].kind = "main", stack'[1].at = stack[1].at,
         \A i \in 1..Len(stack') : i >= 2 =>
            \/ i \in 1..Depth /\ SameCall(stack'[i], stack[i])
            \/ i = Depth + 1 /\ stack'[i].kind # "main",
         careful /\ stack[1].at = "run" =>
            /\ JobsPending' => JobsPending
            /\ Depth = 2 /\ Len(stack') = 3 => stack'[3].kind = "call" /\ stack'[3].of \in Timers,
         careful /\ stack[1].at = "last" =>
            /\ JobsPending' => JobsPending
            /\ TimersPending' => TimersPending
            /\ Len(stack') <= Depth
  PROVE  Winding'
<1> DEFINE n == Len(stack')
<1>0. n \in Nat /\ n >= 1 /\ n <= Depth + 1
      /\ (careful /\ stack[1].at = "last" => n <= Depth)
      /\ \A i \in 1..n : i >= 2 =>
            \/ i \in 1..Depth /\ SameCall(stack'[i], stack[i])
            \/ i = Depth + 1 /\ stack'[i].kind # "main"
  OBVIOUS
<1>00. careful /\ stack[1].at = "run" /\ Depth = 2 /\ n = 3
        => stack'[3].kind = "call" /\ stack'[3].of \in Timers
  OBVIOUS
<1> HIDE DEF n
<1>1. /\ Depth \in Nat /\ n \in Nat /\ stack[1].at # "exit" /\ 1 \in 1..n
      /\ \A i \in 2..n : i \in 1..n /\ i >= 2
      /\ \A i \in 2..Depth : stack[i].kind # "main"
      /\ \A i \in 1..Depth : i >= 2 => i \in 2..Depth
  BY <1>0, StackFacts DEF Winding
<1>2. \A i \in 2..n : stack'[i].kind # "main"
  BY <1>0, <1>1 DEF SameCall
<1>3. stack'[1].at \in {"run", "last"} => loop' = "async"
  BY DEF Winding
<1>4. ASSUME careful, stack[1].at = "run"
      PROVE  /\ ~JobsPending' /\ (n >= 2 => stack'[2].kind = "timers")
             /\ n >= 3 => stack'[3].kind = "call" /\ stack'[3].of \in Timers
  <2>1. ~JobsPending /\ stack[2].kind = "timers"
        /\ (Depth >= 3 => stack[3].kind = "call" /\ stack[3].of \in Timers)
    BY <1>4 DEF Winding
  <2>2. n >= 2 => 2 \in 1..n /\ 2 # Depth + 1
    BY <1>0, <1>1
  <2>3. n >= 3 => 3 \in 1..n /\ (3 = Depth + 1 => Depth = 2 /\ n = 3) /\ (3 \in 1..Depth => Depth >= 3)
    BY <1>0, <1>1
  <2>4. n >= 2 => stack'[2].kind = "timers"
    BY <1>0, <2>1, <2>2 DEF SameCall
  <2>5. n >= 3 => stack'[3].kind = "call" /\ stack'[3].of \in Timers
    BY <1>0, <1>00, <1>4, <2>1, <2>3 DEF SameCall
  <2> QED BY <1>4, <2>1, <2>4, <2>5
<1>5. ASSUME careful, stack[1].at = "last"
      PROVE  /\ ~JobsPending' /\ ~TimersPending'
             /\ n >= 2 => n = 2 /\ stack'[2].kind = "jobs"
  <2>1. ~JobsPending /\ ~TimersPending /\ Depth = 2 /\ stack[2].kind = "jobs"
    BY <1>5 DEF Winding
  <2>2. n <= 2 /\ (n >= 2 => n = 2 /\ 2 \in 1..n /\ 2 # Depth + 1)
    BY <1>0, <1>1, <1>5, <2>1
  <2>3. n >= 2 => stack'[2].kind = "jobs"
    BY <1>0, <2>1, <2>2 DEF SameCall
  <2> QED BY <1>5, <2>1, <2>2, <2>3
<1>6. /\ stack'[1].kind = "main" /\ stack'[1].at = stack[1].at
      /\ careful' = careful
  OBVIOUS
<1>7. \A i \in 2..Len(stack') : stack'[i].kind # "main"
  BY <1>2 DEF n
<1>8. careful' /\ stack'[1].at = "run" =>
             /\ ~JobsPending' /\ (Len(stack') >= 2 => stack'[2].kind = "timers")
             /\ Len(stack') >= 3 => stack'[3].kind = "call" /\ stack'[3].of \in Timers
  BY <1>4, <1>6 DEF n
<1>9. careful' /\ stack'[1].at \in {"last", "exit"} =>
             /\ ~JobsPending' /\ ~TimersPending'
             /\ Len(stack') >= 2 => Len(stack') = 2 /\ stack'[2].kind = "jobs"
  BY <1>1, <1>5, <1>6 DEF n
<1> QED BY <1>1, <1>3, <1>6, <1>7, <1>8, <1>9 DEF Winding, Depth

Elsewhere == <<careful, cut, loop, timer, sent, open, settled>>

(* A step of the stack only leaves the jobs and timers as they were, *)
LEMMA SameData ==
  ASSUME Core, UNCHANGED jobVars, UNCHANGED Elsewhere
  PROVE  /\ UNCHANGED <<careful, cut, loop, timer, sent, open, settled>>
         /\ JobsOnce' /\ Known' = Known /\ delivering' = delivering /\ JobsPending' = JobsPending
         /\ Armed' = Armed /\ TimersPending' = TimersPending
         /\ stack' \in Seq(Frames) /\ stack' # <<>> => TypeOK'
<1>1. UNCHANGED <<careful, cut, loop, timer, sent, open, settled>>
  BY DEF Elsewhere
<1>2. JobsOnce' /\ Known' = Known /\ delivering' = delivering /\ JobsPending' = JobsPending
  BY <1>1, SameJobs DEF Core
<1>3. Armed' = Armed
  BY <1>1 DEF Armed
<1>4. stack' \in Seq(Frames) /\ stack' # <<>> => TypeOK'
  BY <1>1, <1>2 DEF Core, TypeOK
<1> QED BY <1>1, <1>2, <1>3, <1>4 DEF TimersPending

(* and so keeps all but Winding when a function moves on, *)
LEMMA MoveKeeps ==
  ASSUME Core, UNCHANGED jobVars, UNCHANGED Elsewhere, NEW a, Moves(a)
  PROVE  TypeOK' /\ CompletionsOnStack' /\ JobsOnce' /\ Awaited'
<1>1. TypeOK /\ CompletionsOnStack /\ Awaited
  BY DEF Core
<1>2. /\ stack' \in Seq(Frames) /\ stack' # <<>> /\ Len(stack') = Depth
      /\ \A i \in 1..Depth : SameCall(stack'[i], stack[i])
  BY DEF Moves
<1>3. TypeOK'
  BY <1>2, SameData
<1>4. CompletionsOnStack'
  BY <1>1, CallsAfter, SameCalls, SameData
<1>5. Awaited'
  BY <1>1, <1>2, SameData, KeepsAwaited
<1> QED BY <1>3, <1>4, <1>5, SameData

(* returns, *)
LEMMA ShrinkKeeps ==
  ASSUME Core, UNCHANGED jobVars, UNCHANGED Elsewhere, Shrinks, ~IsJobCall(Top)
  PROVE  TypeOK' /\ CompletionsOnStack' /\ JobsOnce' /\ Awaited'
<1>1. TypeOK /\ CompletionsOnStack /\ Awaited
  BY DEF Core
<1>2. /\ stack' \in Seq(Frames) /\ stack' # <<>> /\ Len(stack') = Depth - 1
      /\ \A i \in 1..Depth - 1 : SameCall(stack'[i], stack[i]) /\ i \in 1..Depth
  BY <1>1, StackFacts DEF Shrinks
<1>3. TypeOK'
  BY <1>2, SameData
<1>4. CompletionsOnStack'
  <2>1. Depth \notin JobCalls
    BY DEF JobCalls, IsJobCall, Top
  <2>2. JobCalls' = JobCalls /\ \A i \in JobCalls : stack'[i].of = stack[i].of
    BY <1>1, <2>1, CallsAfter
  <2> QED BY <1>1, <2>2, SameCalls, SameData
<1>5. Awaited'
  BY <1>1, <1>2, SameData, KeepsAwaited
<1> QED BY <1>3, <1>4, <1>5, SameData

(* or calls another. *)
LEMMA GrowKeeps ==
  ASSUME Core, UNCHANGED jobVars, UNCHANGED Elsewhere,
         NEW f, NEW a, Grows(f, a), ~IsJobCall(f),
         f.kind = "await" => /\ f.of \in Jobs => f.of \in Known
                             /\ f.of \in Timers => f.of \in Armed
  PROVE  TypeOK' /\ CompletionsOnStack' /\ JobsOnce' /\ Awaited'
<1>1. TypeOK /\ CompletionsOnStack /\ Awaited
  BY DEF Core
<1>2. /\ stack' \in Seq(Frames) /\ stack' # <<>> /\ Len(stack') = Depth + 1
      /\ \A i \in 1..Depth : SameCall(stack'[i], stack[i])
      /\ stack'[Depth + 1] = f
      /\ \A i \in 1..Depth + 1 : i \in 1..Depth \/ i = Depth + 1
  BY <1>1, StackFacts DEF Grows
<1>3. TypeOK'
  BY <1>2, SameData
<1>4. CompletionsOnStack'
  <2>2. JobCalls' = JobCalls /\ \A i \in JobCalls : stack'[i].of = stack[i].of
    BY <1>1, CallsAfter
  <2> QED BY <1>1, <2>2, SameCalls, SameData
<1>5. Awaited'
  <2>1. Known' = Known /\ settled' = settled /\ Armed' = Armed
    BY SameData
  <2>2. \A i \in 1..Len(stack') : stack'[i].kind = "await" =>
            \/ i \in 1..Depth /\ SameCall(stack'[i], stack[i])
            \/ /\ stack'[i].of \in Jobs => stack'[i].of \in Known'
               /\ stack'[i].of \in Timers => stack'[i].of \in settled' \cup Armed'
    BY <1>2, <2>1
  <2> QED BY <1>1, <2>1, <2>2, KeepsAwaited
<1> QED BY <1>3, <1>4, <1>5, SameData

(* Core, when a function above main() moves on, *)
LEMMA InnerMove ==
  ASSUME Core, UNCHANGED jobVars, UNCHANGED Elsewhere, Depth >= 2, NEW a, Moves(a)
  PROVE  Core'
<1>1. TypeOK /\ Winding
  BY DEF Core
<1>2. /\ Len(stack') = Depth
      /\ \A i \in 1..Depth : SameCall(stack'[i], stack[i])
      /\ \A i \in 1..Depth - 1 : stack'[i].at = stack[i].at
      /\ Depth \in Nat /\ 1 \in 1..Depth - 1 /\ 1 \in 1..Depth
  BY <1>1, StackFacts DEF Moves
<1>3. stack'[1].kind = "main" /\ stack'[1].at = stack[1].at
  BY <1>1, <1>2, Below DEF SameCall
<1>4. UNCHANGED <<careful, loop>> /\ JobsPending' = JobsPending /\ TimersPending' = TimersPending
  BY SameData
<1>5. /\ Len(stack') \in Nat /\ Len(stack') >= 1 /\ Len(stack') <= Depth + 1
      /\ Len(stack') <= Depth /\ ~(Depth = 2 /\ Len(stack') = 3)
  BY <1>2
<1>6. Winding'
  BY <1>1, <1>2, <1>3, <1>4, <1>5, InnerWinding
<1> QED BY <1>6, MoveKeeps DEF Core

(* returns, *)
LEMMA InnerShrink ==
  ASSUME Core, UNCHANGED jobVars, UNCHANGED Elsewhere, Shrinks, ~IsJobCall(Top)
  PROVE  Core'
<1>1. TypeOK /\ Winding
  BY DEF Core
<1>2. /\ Len(stack') = Depth - 1
      /\ \A i \in 1..Depth - 1 : SameCall(stack'[i], stack[i]) /\ stack'[i].at = stack[i].at
      /\ Depth \in Nat /\ Depth >= 2 /\ 1 \in 1..Depth - 1
      /\ \A i \in 1..Depth - 1 : i \in 1..Depth
  BY <1>1, StackFacts DEF Shrinks
<1>3. stack'[1].kind = "main" /\ stack'[1].at = stack[1].at
  BY <1>1, <1>2, Below DEF SameCall
<1>4. UNCHANGED <<careful, loop>> /\ JobsPending' = JobsPending /\ TimersPending' = TimersPending
  BY SameData
<1>5. /\ Len(stack') \in Nat /\ Len(stack') >= 1 /\ Len(stack') <= Depth + 1
      /\ Len(stack') <= Depth /\ ~(Depth = 2 /\ Len(stack') = 3)
  BY <1>2
<1>6. Winding'
  BY <1>1, <1>2, <1>3, <1>4, <1>5, InnerWinding
<1> QED BY <1>6, ShrinkKeeps DEF Core

(* or calls one that is no callback. *)
LEMMA InnerGrow ==
  ASSUME Core, UNCHANGED jobVars, UNCHANGED Elsewhere, Depth >= 2,
         NEW f, NEW a, Grows(f, a), f.kind \notin {"main", "call"},
         f.kind = "await" => /\ f.of \in Jobs => f.of \in Known
                             /\ f.of \in Timers => f.of \in Armed,
         careful => stack[1].at # "last" /\ (stack[1].at = "run" => Depth >= 3)
  PROVE  Core'
<1>1. TypeOK /\ Winding
  BY DEF Core
<1>2. /\ Len(stack') = Depth + 1
      /\ \A i \in 1..Depth : SameCall(stack'[i], stack[i])
      /\ \A i \in 1..Depth - 1 : stack'[i].at = stack[i].at
      /\ stack'[Depth + 1] = f
      /\ Depth \in Nat /\ 1 \in 1..Depth - 1 /\ 1 \in 1..Depth
      /\ \A i \in 1..Depth + 1 : i \in 1..Depth \/ i = Depth + 1
  BY <1>1, StackFacts DEF Grows
<1>3. stack'[1].kind = "main" /\ stack'[1].at = stack[1].at
  BY <1>1, <1>2, Below DEF SameCall
<1>4. UNCHANGED <<careful, loop>> /\ JobsPending' = JobsPending /\ TimersPending' = TimersPending
  BY SameData
<1>5. /\ Len(stack') \in Nat /\ Len(stack') >= 1 /\ Len(stack') <= Depth + 1
  BY <1>2
<1>6. \A i \in 1..Len(stack') : i >= 2 =>
            \/ i \in 1..Depth /\ SameCall(stack'[i], stack[i])
            \/ i = Depth + 1 /\ stack'[i].kind # "main"
  BY <1>2
<1>7. ~(Depth = 2 /\ Depth >= 3)
  OBVIOUS
<1>8. Winding'
  BY <1>1, <1>3, <1>4, <1>5, <1>6, <1>7, InnerWinding
<1> QED BY <1>8, GrowKeeps DEF Core, IsJobCall

-----------------------------------------------------------------------------
(* Steps of main() itself *)

(* Core, when main() moves on, *)
LEMMA MainMove ==
  ASSUME Core, UNCHANGED jobVars, UNCHANGED Elsewhere, Depth = 1, NEW a, Moves(a),
         a \in {"run", "last"} => loop = "async",
         careful /\ a = "run" => ~JobsPending,
         careful /\ a \in {"last", "exit"} => ~JobsPending /\ ~TimersPending
  PROVE  Core'
<1>1. TypeOK /\ Winding
  BY DEF Core
<1>2. Len(stack') = 1 /\ stack'[1].kind = "main" /\ stack'[1].at = a
  BY <1>1, Below DEF Moves, SameCall
<1>3. UNCHANGED <<careful, loop>> /\ JobsPending' = JobsPending /\ TimersPending' = TimersPending
  BY SameData
<1>4. ~(1 >= 2) /\ ~(1 >= 3) /\ 2..1 = {}
  OBVIOUS
<1>5. Winding'
  BY <1>2, <1>3, <1>4 DEF Winding, Depth
<1> QED BY <1>5, MoveKeeps DEF Core

(* or calls. *)
LEMMA MainGrow ==
  ASSUME Core, UNCHANGED jobVars, UNCHANGED Elsewhere, Depth = 1,
         NEW f, NEW a, Grows(f, a), f.kind \notin {"main", "call"}, a # "exit",
         f.kind = "await" => /\ f.of \in Jobs => f.of \in Known
                             /\ f.of \in Timers => f.of \in Armed,
         a \in {"run", "last"} => loop = "async",
         careful /\ a = "run" => ~JobsPending /\ f.kind = "timers",
         careful /\ a = "last" => ~JobsPending /\ ~TimersPending /\ f.kind = "jobs"
  PROVE  Core'
<1>1. TypeOK /\ Winding
  BY DEF Core
<1>2. Len(stack') = 2 /\ stack'[1].kind = "main" /\ stack'[1].at = a /\ stack'[2] = f
  BY <1>1, Below DEF Grows, SameCall
<1>3. UNCHANGED <<careful, loop>> /\ JobsPending' = JobsPending /\ TimersPending' = TimersPending
  BY SameData
<1>4. ~(2 >= 3) /\ 2..2 = {2}
  OBVIOUS
<1>5. Winding'
  BY <1>2, <1>3, <1>4 DEF Winding, Depth
<1> QED BY <1>5, GrowKeeps DEF Core, IsJobCall

-----------------------------------------------------------------------------
(* Steps that leave the stack alone *)

(* Jobs and timers change, the stack does not: what main() saw to be idle stays so. *)
LEMMA SameStack ==
  ASSUME Core, UNCHANGED <<stack, careful, cut, loop, settled, delivering>>, TypeOK', JobsOnce',
         Known \subseteq Known', Armed \subseteq Armed',
         careful /\ stack[1].at \in {"run", "last", "exit"} => (JobsPending' => JobsPending),
         careful /\ stack[1].at \in {"last", "exit"} => (TimersPending' => TimersPending)
  PROVE  Core'
<1>1. TypeOK /\ CompletionsOnStack /\ JobsOnce /\ Awaited /\ Winding
  BY DEF Core
<1>2. CompletionsOnStack'
  <2>1. JobCalls' = JobCalls
    BY DEF JobCalls, Depth
  <2> QED BY <1>1, <2>1, SameCalls
<1>3. Awaited'
  BY <1>1 DEF Awaited, Depth
<1>4. Winding'
  <2>1. stack' = stack /\ careful' = careful /\ loop' = loop
    OBVIOUS
  <2> QED BY <1>1, <2>1 DEF Winding, Depth
<1> QED BY <1>2, <1>3, <1>4 DEF Core

\* user code runs
(* Code of the program that runs during ts_async_run's last rounds is in a timer's callback. *)
LEMMA UserCodeAt ==
  ASSUME Core, UserCode, careful
  PROVE  /\ stack[1].at \notin {"last", "exit"}
         /\ stack[1].at = "run" => Depth >= 3 /\ InTimer /\ loop = "async"
<1>1. TypeOK /\ Winding
  BY DEF Core
<1>2. CASE Depth = 1
  BY <1>1, <1>2, Below DEF UserCode, TopIs
<1>3. CASE Depth >= 2
  BY <1>1, <1>3, InnerAt, StackFacts DEF UserCode, TopIs
<1> QED BY <1>1, <1>2, <1>3, StackFacts

(* A worker takes or finishes a job. *)
LEMMA PoolStepOK ==
  ASSUME Core, PoolStep
  PROVE  Core'
<1>1. UNCHANGED <<careful, cut, loop, timer, sent, open, settled, stack>>
  BY DEF PoolStep, loopVars
<1>2. JobsOnce' /\ Known' = Known /\ UNCHANGED <<delivering, delivered, abandoned>>
  BY <1>1, StartOnce, FinishOnce DEF PoolStep, Core
<1>3. JobsPending' = JobsPending
  BY <1>1, <1>2 DEF JobsPending
<1>4. Armed' = Armed /\ TimersPending' = TimersPending
  BY <1>1 DEF Armed, TimersPending
<1>5. TypeOK'
  BY <1>1, <1>2 DEF Core, TypeOK
<1> QED BY <1>1, <1>2, <1>3, <1>4, <1>5, SameStack

(* The program submits a job. *)
LEMMA SubmitJobOK ==
  ASSUME Core, NEW j \in Jobs, SubmitJob(j)
  PROVE  Core'
<1>1. UNCHANGED <<careful, cut, loop, timer, sent, open, settled, stack>>
      /\ UserCode /\ (~careful \/ loop # "async" \/ ~InTimer) /\ Submit(j)
  BY DEF SubmitJob, loopVars
<1>2. JobsOnce' /\ Known' = Known \cup {j} /\ delivering' = delivering
  BY <1>1, SubmitOnce DEF Core
<1>3. Armed' = Armed /\ TimersPending' = TimersPending
  BY <1>1 DEF Armed, TimersPending
<1>4. careful => stack[1].at \notin {"run", "last", "exit"}
  BY <1>1, UserCodeAt
<1>5. TypeOK'
  BY <1>1, <1>2 DEF Core, TypeOK
<1> QED BY <1>1, <1>2, <1>3, <1>4, <1>5, SameStack

(* setTimeout, and time that passes. *)
LEMMA TimerOK ==
  ASSUME Core, NEW t \in Timers, TimePasses(t) \/ SetTimeout(t)
  PROVE  Core'
<1>1. UNCHANGED <<jobVars, careful, cut, loop, sent, open, settled, stack>>
  BY DEF TimePasses, SetTimeout
<1>2. /\ JobsOnce' /\ Known' = Known /\ delivering' = delivering /\ JobsPending' = JobsPending
  BY <1>1, SameJobs DEF Core
<1>3. timer \in [Timers -> {"unset", "armed", "due", "fired"}]
  BY DEF Core, TypeOK
<1>4. timer' \in [Timers -> {"unset", "armed", "due", "fired"}] /\ Armed \subseteq Armed'
  BY <1>3 DEF TimePasses, SetTimeout, Armed
<1>5. TimePasses(t) => Armed' = Armed
  BY <1>3 DEF TimePasses, Armed
<1>6. SetTimeout(t) /\ careful => stack[1].at \notin {"last", "exit"}
  BY UserCodeAt DEF SetTimeout
<1>7. TypeOK'
  BY <1>1, <1>2, <1>4 DEF Core, TypeOK
<1> QED BY <1>1, <1>2, <1>4, <1>5, <1>6, <1>7, SameStack DEF TimersPending

(* The server closes. *)
LEMMA CloseOK ==
  ASSUME Core, Close
  PROVE  Core'
<1>1. UNCHANGED <<jobVars, careful, cut, loop, timer, sent, settled, stack>> /\ open' = FALSE
  BY DEF Close
<1>2. /\ JobsOnce' /\ Known' = Known /\ delivering' = delivering /\ JobsPending' = JobsPending
  BY <1>1, SameJobs DEF Core
<1>3. Armed' = Armed /\ TimersPending' = TimersPending
  BY <1>1 DEF Armed, TimersPending
<1>4. TypeOK'
  BY <1>1, <1>2 DEF Core, TypeOK
<1> QED BY <1>1, <1>2, <1>3, <1>4, SameStack

(* Nothing happens. *)
LEMMA StutterOK ==
  ASSUME Core, UNCHANGED vars
  PROVE  Core'
<1>1. UNCHANGED <<jobVars, careful, cut, loop, timer, sent, open, settled, stack>>
  BY DEF vars, loopVars
<1>2. /\ JobsOnce' /\ Known' = Known /\ delivering' = delivering /\ JobsPending' = JobsPending
  BY <1>1, SameJobs DEF Core
<1>3. Armed' = Armed /\ TimersPending' = TimersPending
  BY <1>1 DEF Armed, TimersPending
<1>4. TypeOK'
  BY <1>1, <1>2 DEF Core, TypeOK
<1> QED BY <1>1, <1>2, <1>3, <1>4, SameStack

-----------------------------------------------------------------------------
(* The polls *)

(* A timer that is due is set. *)
LEMMA DueFacts == Due \subseteq Armed /\ Armed \subseteq Timers /\ Due \subseteq Timers
BY DEF Due, Armed

(* The frames of ts_timers_poll and ts_jobs_poll. *)
LEMMA PollFrames ==
  /\ TimersPoll \in Frames /\ TimersPoll.kind = "timers"
  /\ JobsPoll \in Frames /\ JobsPoll.kind = "jobs"
<1>1. Fits("timers", "start") /\ Fits("jobs", "start") /\ Nobody \in Named /\ Due \in SUBSET Timers
      /\ {} \in SUBSET Timers
  BY DueFacts DEF Fits, Named
<1> QED BY <1>1, FrameFacts DEF TimersPoll, JobsPoll

\* any other callback, or none, returns
(* A function that is no job's callback returns. *)
LEMMA PopOK ==
  ASSUME Core, UNCHANGED jobVars, UNCHANGED Elsewhere, Top.kind # "main", ~IsJobCall(Top),
         NEW d \in BOOLEAN, stack' = Returned(d)
  PROVE  Core'
<1>1. TypeOK /\ Winding
  BY DEF Core
<1>2. Depth >= 2
  BY <1>1, Below, StackFacts
<1>3. Shrinks
  BY <1>1, <1>2, ShrinkStep
<1> QED BY <1>3, InnerShrink

(* Only jobs are submitted. *)
LEMMA KnownJobs ==
  ASSUME JobsOnce, delivering \in Seq(Jobs)
  PROVE  Known \subseteq Jobs
<1>1. ASSUME NEW s \in Seq(Jobs) PROVE Contents(s) \subseteq Jobs
  BY DEF Contents
<1> QED BY <1>1 DEF JobsOnce, Known

(* ts_await is called: what it awaits was submitted or set. *)
LEMMA AwaitOK ==
  ASSUME Core, NEW p \in Promises, Await(p)
  PROVE  Core'
<1> DEFINE f == Frame("await", p, "start", {})
<1>1. /\ UNCHANGED jobVars /\ UNCHANGED Elsewhere /\ UserCode /\ p \in Awaitable
      /\ stack' = Append(stack, f)
  BY DEF Await, Elsewhere, Push
<1>2. TypeOK /\ Winding
  BY DEF Core
<1>3. f \in Frames /\ f.kind = "await" /\ f.of = p
  <2>1. Fits("await", "start") /\ p \in Named /\ {} \in SUBSET Timers
    BY DEF Fits, Named
  <2> QED BY <2>1, FrameFacts
<1> HIDE DEF f
<1>4. p \in Known \cup Armed \cup Orphans
  BY <1>1 DEF Awaitable
<1>5. (p \in Jobs => p \in Known) /\ (p \in Timers => p \in Armed)
  BY <1>4, KnownJobs, DueFacts, EventLoopAssumption DEF Core, TypeOK
<1>6. Grows(f, Top.at)
  BY <1>1, <1>2, <1>3, Itself, GrowStep
<1>7. CASE Depth = 1
  <2>1. Top.at = "code"
    BY <1>1, <1>2, <1>7, Below DEF UserCode, TopIs
  <2> QED BY <1>1, <1>3, <1>5, <1>6, <1>7, <2>1, MainGrow
<1>8. CASE Depth >= 2
  <2>1. careful => stack[1].at # "last" /\ (stack[1].at = "run" => Depth >= 3)
    BY <1>1, UserCodeAt
  <2> QED BY <1>1, <1>3, <1>5, <1>6, <1>8, <2>1, InnerGrow
<1> QED BY <1>2, <1>7, <1>8, StackFacts

(* A callback returns. *)
LEMMA CallReturnOK ==
  ASSUME Core, CallReturn
  PROVE  Core'
<1>1. /\ UNCHANGED <<careful, cut, loop, timer, sent, open, settled>>
      /\ Top.kind = "call" /\ stack' = Returned(TRUE)
      /\ IF Top.of \in Jobs THEN Return ELSE UNCHANGED jobVars
  BY DEF CallReturn
<1>2. TypeOK /\ Winding /\ JobsOnce /\ Awaited /\ CompletionsOnStack /\ delivering \in Seq(Jobs)
  BY DEF Core, TypeOK
<1>3. CASE Top.of \notin Jobs
  BY <1>1, <1>3, PopOK DEF IsJobCall, Elsewhere
<1>4. CASE Top.of \in Jobs
  <2>1. Depth >= 2
    BY <1>1, <1>2, Below, StackFacts
  <2>2. Shrinks
    BY <1>1, <1>2, <2>1, ShrinkStep
  <2>3. /\ stack' \in Seq(Frames) /\ stack' # <<>> /\ Len(stack') = Depth - 1
        /\ \A i \in 1..Depth - 1 : SameCall(stack'[i], stack[i]) /\ stack'[i].at = stack[i].at
        /\ Depth \in Nat /\ Depth >= 2 /\ 1 \in 1..Depth - 1
        /\ \A i \in 1..Depth - 1 : i \in 1..Depth
    BY <1>2, <2>1, <2>2, StackFacts DEF Shrinks
  <2>4. /\ JobsOnce' /\ Known' = Known
        /\ delivering # <<>> /\ delivering' = SubSeq(delivering, 1, Len(delivering) - 1)
        /\ delivering' \in Seq(Jobs)
    BY <1>1, <1>2, <1>4, ReturnOnce
  <2>5. Armed' = Armed
    BY <1>1 DEF Armed
  <2>6. TypeOK'
    BY <1>1, <1>2, <2>3, <2>4 DEF TypeOK
  <2>7. CompletionsOnStack'
    <3>1. Depth \in JobCalls
      BY <1>1, <1>2, <1>4, StackFacts DEF JobCalls, Top
    <3>2. JobCalls' = JobCalls \ {Depth} /\ \A i \in JobCalls' : stack'[i].of = stack[i].of
      BY <1>2, <2>2, CallsAfter
    <3> QED BY <1>2, <2>4, <3>1, <3>2, JobReturns
  <2>8. Awaited'
    BY <1>1, <1>2, <2>3, <2>4, <2>5, KeepsAwaited
  <2>9. careful => stack[1].at \notin {"run", "last"}
    BY <1>1, <1>2, <2>1, <2>4, InnerAt, Idle
  <2>10. stack'[1].kind = "main" /\ stack'[1].at = stack[1].at
    BY <1>2, <2>3, Below DEF SameCall
  <2>11. Len(stack') \in Nat /\ Len(stack') >= 1 /\ Len(stack') <= Depth + 1
    BY <2>3
  <2>12. Winding'
    BY <1>1, <1>2, <2>1, <2>3, <2>9, <2>10, <2>11, InnerWinding
  <2> QED BY <2>4, <2>6, <2>7, <2>8, <2>12 DEF Core
<1> QED BY <1>3, <1>4

(* Code further out catches what a callback or an await throws: the completions that
   are left go, and main() goes on where it was or from its catch clause. *)
LEMMA ThrowOK ==
  ASSUME Core, Throw
  PROVE  Core'
<1>1. TypeOK /\ Winding /\ JobsOnce /\ Awaited /\ CompletionsOnStack
  BY DEF Core
<1>2. PICK i \in 1..Depth - 1 :
        /\ stack' = IF i = 1 THEN <<[stack[1] EXCEPT !.at = "code"]>>
                    ELSE SubSeq(stack, 1, i)
        /\ delivering' = SubSeq(delivering, 1, Cardinality({k \in JobCalls : k <= i}))
        /\ cut' = cut \cup {stack[k].of : k \in {m \in JobCalls : m > i}}
  BY DEF Throw
<1>3. /\ ~careful'
      /\ UNCHANGED <<queue, running, finished, delivered, abandoned,
                     careful, loop, timer, sent, open, settled>>
  BY DEF Throw
<1>4. Depth \in Nat /\ i \in Nat /\ i >= 1 /\ i <= Depth - 1 /\ Depth >= 2 /\ i <= Len(stack)
  BY <1>1, StackFacts DEF Depth
<1>5. /\ stack' \in Seq(Frames) /\ stack' # <<>> /\ Len(stack') = i
      /\ \A k \in 1..i : SameCall(stack'[k], stack[k])
      /\ stack'[1].at \in {"code", stack[1].at}
  <2>1. CASE i = 1
    <3> DEFINE g == [stack[1] EXCEPT !.at = "code"]
    <3>1. stack[1] \in Frames /\ Fits(stack[1].kind, "code")
      BY <1>1, StackFacts, Below DEF Fits
    <3>2. g \in Frames /\ SameCall(g, stack[1]) /\ g.at = "code"
      BY <3>1, EditFacts
    <3>3. stack' = <<g>>
      BY <1>2, <2>1
    <3> HIDE DEF g, Frames
    <3>4. stack' \in Seq(Frames) /\ stack' # <<>> /\ Len(stack') = 1 /\ stack'[1] = g
      BY <3>2, <3>3
    <3>5. \A k \in 1..1 : k = 1
      OBVIOUS
    <3> QED BY <2>1, <3>2, <3>4, <3>5
  <2>2. CASE i # 1
    <3>1. stack' = SubSeq(stack, 1, i)
      BY <1>2, <2>2
    <3> DEFINE t == SubSeq(stack, 1, i)
    <3>2. /\ t \in Seq(Frames) /\ Len(t) = i /\ \A k \in 1..i : t[k] = stack[k]
      BY <1>1, <1>4, StackFacts, Prefixed
    <3> HIDE DEF t, Frames
    <3>3. t # <<>> /\ 1 \in 1..i
      BY <1>4, <3>2
    <3> QED BY <3>1, <3>2, <3>3 DEF SameCall, t
  <2> QED BY <2>1, <2>2
<1>6. /\ Cardinality(UpTo(i)) \in Nat /\ Cardinality(UpTo(i)) <= Len(delivering)
      /\ delivering' = SubSeq(delivering, 1, Cardinality(UpTo(i)))
  BY <1>1, <1>2, CallsFinite, Ranks DEF UpTo
<1>7. /\ delivering' \in Seq(Jobs) /\ Len(delivering') = Cardinality(UpTo(i))
      /\ \A k \in 1..Cardinality(UpTo(i)) : delivering'[k] = delivering[k]
      /\ Contents(delivering') \subseteq Contents(delivering)
      /\ Distinct(delivering) => Distinct(delivering')
  <2>1. delivering \in Seq(Jobs)
    BY <1>1 DEF TypeOK
  <2> QED BY <1>6, <2>1, Prefixed
<1>8. TypeOK'
  <2>1. cut' \subseteq Jobs
    BY <1>1, <1>2 DEF TypeOK, JobCalls
  <2> QED BY <1>1, <1>3, <1>5, <1>7, <2>1 DEF TypeOK
<1>9. JobsOnce'
  <2>1. /\ Contents(queue') = Contents(queue) /\ Contents(finished') = Contents(finished)
        /\ Distinct(queue') = Distinct(queue) /\ Distinct(finished') = Distinct(finished)
    BY <1>3
  <2> QED BY <1>1, <1>3, <1>7, <2>1 DEF JobsOnce
<1>10. CompletionsOnStack'
  <2>1. \A k : k \in 1..i => k \in 1..Depth
    BY <1>4
  <2>2. JobCalls' = {k \in 1..i : stack'[k].kind = "call" /\ stack'[k].of \in Jobs}
    BY <1>5 DEF JobCalls, Depth
  <2>3. \A k \in 1..i : stack'[k].kind = stack[k].kind /\ stack'[k].of = stack[k].of
    BY <1>5 DEF SameCall
  <2>4. \A k \in 1..Depth : k <= i <=> k \in 1..i
    BY <1>4
  <2>5. JobCalls' = UpTo(i)
    BY <2>1, <2>2, <2>3, <2>4 DEF JobCalls, UpTo
  <2>6. ASSUME NEW k \in UpTo(i)
        PROVE  delivering'[Cardinality({m \in JobCalls' : m <= k})] = stack'[k].of
    <3>1. k \in JobCalls /\ k \in 1..i /\ \A m \in JobCalls : m <= k => m <= i
      BY <1>4, <2>4, CallsFinite, <1>1 DEF UpTo
    <3>2. {m \in JobCalls' : m <= k} = UpTo(k) /\ UpTo(k) \subseteq UpTo(i)
      BY <2>5, <3>1 DEF UpTo
    <3>3. Cardinality(UpTo(k)) \in 1..Cardinality(UpTo(i))
      BY <1>1, <3>1, <3>2, CallsFinite, FS_Subset
    <3> QED BY <1>1, <1>7, <2>3, <3>1, <3>2, <3>3, Ranks
  <2> QED BY <1>7, <2>5, <2>6 DEF CompletionsOnStack
<1>11. Awaited'
  <2>1. Known \subseteq Known' \cup settled'
    BY <1>1, <1>3 DEF Known, JobsOnce
  <2>2. Armed' = Armed
    BY <1>3 DEF Armed
  <2>3. \A k \in 1..Len(stack') : k \in 1..Depth /\ SameCall(stack'[k], stack[k])
    BY <1>4, <1>5
  <2> QED BY <1>1, <1>3, <2>1, <2>2, <2>3, KeepsAwaited
<1>12. Winding'
  <2>1. stack[1].kind = "main" /\ stack[1].at # "exit" /\ \A k \in 2..Depth : stack[k].kind # "main"
    BY <1>1, <1>4 DEF Winding
  <2>2. stack'[1].kind = "main" /\ stack'[1].at # "exit"
    BY <1>4, <1>5, <2>1 DEF SameCall
  <2>3. \A k \in 2..i : stack'[k].kind # "main"
    <3>1. \A k \in 2..i : k \in 1..i /\ k \in 2..Depth
      BY <1>4
    <3> QED BY <1>5, <2>1, <3>1 DEF SameCall
  <2>4. stack'[1].at \in {"run", "last"} => loop' = "async"
    BY <1>1, <1>3, <1>5 DEF Winding
  <2> QED BY <1>3, <1>5, <2>2, <2>3, <2>4 DEF Winding, Depth
<1> QED BY <1>8, <1>9, <1>10, <1>11, <1>12 DEF Core

\* a callback is called by a poll, not while ts_async_run winds up or by its timers
(* A poll calls a callback. *)
LEMMA CalledOK ==
  ASSUME Core, UNCHANGED <<careful, loop>>, Depth >= 2, NEW f, NEW a, Grows(f, a), f.kind = "call",
         TypeOK', JobsOnce', CompletionsOnStack', Known' = Known, settled \subseteq settled',
         Armed \subseteq Armed' \cup settled',
         careful => stack[1].at # "last",
         careful /\ stack[1].at = "run" =>
            (JobsPending' => JobsPending) /\ (Depth = 2 => f.of \in Timers)
  PROVE  Core'
<1>1. TypeOK /\ Winding /\ Awaited
  BY DEF Core
<1>2. /\ Len(stack') = Depth + 1
      /\ \A i \in 1..Depth : SameCall(stack'[i], stack[i])
      /\ \A i \in 1..Depth - 1 : stack'[i].at = stack[i].at
      /\ stack'[Depth + 1] = f
      /\ Depth \in Nat /\ 1 \in 1..Depth - 1 /\ 1 \in 1..Depth
      /\ \A i \in 1..Depth + 1 : i \in 1..Depth \/ i = Depth + 1
  BY <1>1, StackFacts DEF Grows
<1>3. stack'[1].kind = "main" /\ stack'[1].at = stack[1].at
  BY <1>1, <1>2, Below DEF SameCall
<1>4. Awaited'
  <2>1. \A i \in 1..Len(stack') : stack'[i].kind = "await" => i \in 1..Depth /\ SameCall(stack'[i],
          stack[i])
    BY <1>2
  <2> QED BY <1>1, <2>1, KeepsAwaited
<1>5. /\ Len(stack') \in Nat /\ Len(stack') >= 1 /\ Len(stack') <= Depth + 1
  BY <1>2
<1>6. \A i \in 1..Len(stack') : i >= 2 =>
            \/ i \in 1..Depth /\ SameCall(stack'[i], stack[i])
            \/ i = Depth + 1 /\ stack'[i].kind # "main"
  BY <1>2
<1>7. Depth = 2 => stack'[3].kind = "call" /\ stack'[3] = f
  BY <1>2
<1>8. Winding'
  BY <1>1, <1>3, <1>5, <1>6, <1>7, InnerWinding
<1> QED BY <1>4, <1>8 DEF Core

(* ts_timers_poll calls a timer. *)
LEMMA FireOK ==
  ASSUME Core, Fire
  PROVE  Core'
<1>1. TypeOK /\ Winding /\ JobsOnce /\ CompletionsOnStack
  BY DEF Core
<1>2. PICK t \in Top.ahead \cap Due :
        /\ timer' = [timer EXCEPT ![t] = "fired"]
        /\ settled' = settled \cup {t}
        /\ stack' = Append(stack, Frame("call", t, "start", {}))
  BY DEF Fire, Push
<1>3. UNCHANGED <<jobVars, careful, cut, loop, sent, open>> /\ Top.kind = "timers"
  BY DEF Fire, TopIs
<1> DEFINE f == Frame("call", t, "start", {})
<1>4. t \in Timers
  BY <1>2, DueFacts
<1>5. f \in Frames /\ f.kind = "call" /\ f.of = t
  <2>1. Fits("call", "start") /\ t \in Named /\ {} \in SUBSET Timers
    BY <1>4 DEF Fits, Named, Promises
  <2> QED BY <2>1, FrameFacts
<1>6. stack' = Append(stack, f)
  BY <1>2
<1> HIDE DEF f
<1>7. Grows(f, Top.at)
  BY <1>1, <1>5, <1>6, Itself, GrowStep
<1>8. Depth >= 2
  BY <1>1, <1>3, Below, StackFacts
<1>9. JobsOnce' /\ Known' = Known /\ delivering' = delivering /\ JobsPending' = JobsPending
  BY <1>1, <1>2, <1>3, SameJobs
<1>10. timer \in [Timers -> {"unset", "armed", "due", "fired"}]
  BY <1>1 DEF TypeOK
<1>11. timer' \in [Timers -> {"unset", "armed", "due", "fired"}] /\ Armed \subseteq Armed' \cup {t}
  BY <1>2, <1>4, <1>10 DEF Armed
<1>12. settled' \subseteq Promises
  BY <1>1, <1>2, <1>4 DEF TypeOK, Promises
<1>13. TypeOK'
  BY <1>1, <1>3, <1>7, <1>9, <1>11, <1>12 DEF TypeOK, Grows
<1>14. CompletionsOnStack'
  <2>1. ~IsJobCall(f)
    BY <1>4, <1>5, EventLoopAssumption DEF IsJobCall
  <2>2. JobCalls' = JobCalls /\ \A i \in JobCalls : stack'[i].of = stack[i].of
    BY <1>1, <1>7, <2>1, CallsAfter
  <2> QED BY <1>1, <1>9, <2>2, SameCalls
<1>15. careful => stack[1].at # "last"
  BY <1>1, <1>3, <1>8, InnerAt
<1> QED BY <1>2, <1>3, <1>4, <1>5, <1>7, <1>8, <1>9, <1>11, <1>13, <1>14, <1>15, CalledOK

(* ts_jobs_poll completes a job. *)
LEMMA CompleteOK ==
  ASSUME Core, Complete
  PROVE  Core'
<1> DEFINE j == Head(finished)
           f == Frame("call", j, "start", {})
<1>1. TypeOK /\ Winding /\ JobsOnce /\ CompletionsOnStack /\ delivering \in Seq(Jobs)
  BY DEF Core, TypeOK
<1>2. /\ UNCHANGED <<careful, cut, loop, timer, sent, open>> /\ Top.kind = "jobs" /\ Deliver
      /\ settled' = settled \cup {j} /\ stack' = Append(stack, f) /\ finished # <<>>
  BY DEF Complete, TopIs, Push, Deliver
<1>3. /\ JobsOnce' /\ Known' = Known /\ j \in Jobs /\ delivering' = Append(delivering, j)
      /\ delivering' \in Seq(Jobs)
  BY <1>1, <1>2, DeliverOnce
<1> HIDE DEF j
<1>4. f \in Frames /\ f.kind = "call" /\ f.of = j
  <2>1. Fits("call", "start") /\ j \in Named /\ {} \in SUBSET Timers
    BY <1>3 DEF Fits, Named, Promises
  <2> QED BY <2>1, FrameFacts
<1> HIDE DEF f
<1>5. Grows(f, Top.at)
  BY <1>1, <1>2, <1>4, Itself, GrowStep
<1>6. Depth >= 2
  BY <1>1, <1>2, Below, StackFacts
<1>7. Armed' = Armed
  BY <1>2 DEF Armed
<1>8. settled' \subseteq Promises
  BY <1>1, <1>2, <1>3 DEF TypeOK, Promises
<1>9. TypeOK'
  BY <1>1, <1>2, <1>3, <1>5, <1>8 DEF TypeOK, Grows
<1>10. CompletionsOnStack'
  <2>1. JobCalls' = JobCalls \cup {Depth + 1} /\ \A i \in JobCalls : stack'[i].of = stack[i].of
    BY <1>1, <1>3, <1>4, <1>5, CallsAfter DEF IsJobCall
  <2>2. stack'[Depth + 1].of = j
    BY <1>4, <1>5 DEF Grows
  <2> QED BY <1>1, <1>3, <2>1, <2>2, CallJob
<1>11. careful => stack[1].at \notin {"run", "last"}
  BY <1>1, <1>2, <1>6, InnerAt, Idle
<1> QED BY <1>2, <1>3, <1>4, <1>5, <1>6, <1>7, <1>9, <1>10, <1>11, CalledOK

(* A poll returns. *)
LEMMA PollReturnOK ==
  ASSUME Core, TimersReturn \/ JobsReturn
  PROVE  Core'
<1>1. /\ UNCHANGED jobVars /\ UNCHANGED Elsewhere /\ stack' = Returned(Top.did)
      /\ Top.kind \in {"timers", "jobs"}
  BY DEF TimersReturn, JobsReturn, Elsewhere, TopIs
<1>2. Top.did \in BOOLEAN
  BY StackFacts, FramesAre DEF Core
<1> QED BY <1>1, <1>2, PopOK DEF IsJobCall

-----------------------------------------------------------------------------
(* ts_await *)

(* Where an await can be. *)
LEMMA AwaitTop ==
  ASSUME Core, Top.kind = "await"
  PROVE  /\ TypeOK /\ Winding /\ Depth >= 2
         /\ careful => stack[1].at # "last" /\ (stack[1].at = "run" => Depth >= 3)
<1>1. TypeOK /\ Winding
  BY DEF Core
<1>2. Depth >= 2
  BY <1>1, Below, StackFacts
<1> QED BY <1>1, <1>2, InnerAt, StackFacts

(* ts_await polls the timers, *)
LEMMA AwaitTimersOK ==
  ASSUME Core, AwaitTimers
  PROVE  Core'
<1> DEFINE next == [stack EXCEPT ![Depth].at = "timersDone", ![Depth].did = FALSE]
<1>1. /\ UNCHANGED jobVars /\ UNCHANGED Elsewhere /\ Top.kind = "await"
      /\ stack' = IF TimersPending THEN Append(next, TimersPoll) ELSE next
  BY DEF AwaitTimers, Elsewhere, TopIs, Push
<1>2. Retouched(next, "timersDone")
  BY <1>1, AwaitTop, MovedTop DEF Fits
<1> HIDE DEF next
<1>3. CASE TimersPending
  <2>1. Grows(TimersPoll, "timersDone")
    BY <1>1, <1>2, <1>3, AwaitTop, PollFrames, GrowStep
  <2> QED BY <1>1, <2>1, AwaitTop, PollFrames, InnerGrow
<1>4. CASE ~TimersPending
  <2>1. Moves("timersDone")
    BY <1>1, <1>2, <1>4, AwaitTop, MoveStep
  <2> QED BY <1>1, <2>1, AwaitTop, InnerMove
<1> QED BY <1>3, <1>4

(* the jobs, *)
LEMMA AwaitJobsOK ==
  ASSUME Core, AwaitJobs
  PROVE  Core'
<1>1. /\ UNCHANGED jobVars /\ UNCHANGED Elsewhere /\ Top.kind = "await"
      /\ stack' = Append(Moved("jobsDone"), JobsPoll)
  BY DEF AwaitJobs, Elsewhere, TopIs, Push
<1>2. Retouched(Moved("jobsDone"), "jobsDone")
  BY <1>1, AwaitTop, MovedTop DEF Fits
<1>3. Grows(JobsPoll, "jobsDone")
  BY <1>1, <1>2, AwaitTop, PollFrames, GrowStep
<1> QED BY <1>1, <1>3, AwaitTop, PollFrames, InnerGrow

(* goes round again, *)
LEMMA AwaitAgainOK ==
  ASSUME Core, AwaitAgain
  PROVE  Core'
<1>1. /\ UNCHANGED jobVars /\ UNCHANGED Elsewhere /\ Top.kind = "await"
      /\ \/ stack' = Append(Moved("start"), TimersPoll)
         \/ stack' = Moved("start")
  BY DEF AwaitAgain, Elsewhere, TopIs, Push
<1>2. Retouched(Moved("start"), "start")
  BY <1>1, AwaitTop, MovedTop DEF Fits
<1>3. CASE stack' = Append(Moved("start"), TimersPoll)
  <2>1. Grows(TimersPoll, "start")
    BY <1>2, <1>3, <1>1, AwaitTop, PollFrames, GrowStep
  <2> QED BY <1>1, <2>1, AwaitTop, PollFrames, InnerGrow
<1>4. CASE stack' = Moved("start")
  <2>1. Moves("start")
    BY <1>2, <1>4, <1>1, AwaitTop, MoveStep
  <2> QED BY <1>1, <2>1, AwaitTop, InnerMove
<1> QED BY <1>1, <1>3, <1>4

(* or returns. *)
LEMMA AwaitReturnOK ==
  ASSUME Core, AwaitReturn
  PROVE  Core'
<1>1. /\ UNCHANGED jobVars /\ UNCHANGED Elsewhere /\ Top.kind = "await" /\ stack' = Returned(FALSE)
  BY DEF AwaitReturn, Elsewhere
<1> QED BY <1>1, PopOK DEF IsJobCall

-----------------------------------------------------------------------------
(* main() *)

(* main() runs, so it is alone on the stack. *)
LEMMA MainTop ==
  ASSUME Core, Top.kind = "main"
  PROVE  /\ TypeOK /\ Winding /\ Depth = 1 /\ Top = stack[1]
         /\ \A a \in {"start", "timersDone", "jobsDone", "run", "last", "exit"} :
              Retouched(Goto(a), a) /\ Retouched(Moved(a), a)
<1>1. TypeOK /\ Winding
  BY DEF Core
<1>2. Depth = 1 /\ Top = stack[1]
  BY <1>1, Below
<1>3. \A a \in {"start", "timersDone", "jobsDone", "run", "last", "exit"} : Fits(Top.kind, a)
  BY DEF Fits
<1> QED BY <1>1, <1>2, <1>3, MovedTop

(* The entry function returns. *)
LEMMA EntryReturnOK ==
  ASSUME Core, EntryReturn
  PROVE  Core'
<1>1. /\ UNCHANGED jobVars /\ UNCHANGED Elsewhere /\ Top.kind = "main" /\ stack' = Moved("start")
  BY DEF EntryReturn, Elsewhere, TopIs
<1>2. Moves("start")
  BY <1>1, MainTop, MoveStep
<1> QED BY <1>1, <1>2, MainTop, MainMove

(* The server loop calls a handler, *)
LEMMA ServerEventOK ==
  ASSUME Core, NEW e \in Events, ServerEvent(e)
  PROVE  Core'
<1> DEFINE f == Frame("call", e, "start", {})
<1>1. /\ UNCHANGED <<jobVars, careful, cut, loop, timer, open, settled>>
      /\ Top.kind = "main" /\ Top.at = "start"
      /\ sent' = sent \cup {e} /\ stack' = Append(stack, f)
  BY DEF ServerEvent, Main, TopIs, Push
<1>2. TypeOK /\ Winding /\ JobsOnce /\ CompletionsOnStack /\ Awaited
  BY DEF Core
<1>3. f \in Frames /\ f.kind = "call" /\ f.of = e
  <2>1. Fits("call", "start") /\ e \in Named /\ {} \in SUBSET Timers
    BY DEF Fits, Named
  <2> QED BY <2>1, FrameFacts
<1> HIDE DEF f
<1>4. Grows(f, "start")
  BY <1>1, <1>2, <1>3, Itself, GrowStep
<1>5. /\ stack' \in Seq(Frames) /\ stack' # <<>> /\ Len(stack') = 2
      /\ SameCall(stack'[1], stack[1]) /\ stack'[1].at = "start" /\ stack'[2] = f /\ Depth = 1
  BY <1>1, <1>4, MainTop DEF Grows
<1>6. JobsOnce' /\ Known' = Known /\ delivering' = delivering
  BY <1>1, <1>2, SameJobs
<1>7. Armed' = Armed
  BY <1>1 DEF Armed
<1>8. TypeOK'
  BY <1>1, <1>2, <1>5, <1>6 DEF TypeOK
<1>9. CompletionsOnStack'
  <2>1. ~IsJobCall(f)
    BY <1>3, EventLoopAssumption DEF IsJobCall
  <2>2. JobCalls' = JobCalls /\ \A i \in JobCalls : stack'[i].of = stack[i].of
    BY <1>2, <1>4, <2>1, CallsAfter
  <2> QED BY <1>2, <1>6, <2>2, SameCalls
<1>10. Awaited'
  <2>1. \A i \in 1..Len(stack') : i = 1 \/ i = 2
    BY <1>5
  <2>2. stack'[1].kind = "main" /\ stack'[2].kind = "call"
    BY <1>2, <1>3, <1>5, Below DEF SameCall
  <2> QED BY <1>1, <1>2, <1>6, <1>7, <2>1, <2>2, KeepsAwaited
<1>11. Winding'
  <2>1. stack'[1].kind = "main" /\ stack'[2].kind = "call"
    BY <1>2, <1>3, <1>5, Below DEF SameCall
  <2>2. 2..2 = {2}
    OBVIOUS
  <2> QED BY <1>5, <2>1, <2>2 DEF Winding, Depth
<1> QED BY <1>6, <1>8, <1>9, <1>10, <1>11 DEF Core

(* goes round, or ends. *)
LEMMA ServerRoundOK ==
  ASSUME Core, ServerRound
  PROVE  Core'
<1>1. /\ UNCHANGED jobVars /\ UNCHANGED Elsewhere /\ Top.kind = "main"
      /\ \/ ServerTimers \/ ServerJobs
         \/ ~AsyncPending /\ stack' = Goto("exit")
  BY DEF ServerRound, Elsewhere, Main, TopIs
<1>2. CASE ServerTimers
  <2>1. CASE TimersPending
    <3>1. stack' = Append(Goto("timersDone"), TimersPoll)
      BY <1>2, <2>1 DEF ServerTimers, Push
    <3>2. Grows(TimersPoll, "timersDone")
      BY <1>1, <3>1, MainTop, PollFrames, GrowStep
    <3> QED BY <1>1, <3>2, MainTop, PollFrames, MainGrow
  <2>2. CASE ~TimersPending
    <3>1. stack' = Goto("timersDone")
      BY <1>2, <2>2 DEF ServerTimers
    <3>2. Moves("timersDone")
      BY <1>1, <3>1, MainTop, MoveStep
    <3> QED BY <1>1, <3>2, MainTop, MainMove
  <2> QED BY <2>1, <2>2
<1>3. CASE ServerJobs
  <2>1. stack' = Append(Goto("start"), JobsPoll)
    BY <1>3 DEF ServerJobs, Push
  <2>2. Grows(JobsPoll, "start")
    BY <1>1, <2>1, MainTop, PollFrames, GrowStep
  <2> QED BY <1>1, <2>2, MainTop, PollFrames, MainGrow
<1>4. CASE ~AsyncPending /\ stack' = Goto("exit")
  <2>1. Moves("exit")
    BY <1>1, <1>4, MainTop, MoveStep
  <2>2. ~JobsPending /\ ~TimersPending
    BY <1>4 DEF AsyncPending
  <2> QED BY <1>1, <2>1, <2>2, MainTop, MainMove
<1> QED BY <1>1, <1>2, <1>3, <1>4

(* ts_async_run, as main() calls it: it winds up when no job is pending. *)
LEMMA AsyncRunOK ==
  ASSUME Core, AsyncRun
  PROVE  Core'
<1>1. /\ UNCHANGED jobVars /\ UNCHANGED Elsewhere /\ Top.kind = "main" /\ loop = "async"
      /\ \/ stack' = Append(Goto("jobsDone"), JobsPoll)
         \/ stack' = Goto("start")
         \/ ~JobsPending /\ stack' = Goto("run")
         \/ Top.at = "run" /\ TimersPending /\ stack' = Append(stack, TimersPoll)
         \/ Top.at = "run" /\ ~TimersPending /\ stack' = Append(Goto("last"), JobsPoll)
         \/ Top.at = "last" /\ stack' = Goto("exit")
  BY DEF AsyncRun, Elsewhere, Main, TopIs, AsyncDecide, AsyncTimers, AsyncPending, Push
<1>2. /\ careful /\ Top.at = "run" => ~JobsPending
      /\ careful /\ Top.at = "last" => ~JobsPending /\ ~TimersPending
  BY <1>1, MainTop DEF Winding
<1>3. CASE stack' = Append(Goto("jobsDone"), JobsPoll)
  <2>1. Grows(JobsPoll, "jobsDone")
    BY <1>1, <1>3, MainTop, PollFrames, GrowStep
  <2> QED BY <1>1, <2>1, MainTop, PollFrames, MainGrow
<1>4. CASE stack' = Goto("start")
  <2>1. Moves("start")
    BY <1>1, <1>4, MainTop, MoveStep
  <2> QED BY <1>1, <2>1, MainTop, MainMove
<1>5. CASE ~JobsPending /\ stack' = Goto("run")
  <2>1. Moves("run")
    BY <1>1, <1>5, MainTop, MoveStep
  <2> QED BY <1>1, <1>5, <2>1, MainTop, MainMove
<1>6. CASE Top.at = "run" /\ TimersPending /\ stack' = Append(stack, TimersPoll)
  <2>1. Grows(TimersPoll, "run")
    BY <1>1, <1>6, MainTop, Itself, PollFrames, GrowStep
  <2> QED BY <1>1, <1>2, <1>6, <2>1, MainTop, PollFrames, MainGrow
<1>7. CASE Top.at = "run" /\ ~TimersPending /\ stack' = Append(Goto("last"), JobsPoll)
  <2>1. Grows(JobsPoll, "last")
    BY <1>1, <1>7, MainTop, PollFrames, GrowStep
  <2> QED BY <1>1, <1>2, <1>7, <2>1, MainTop, PollFrames, MainGrow
<1>8. CASE Top.at = "last" /\ stack' = Goto("exit")
  <2>1. Moves("exit")
    BY <1>1, <1>8, MainTop, MoveStep
  <2> QED BY <1>1, <1>2, <1>8, <2>1, MainTop, MainMove
<1> QED BY <1>1, <1>3, <1>4, <1>5, <1>6, <1>7, <1>8

-----------------------------------------------------------------------------
(* The theorems *)

(* The invariant holds at the start of main(), *)
LEMMA CoreInit == Init => Core
<1> SUFFICES ASSUME Init PROVE Core
  OBVIOUS
<1> DEFINE f == Frame("main", Nobody, "code", {})
<1>1. f \in Frames /\ f.kind = "main" /\ f.at = "code"
  <2>1. Fits("main", "code") /\ Nobody \in Named /\ {} \in SUBSET Timers
    BY DEF Fits, Named
  <2> QED BY <2>1, FrameFacts
<1>2. stack = <<f>>
  BY DEF Init
<1> HIDE DEF f
<1>3. stack \in Seq(Frames) /\ stack # <<>> /\ Len(stack) = 1 /\ stack[1] = f
  <2> HIDE DEF Frames
  <2> QED BY <1>1, <1>2
<1>4. /\ queue = <<>> /\ running = {} /\ finished = <<>> /\ delivering = <<>>
      /\ delivered = {} /\ abandoned = {} /\ settled = {} /\ sent = {}
      /\ timer = [t \in Timers |-> "unset"] /\ careful \in BOOLEAN /\ cut = {}
      /\ loop \in {"server", "sockets", "async"} /\ open \in BOOLEAN
  BY DEF Init, JInit
<1>5. TypeOK
  BY <1>3, <1>4 DEF TypeOK
<1>6. JobCalls = {}
  BY <1>1, <1>3 DEF JobCalls, Depth
<1>7. CompletionsOnStack
  BY <1>4, <1>6, FS_EmptySet DEF CompletionsOnStack
<1>8. <<>> \in Seq(Jobs) /\ Contents(<<>>) = {} /\ Distinct(<<>>)
  BY DEF Contents, Distinct
<1>9. JobsOnce
  BY <1>4, <1>8 DEF JobsOnce
<1>10. Awaited
  BY <1>1, <1>3 DEF Awaited, Depth
<1>11. Winding
  BY <1>1, <1>3 DEF Winding, Depth
<1> QED BY <1>5, <1>7, <1>9, <1>10, <1>11 DEF Core

(* every step keeps it, *)
LEMMA CoreStep == Core /\ [Next]_vars => Core'
<1> SUFFICES ASSUME Core, [Next]_vars PROVE Core'
  OBVIOUS
<1>1. ASSUME NEW t \in Timers, TimePasses(t) \/ SetTimeout(t) PROVE Core'
  BY <1>1, TimerOK
<1>2. ASSUME NEW j \in Jobs, SubmitJob(j) PROVE Core'
  BY <1>2, SubmitJobOK
<1>3. ASSUME NEW p \in Promises, Await(p) PROVE Core'
  BY <1>3, AwaitOK
<1>4. ASSUME NEW e \in Events, ServerEvent(e) PROVE Core'
  BY <1>4, ServerEventOK
<1>5. CASE PollStep
  BY <1>5, FireOK, CompleteOK, PollReturnOK DEF PollStep
<1>6. CASE AwaitStep
  BY <1>6, AwaitTimersOK, AwaitJobsOK, AwaitAgainOK, AwaitReturnOK DEF AwaitStep
<1>7. CASE PoolStep
  BY <1>7, PoolStepOK
<1>8. CASE Close
  BY <1>8, CloseOK
<1>9. CASE CallReturn
  BY <1>9, CallReturnOK
<1>10. CASE EntryReturn
  BY <1>10, EntryReturnOK
<1>11. CASE ServerRound
  BY <1>11, ServerRoundOK
<1>12. CASE AsyncRun
  BY <1>12, AsyncRunOK
<1>13. CASE UNCHANGED vars
  BY <1>13, StutterOK
<1>14. CASE Throw
  BY <1>14, ThrowOK
<1> QED BY <1>1, <1>2, <1>3, <1>4, <1>5, <1>6, <1>7, <1>8, <1>9, <1>10, <1>11, <1>12, <1>13, <1>14
        DEF Next, LoopStep, Exited

(* so it holds always, *)
LEMMA LoopCore == Spec => []Core
<1> QED BY CoreInit, CoreStep, PTL DEF Spec

(* and implies what the run checks. *)
LEMMA CoreEnough == Core => LoopInv
<1> SUFFICES ASSUME Core PROVE LoopInv
  OBVIOUS
<1>1. TypeOK /\ CompletionsOnStack /\ Winding
  BY DEF Core
<1>2. ASSUME careful, Top.at = "exit" PROVE ~JobsPending /\ ~TimersPending
  <2>1. Top.kind = "main"
    BY <1>1, <1>2, StackFacts, FramesAre DEF Fits
  <2> QED BY <1>1, <1>2, <2>1, Below DEF Winding
<1> QED BY <1>1, <1>2 DEF LoopInv, NothingLeftAtExit

(* When main() returns, no job is pending and no timer is set, in programs whose
   timers submit no job under ts_async_run and whose callbacks catch what is thrown
   in them ("careful"); and in all of them the
   completions in progress are the job callbacks on the stack (ts_jobs_poll). *)
THEOREM LoopSafe == Spec => []LoopInv
BY LoopCore, CoreEnough, PTL

(* An await that returns saw its promise settled, or nothing pending that could settle it. *)
LEMMA SettledReturn ==
  ASSUME Core, AwaitReturn, Top.of \in Jobs \cup Timers
  PROVE  Top.of \in settled
<1>1. TypeOK /\ Awaited /\ JobsOnce /\ Depth \in 1..Depth /\ Top = stack[Depth] /\ Top.kind = "await"
  BY StackFacts DEF Core, AwaitReturn, Top
<1>2. /\ Top.of \in Jobs => Top.of \in settled \cup Known
      /\ Top.of \in Timers => Top.of \in settled \cup Armed
  BY <1>1 DEF Awaited
<1>3. ASSUME ~JobsPending, ~TimersPending PROVE Top.of \in settled
  <2>1. Known = delivered /\ delivered \subseteq settled
    BY <1>1, <1>3 DEF JobsPending, JobsOnce
  <2>2. Armed = {}
    BY <1>3 DEF TimersPending
  <2> QED BY <1>2, <2>1, <2>2
<1> QED BY <1>3 DEF AwaitReturn, Unsettled, Hopeless

AwaitSettlesStep ==
  Top.kind = "await" /\ Top.of \in Jobs \cup Timers /\ Len(stack') < Depth
    => Top.of \in settled

(* Only the await itself takes its frame from the stack. *)
LEMMA OnlyReturns ==
  ASSUME Core, Next, ~Throw, Top.kind = "await", Len(stack') < Depth
  PROVE  AwaitReturn
<1>1. TypeOK /\ Winding /\ Depth \in Nat
  BY StackFacts DEF Core
<1>2. stack' # stack
  BY <1>1 DEF Depth
<1>3. ASSUME NEW a, Retouched(stack', a) PROVE FALSE
  BY <1>3, <1>1 DEF Retouched
<1>4. ASSUME NEW s, NEW a, Retouched(s, a), NEW f \in Frames, stack' = Append(s, f) PROVE FALSE
  <2>1. Grows(f, a)
    BY <1>1, <1>4, GrowStep
  <2> QED BY <1>1, <2>1 DEF Grows
<1>5. ~PoolStep /\ ~Close /\ ~CallReturn /\ ~EntryReturn /\ ~ServerRound /\ ~AsyncRun
      /\ ~PollStep /\ ~Exited
  BY <1>2 DEF PoolStep, loopVars, Close, CallReturn, EntryReturn, TopIs, ServerRound, Main, AsyncRun,
              PollStep, Fire, TimersReturn, Complete, JobsReturn, Exited
<1>6. /\ \A t \in Timers : ~TimePasses(t) /\ ~SetTimeout(t)
      /\ \A j \in Jobs : ~SubmitJob(j)
      /\ \A p \in Promises : ~Await(p)
      /\ \A e \in Events : ~ServerEvent(e)
  BY <1>2 DEF TimePasses, SetTimeout, UserCode, SubmitJob, loopVars, Await, ServerEvent, Main, TopIs
<1>7. ~AwaitTimers
  <2> SUFFICES ASSUME AwaitTimers PROVE FALSE
    OBVIOUS
  <2> DEFINE next == [stack EXCEPT ![Depth].at = "timersDone", ![Depth].did = FALSE]
  <2>1. Retouched(next, "timersDone")
    BY <1>1, MovedTop DEF Fits
  <2>2. stack' = Append(next, TimersPoll) \/ stack' = next
    BY DEF AwaitTimers, Push
  <2> HIDE DEF next
  <2> QED BY <1>3, <1>4, <2>1, <2>2, PollFrames
<1>8. ~AwaitJobs
  <2> SUFFICES ASSUME AwaitJobs PROVE FALSE
    OBVIOUS
  <2>1. Retouched(Moved("jobsDone"), "jobsDone")
    BY <1>1, MovedTop DEF Fits
  <2> QED BY <1>4, <2>1, PollFrames DEF AwaitJobs, Push
<1>9. ~AwaitAgain
  <2> SUFFICES ASSUME AwaitAgain PROVE FALSE
    OBVIOUS
  <2>1. Retouched(Moved("start"), "start")
    BY <1>1, MovedTop DEF Fits
  <2> QED BY <1>3, <1>4, <2>1, PollFrames DEF AwaitAgain, Push
<1> QED BY <1>5, <1>6, <1>7, <1>8, <1>9 DEF Next, LoopStep, AwaitStep

(* No step takes the frame of an await whose promise is pending. *)
LEMMA AwaitSettlesNext == Core /\ [Next]_vars => [AwaitSettlesStep]_vars
<1> SUFFICES ASSUME Core, Next, Top.kind = "await", Top.of \in Jobs \cup Timers, Len(stack') < Depth
             PROVE  Top.of \in settled
  BY DEF AwaitSettlesStep
<1>1. CASE Throw
  BY <1>1 DEF Throw
<1> QED BY <1>1, OnlyReturns, SettledReturn

(* ts_await of a job's or a timeout's promise does not return while the promise is
   pending, however many callbacks ran and awaited in between (promise.c). *)
THEOREM AwaitsSettle == Spec => AwaitSettles
<1>1. Core /\ [Next]_vars => [AwaitSettlesStep]_vars
  BY AwaitSettlesNext
<1>2. Spec => [][AwaitSettlesStep]_vars
  BY <1>1, LoopCore, PTL DEF Spec
<1> QED BY <1>2 DEF AwaitSettles, AwaitSettlesStep

-----------------------------------------------------------------------------
(* The timer list *)

PollRecord == [at : 1..ListStart, now : 0..MaxTime]

IInv == TimersIInv /\ NextCallLate

-----------------------------------------------------------------------------
(* The stack of polls *)

(* The innermost of the polls in progress. *)
LEMMA TopFacts ==
  ASSUME TimersTypeOK, polls # <<>>
  PROVE  /\ Len(polls) \in Nat /\ Len(polls) >= 1 /\ Len(polls) \in DOMAIN polls
         /\ TopPoll \in PollRecord
         /\ TopPoll.at \in 1..ListStart /\ TopPoll.now \in 0..MaxTime
<1>1. polls \in Seq(PollRecord)
  BY DEF TimersTypeOK, PollRecord
<1>2. Len(polls) \in Nat /\ Len(polls) >= 1 /\ Len(polls) \in DOMAIN polls
  BY <1>1
<1>3. TopPoll \in PollRecord
  BY <1>1, <1>2 DEF TopPoll
<1> QED BY <1>2, <1>3 DEF PollRecord

(* ts_timers_poll is called: a new traversal, at its start. *)
LEMMA PushFacts ==
  ASSUME TimersTypeOK, polls' = Append(polls, [at |-> ListStart, now |-> clock])
  PROVE  /\ polls' \in Seq(PollRecord) /\ Len(polls') = Len(polls) + 1 /\ polls' # <<>>
         /\ polls'[Len(polls')] = [at |-> ListStart, now |-> clock]
         /\ \A i \in DOMAIN polls' :
              polls'[i] = [at |-> ListStart,
                      now |-> clock] \/ (i \in DOMAIN polls /\ polls'[i] = polls[i])
<1>1. [at |-> ListStart, now |-> clock] \in PollRecord
  BY TimersAssumption DEF TimersTypeOK, ListStart, PollRecord
<1>2. polls \in Seq(PollRecord)
  BY DEF TimersTypeOK, PollRecord
<1> QED BY <1>1, <1>2

(* The loop pointer of the innermost traversal moves on to t. *)
LEMMA MoveFacts ==
  ASSUME TimersTypeOK, polls # <<>>, NEW t \in Ids, polls' = [polls EXCEPT ![Len(polls)].at = t]
  PROVE  /\ polls' \in Seq(PollRecord) /\ Len(polls') = Len(polls) /\ polls' # <<>>
         /\ polls'[Len(polls')] = [TopPoll EXCEPT !.at = t]
         /\ \A i \in DOMAIN polls' : i \in DOMAIN polls /\ polls'[i].now = polls[i].now
<1>1. polls \in Seq(PollRecord) /\ Len(polls) \in 1..Len(polls)
  BY TopFacts DEF TimersTypeOK, PollRecord
<1>2. polls' = [polls EXCEPT ![Len(polls)] = [TopPoll EXCEPT !.at = t]]
  BY DEF TopPoll
<1>3. [TopPoll EXCEPT !.at = t] \in PollRecord /\ [TopPoll EXCEPT !.at = t].now = TopPoll.now
  BY TopFacts, TimersAssumption DEF PollRecord, Ids, ListStart
<1> QED BY <1>1, <1>2, <1>3 DEF TopPoll

(* A poll returns: the traversals below it stay as they are. *)
LEMMA PopFacts ==
  ASSUME TimersTypeOK, polls # <<>>, polls' = SubSeq(polls, 1, Len(polls) - 1)
  PROVE  /\ polls' \in Seq(PollRecord) /\ Len(polls') = Len(polls) - 1
         /\ \A i \in DOMAIN polls' : i \in DOMAIN polls /\ polls'[i] = polls[i]
         /\ Len(polls) = 1 => polls' = <<>>
<1>1. polls \in Seq(PollRecord) /\ Len(polls) \in Nat /\ Len(polls) >= 1
  BY TopFacts DEF TimersTypeOK, PollRecord
<1>2. Len(polls) - 1 \in 0..Len(polls)
  BY <1>1
<1> DEFINE n == Len(polls) - 1
<1>3. /\ SubSeq(polls, 1, n) \in Seq(PollRecord)
      /\ Len(SubSeq(polls, 1, n)) = IF 1 <= n THEN n - 1 + 1 ELSE 0
      /\ \A i \in 1..n - 1 + 1 : SubSeq(polls, 1, n)[i] = polls[1 + i - 1]
  <2>1. n \in Int /\ \A i \in 1..n : polls[i] \in PollRecord
    BY <1>1
  <2> HIDE DEF n
  <2> QED BY <2>1, SubSeqProperties
<1>4. /\ polls' \in Seq(PollRecord) /\ Len(polls') = n
      /\ \A i \in 1..n : polls'[i] = polls[i]
  <2>1. n \in Nat /\ polls' = SubSeq(polls, 1, n)
    BY <1>1
  <2> HIDE DEF n
  <2>2. 1..n - 1 + 1 = 1..n /\ (IF 1 <= n THEN n - 1 + 1 ELSE 0) = n
    BY <2>1
  <2>3. \A i \in 1..n : 1 + i - 1 = i
    OBVIOUS
  <2> QED BY <1>3, <2>1, <2>2, <2>3
<1> QED BY <1>1, <1>4

-----------------------------------------------------------------------------
(* Initial states and steps *)

(* No timer is set before the program runs. *)
LEMMA InitTimers == TimersInit => IInv
<1> SUFFICES ASSUME TimersInit PROVE IInv
  OBVIOUS
<1>1. TimersTypeOK
  <2>1. 0 \in 0..MaxTime /\ 1 \in 1..(MaxTimers + 1) /\ 0 <= MaxNest
    BY TimersAssumption
  <2>2. polls \in Seq([at : 1..ListStart, now : 0..MaxTime]) /\ Len(polls) = 0
    BY DEF TimersInit
  <2>3. /\ linked \subseteq 1..(nextId - 1) /\ active \subseteq linked /\ repeating \subseteq Ids
    BY DEF TimersInit
  <2>4. /\ interval \in [Ids -> Nat] /\ due \in [Ids -> Nat]
        /\ calls \in [Ids -> 0..2] /\ started \in [Ids -> 0..MaxTime]
    BY <2>1 DEF TimersInit
  <2> QED BY <2>1, <2>2, <2>3, <2>4 DEF TimersInit, TimersTypeOK
<1>2. NoUseAfterFree /\ OneShotOnce
  BY DEF TimersInit, NoUseAfterFree, OneShotOnce
<1>3. Uncalled /\ Traversal
  BY DEF TimersInit, Uncalled, Traversal
<1>4. NextCallLate
  BY DEF TimersInit, NextCallLate
<1> QED BY <1>1, <1>2, <1>3, <1>4 DEF IInv, TimersIInv, TimersInv

(* Time passes. *)
LEMMA TickStep == ASSUME IInv, Tick PROVE IInv'
<1> USE DEF IInv, TimersIInv, TimersInv
<1>1. TimersTypeOK'
  <2>1. clock' \in 0..MaxTime
    BY TimersAssumption DEF Tick, TimersTypeOK
  <2> QED BY <2>1 DEF Tick, TimersTypeOK, listVars, histVars
<1>2. NoUseAfterFree' /\ OneShotOnce'
  BY DEF Tick, NoUseAfterFree, OneShotOnce, Points, TopPoll, listVars, histVars
<1>3. Uncalled' /\ Traversal'
  <2>1. Uncalled'
    BY DEF Tick, Uncalled, listVars, histVars
  <2>2. polls \in Seq(PollRecord) /\ clock \in Nat
    BY TimersAssumption DEF TimersTypeOK, PollRecord
  <2>3. \A i \in DOMAIN polls : polls[i].now \in Nat
    <3>1. \A i \in DOMAIN polls : polls[i] \in PollRecord
      BY <2>2
    <3> QED BY <3>1 DEF PollRecord
  <2>4. Traversal'
    BY <2>2, <2>3 DEF Tick, Traversal, listVars, histVars
  <2> QED BY <2>1, <2>4
<1>4. NextCallLate'
  <2>1. \A t \in Ids : started[t] \in Nat
    BY TimersAssumption DEF TimersTypeOK
  <2>2. clock \in Nat /\ clock' = clock + 1
    BY TimersAssumption DEF Tick, TimersTypeOK
  <2>3. \A t \in Ids : started'[t] <= clock'
    BY <2>1, <2>2 DEF Tick, NextCallLate, histVars
  <2> QED BY <2>3 DEF Tick, NextCallLate, InCallback, TopPoll, listVars, histVars
<1> QED BY <1>1, <1>2, <1>3, <1>4

(* ts_timer_add: the id is fresh. *)
LEMMA AddStep ==
  ASSUME IInv, NEW d \in Delays, NEW r \in BOOLEAN, TimerAdd(d, r)
  PROVE  IInv'
<1> USE DEF IInv, TimersIInv, TimersInv
<1>1. nextId \in Ids /\ d \in Nat /\ clock \in Nat /\ nextId \notin linked
  BY TimersAssumption DEF TimerAdd, TimersTypeOK, Ids
<1>2. TimersTypeOK'
  <2>1. nextId' \in 1..(MaxTimers + 1) /\ linked' \subseteq 1..(nextId' - 1)
    BY <1>1, TimersAssumption DEF TimerAdd, TimersTypeOK, Ids
  <2>2. active' \subseteq linked' /\ repeating' \subseteq Ids
    BY <1>1 DEF TimerAdd, TimersTypeOK
  <2>3. interval' \in [Ids -> Nat] /\ due' \in [Ids -> Nat]
    BY <1>1 DEF TimerAdd, TimersTypeOK
  <2> QED BY <2>1, <2>2, <2>3 DEF TimerAdd, TimersTypeOK, histVars
<1>3. NoUseAfterFree' /\ OneShotOnce'
  BY DEF TimerAdd, NoUseAfterFree, OneShotOnce, Points, TopPoll, histVars
<1>4. Uncalled'
  BY <1>1 DEF TimerAdd, TimersTypeOK, Uncalled, histVars, Ids
<1>5. Traversal'
  BY DEF TimerAdd, Traversal
<1>6. NextCallLate'
  <2> SUFFICES ASSUME NEW t \in Ids
               PROVE  /\ started'[t] <= clock'
                      /\ ~awaits' /\ t \in repeating' \cap active' /\ calls'[t] > 0
                           /\ ~InCallback(t)' => due'[t] >= started'[t] + interval'[t]
    BY DEF NextCallLate
  <2>1. CASE t = nextId
    <3>1. calls'[t] = 0
      BY <2>1, <1>1 DEF TimerAdd, Uncalled, histVars, TimersTypeOK, Ids
    <3> QED BY <3>1 DEF TimerAdd, NextCallLate, histVars
  <2>2. CASE t # nextId
    BY <2>2, <1>1 DEF TimerAdd, NextCallLate, InCallback, TopPoll, histVars, TimersTypeOK
  <2> QED BY <2>1, <2>2
<1> QED BY <1>2, <1>3, <1>4, <1>5, <1>6

(* clearTimeout, clearInterval: a timer is off, and the list as it was. *)
LEMMA ClearStep ==
  ASSUME IInv, NEW t \in Ids, TimerClear(t)
  PROVE  IInv'
<1> USE DEF IInv, TimersIInv, TimersInv
<1>1. TimersTypeOK'
  BY DEF TimerClear, TimersTypeOK, histVars
<1>2. NoUseAfterFree' /\ OneShotOnce'
  BY DEF TimerClear, NoUseAfterFree, OneShotOnce, Points, TopPoll, histVars
<1>3. Uncalled' /\ Traversal'
  BY DEF TimerClear, Uncalled, Traversal, histVars
<1>4. NextCallLate'
  BY DEF TimerClear, NextCallLate, InCallback, TopPoll, histVars
<1> QED BY <1>1, <1>2, <1>3, <1>4

(* ts_timers_poll is called, from an await or from ts_timers_run. *)
LEMMA PollStarts ==
  ASSUME IInv, Poll, awaits \/ polls = <<>>,
         UNCHANGED <<awaits, clock, listVars, histVars, broken>>,
         drv' \in {"code", "run", "end"}
  PROVE  IInv'
<1> USE DEF IInv, TimersIInv, TimersInv
<1>1. polls' = Append(polls, [at |-> ListStart, now |-> clock]) /\ pc' = "scan" /\ Len(polls) < MaxNest
  BY DEF Poll
<1>2. /\ polls' \in Seq(PollRecord) /\ Len(polls') = Len(polls) + 1 /\ polls' # <<>>
      /\ polls'[Len(polls')] = [at |-> ListStart, now |-> clock]
      /\ \A i \in DOMAIN polls' :
           polls'[i] = [at |-> ListStart, now |-> clock] \/ (i \in DOMAIN polls /\ polls'[i] = polls[i])
  BY <1>1, PushFacts
<1>3. Len(polls) \in Nat
  BY DEF TimersTypeOK
<1>4. TimersTypeOK'
  BY <1>1, <1>2, <1>3, TimersAssumption DEF TimersTypeOK, listVars, histVars, PollRecord
<1>5. Points'
  BY <1>2 DEF Points, TopPoll
<1>6. NoUseAfterFree' /\ OneShotOnce'
  BY <1>5 DEF NoUseAfterFree, OneShotOnce, listVars, histVars
<1>7. Uncalled'
  BY DEF Uncalled, listVars, histVars
<1>8. Traversal'
  <2>1. clock \in Nat
    BY TimersAssumption DEF TimersTypeOK
  <2>2. \A i \in DOMAIN polls' : polls'[i].now <= clock'
    BY <1>2, <2>1 DEF Traversal
  <2>3. ~awaits' => Len(polls') <= 1
    BY <1>2
  <2> QED BY <1>2, <2>2, <2>3 DEF Traversal
<1>9. NextCallLate'
  <2>1. \A t \in Ids : ~awaits => ~InCallback(t)
    BY DEF InCallback
  <2> QED BY <2>1 DEF NextCallLate, listVars, histVars
<1> QED BY <1>4, <1>6, <1>7, <1>8, <1>9

(* A callback is called: its timer is due, and off unless it repeats. *)
LEMMA FireStep == ASSUME IInv, FireTimer PROVE IInv'
<1> USE DEF IInv, TimersIInv, TimersInv
<1>1. polls # <<>> /\ pc = "scan" /\ pc' = "user"
  BY DEF FireTimer, Traversal
<1>2. PICK t \in DueAhead :
        /\ Call(t)
        /\ polls' = [polls EXCEPT ![Len(polls)].at = t]
        /\ calls' = [calls EXCEPT ![t] = IF @ < 2 THEN @ + 1 ELSE @]
        /\ started' = [started EXCEPT ![t] = clock]
  BY DEF FireTimer
<1>3. UNCHANGED <<awaits, clock, nextId, linked, repeating, interval, due, drv, broken>>
  BY DEF FireTimer
<1>4. t \in Ids /\ t \in active /\ t \in linked /\ t < nextId
  BY <1>2, TimersAssumption DEF DueAhead, TimersTypeOK, Ids
<1>5. /\ polls' \in Seq(PollRecord) /\ Len(polls') = Len(polls) /\ polls' # <<>>
      /\ polls'[Len(polls')] = [TopPoll EXCEPT !.at = t]
      /\ \A i \in DOMAIN polls' : i \in DOMAIN polls /\ polls'[i].now = polls[i].now
  BY <1>1, <1>2, <1>4, MoveFacts
<1>6. TopPoll' = [TopPoll EXCEPT !.at = t] /\ TopPoll'.at = t
  BY <1>1, <1>5, TopFacts DEF TopPoll, PollRecord
<1>7. active' \subseteq active /\ (t \in active' => t \in repeating)
  BY <1>2 DEF Call
<1>8. /\ calls' \in [Ids -> 0..2] /\ \A u \in Ids : u # t => calls'[u] = calls[u]
      /\ started' \in [Ids -> 0..MaxTime] /\ \A u \in Ids : u # t => started'[u] = started[u]
      /\ started'[t] = clock
      /\ calls[t] = 0 => calls'[t] = 1
  BY <1>2, <1>4 DEF TimersTypeOK
<1>9. TimersTypeOK'
  BY <1>1, <1>3, <1>5, <1>7, <1>8 DEF TimersTypeOK, PollRecord
<1>10. NoUseAfterFree'
  BY <1>3, <1>4, <1>6 DEF NoUseAfterFree, Points
<1>11. OneShotOnce'
  BY <1>3, <1>4, <1>8 DEF OneShotOnce, Uncalled
<1>12. Uncalled'
  <2>1. \A u \in Ids : u >= nextId => calls'[u] = 0
    BY <1>4, <1>8 DEF Uncalled, TimersTypeOK, Ids
  <2>2. \A u \in active' \ repeating' : calls'[u] = 0
    <3>1. active \subseteq Ids
      BY TimersAssumption DEF TimersTypeOK, Ids
    <3> QED BY <1>3, <1>7, <1>8, <3>1 DEF Uncalled
  <2> QED BY <1>3, <2>1, <2>2 DEF Uncalled
<1>13. Traversal'
  BY <1>1, <1>3, <1>5 DEF Traversal
<1>14. NextCallLate'
  <2> SUFFICES ASSUME NEW u \in Ids
               PROVE  /\ started'[u] <= clock'
                      /\ ~awaits' /\ u \in repeating' \cap active' /\ calls'[u] > 0
                           /\ ~InCallback(u)' => due'[u] >= started'[u] + interval'[u]
    BY DEF NextCallLate
  <2>1. CASE u = t
    BY <2>1, <1>1, <1>3, <1>5, <1>6, <1>8 DEF InCallback, TimersTypeOK
  <2>2. CASE u # t
    <3>1. ~InCallback(u)
      BY <1>1 DEF InCallback
    <3> QED BY <2>2, <3>1, <1>3, <1>7, <1>8 DEF NextCallLate
  <2> QED BY <2>1, <2>2
<1> QED BY <1>9, <1>10, <1>11, <1>12, <1>13, <1>14

(* A callback returns: an interval is due its interval from now. *)
LEMMA ReturnStep == ASSUME IInv, CallbackReturn PROVE IInv'
<1> USE DEF IInv, TimersIInv, TimersInv
<1>1. /\ pc = "user" /\ pc' = "scan" /\ polls # <<>> /\ Points
      /\ UNCHANGED <<awaits, clock, nextId, linked, active, repeating, interval,
                     polls, drv, histVars, broken>>
  BY DEF CallbackReturn
<1>2. clock \in Nat /\ interval \in [Ids -> Nat] /\ due \in [Ids -> Nat]
  BY TimersAssumption DEF TimersTypeOK
<1>3. /\ due' \in [Ids -> Nat]
      /\ \A t \in Ids : t # TopPoll.at => due'[t] = due[t]
      /\ \A t \in repeating \cap active : t = TopPoll.at => due'[t] = clock + interval[t]
  <2>1. CASE TopPoll.at \in repeating \cap active
    <3>1. due' = [due EXCEPT ![TopPoll.at] = clock + interval[TopPoll.at]]
      BY <2>1 DEF CallbackReturn, Rearm
    <3>2. TopPoll.at \in Ids
      BY <2>1 DEF TimersTypeOK
    <3> QED BY <1>2, <3>1, <3>2
  <2>2. CASE TopPoll.at \notin repeating \cap active
    <3>1. due' = due
      BY <2>2 DEF CallbackReturn
    <3> QED BY <1>2, <2>2, <3>1
  <2> QED BY <2>1, <2>2
<1>4. TimersTypeOK'
  BY <1>1, <1>3 DEF TimersTypeOK, histVars
<1>5. NoUseAfterFree' /\ OneShotOnce'
  BY <1>1 DEF NoUseAfterFree, OneShotOnce, Points, TopPoll, histVars
<1>6. Uncalled' /\ Traversal'
  BY <1>1 DEF Uncalled, Traversal, histVars
<1>7. NextCallLate'
  <2> SUFFICES ASSUME NEW t \in Ids
               PROVE  /\ started'[t] <= clock'
                      /\ ~awaits' /\ t \in repeating' \cap active' /\ calls'[t] > 0
                           /\ ~InCallback(t)' => due'[t] >= started'[t] + interval'[t]
    BY DEF NextCallLate
  <2>1. started[t] <= clock /\ started[t] \in Nat
    BY TimersAssumption DEF NextCallLate, TimersTypeOK
  <2>2. CASE t = TopPoll.at
    BY <2>1, <2>2, <1>1, <1>2, <1>3 DEF histVars
  <2>3. CASE t # TopPoll.at
    BY <2>1, <2>3, <1>1, <1>3 DEF NextCallLate, InCallback, histVars
  <2> QED BY <2>2, <2>3
<1> QED BY <1>4, <1>5, <1>6, <1>7

(* A freed timer is read, which happens only where callbacks await. *)
LEMMA FreedStep == ASSUME IInv, ReadFreed PROVE IInv'
<1> USE DEF IInv, TimersIInv, TimersInv
<1>1. awaits
  BY DEF ReadFreed, NoUseAfterFree
<1>2. TimersTypeOK'
  BY DEF ReadFreed, TimersTypeOK, listVars, histVars
<1>3. NoUseAfterFree' /\ OneShotOnce'
  BY <1>1 DEF ReadFreed, NoUseAfterFree, OneShotOnce, listVars, histVars
<1>4. Uncalled' /\ Traversal'
  BY DEF ReadFreed, Uncalled, Traversal, listVars, histVars
<1>5. NextCallLate'
  BY <1>1 DEF ReadFreed, NextCallLate, listVars, histVars
<1> QED BY <1>2, <1>3, <1>4, <1>5

(* ts_timers_gc_inactive frees what is off, and the poll returns. *)
LEMMA PollReturnStep == ASSUME IInv, PollReturn PROVE IInv'
<1> USE DEF IInv, TimersIInv, TimersInv
<1>1. /\ pc = "scan" /\ polls # <<>> /\ pc' = "user" /\ linked' = active
      /\ polls' = SubSeq(polls, 1, Len(polls) - 1)
      /\ UNCHANGED <<awaits, clock, nextId, active, repeating, interval, due, drv, histVars, broken>>
  BY DEF PollReturn, Survivors, Traversal
<1>2. /\ polls' \in Seq(PollRecord) /\ Len(polls') = Len(polls) - 1
      /\ \A i \in DOMAIN polls' : i \in DOMAIN polls /\ polls'[i] = polls[i]
      /\ Len(polls) = 1 => polls' = <<>>
      /\ Len(polls) \in Nat /\ Len(polls) >= 1
  BY <1>1, PopFacts, TopFacts
<1>3. TimersTypeOK'
  BY <1>1, <1>2, TimersAssumption DEF TimersTypeOK, histVars, PollRecord
<1>4. ~awaits => polls' = <<>>
  BY <1>2 DEF Traversal
<1>5. NoUseAfterFree' /\ OneShotOnce'
  BY <1>1, <1>4 DEF NoUseAfterFree, OneShotOnce, histVars
<1>6. Uncalled' /\ Traversal'
  BY <1>1, <1>2, <1>4 DEF Uncalled, Traversal, histVars
<1>7. NextCallLate'
  <2>1. \A t \in Ids : ~InCallback(t)
    BY <1>1 DEF InCallback
  <2> QED BY <1>1, <2>1 DEF NextCallLate, histVars
<1> QED BY <1>3, <1>5, <1>6, <1>7

(* The entry function returns, or ts_timers_run does. *)
LEMMA MainStep == ASSUME IInv, EntryReturns \/ RunEnds PROVE IInv'
<1> USE DEF IInv, TimersIInv, TimersInv
<1>1. /\ polls = <<>> /\ polls' = <<>> /\ drv' \in {"run", "end"}
      /\ linked' \in {linked, active}
      /\ UNCHANGED <<awaits, clock, nextId, active, repeating, interval, due,
                     pc, histVars, broken>>
  BY DEF EntryReturns, RunEnds, RunDone, Running, Survivors, listVars
<1>2. TimersTypeOK'
  BY <1>1 DEF TimersTypeOK, histVars
<1>3. NoUseAfterFree' /\ OneShotOnce'
  BY <1>1 DEF NoUseAfterFree, OneShotOnce, histVars
<1>4. Uncalled' /\ Traversal'
  BY <1>1 DEF Uncalled, Traversal, histVars
<1>5. NextCallLate'
  BY <1>1 DEF NextCallLate, InCallback, histVars
<1> QED BY <1>2, <1>3, <1>4, <1>5

(* Nothing happens. *)
LEMMA QuietStep == ASSUME IInv, UNCHANGED timersVars PROVE IInv'
  BY DEF IInv, TimersIInv, TimersInv, timersVars, listVars, histVars, TimersTypeOK, NoUseAfterFree,
         OneShotOnce, Points, TopPoll, Uncalled, Traversal, NextCallLate, InCallback

(* Every step keeps the inductive invariant. *)
LEMMA NextTimers == IInv /\ [TimersNext]_timersVars => IInv'
<1> SUFFICES ASSUME IInv, [TimersNext]_timersVars PROVE IInv'
  OBVIOUS
<1>1. CASE Tick
  BY <1>1, TickStep
<1>2. ASSUME NEW d \in Delays, NEW r \in BOOLEAN, TimerAdd(d, r) PROVE IInv'
  BY <1>2, AddStep
<1>3. ASSUME NEW t \in Ids, TimerClear(t) PROVE IInv'
  BY <1>3, ClearStep
<1>4. CASE AwaitPolls
  <2>1. drv' \in {"code", "run", "end"}
    BY <1>4 DEF AwaitPolls, IInv, TimersIInv, TimersInv, TimersTypeOK
  <2> QED BY <1>4, <2>1, PollStarts DEF AwaitPolls
<1>5. CASE CallbackReturn
  BY <1>5, ReturnStep
<1>6. CASE ReadFreed
  BY <1>6, FreedStep
<1>7. CASE FireTimer
  BY <1>7, FireStep
<1>8. CASE PollReturn
  BY <1>8, PollReturnStep
<1>9. CASE RunPolls
  <2>1. drv' \in {"code", "run", "end"} /\ polls = <<>>
    BY <1>9 DEF RunPolls, Running, IInv, TimersIInv, TimersInv, TimersTypeOK
  <2> QED BY <1>9, <2>1, PollStarts DEF RunPolls
<1>10. CASE RunEnds \/ EntryReturns
  BY <1>10, MainStep
<1>11. CASE Stopped \/ UNCHANGED timersVars
  BY <1>11, QuietStep DEF Stopped
<1> QED BY <1>1, <1>2, <1>3, <1>4, <1>5, <1>6, <1>7, <1>8, <1>9, <1>10, <1>11 DEF TimersNext, TimersStep

(* What holds in every state. *)
LEMMA Always == TimersSpec => []IInv
  BY InitTimers, NextTimers, PTL DEF TimersSpec

-----------------------------------------------------------------------------
(* Theorems *)

(* The timer list is safe: no traversal of ts_timers_poll reads a freed timer
   unless callbacks await, and no timeout is called twice whatever they do. *)
THEOREM TimersSafe == TimersSpec => []TimersInv
<1>1. IInv => TimersInv
  BY DEF IInv, TimersIInv
<1> QED BY <1>1, Always, PTL

(* Calls of an interval timer keep their distance (t->next_fire_ms is set when
   the callback has returned). *)
THEOREM IntervalsSpaced == TimersSpec => IntervalSpacing
<1> DEFINE Spaced ==
      ~awaits =>
        \A t \in repeating : calls[t] > 0 /\ (calls'[t] # calls[t] \/ started'[t] # started[t])
          => started'[t] >= started[t] + interval[t]
<1>1. IInv /\ [TimersNext]_timersVars => [Spaced]_timersVars
  <2> SUFFICES ASSUME IInv, TimersNext, ~awaits,
                      NEW t \in repeating, calls[t] > 0,
                      calls'[t] # calls[t] \/ started'[t] # started[t]
               PROVE  started'[t] >= started[t] + interval[t]
    BY DEF timersVars, histVars
  <2> USE DEF IInv, TimersIInv, TimersInv
  <2>1. FireTimer
    BY DEF TimersNext, TimersStep, Tick, TimerAdd, TimerClear, AwaitPolls, CallbackReturn, ReadFreed,
           PollReturn, RunPolls, RunEnds, EntryReturns, Stopped, timersVars, histVars
  <2>2. PICK u \in DueAhead :
          /\ calls' = [calls EXCEPT ![u] = IF @ < 2 THEN @ + 1 ELSE @]
          /\ started' = [started EXCEPT ![u] = clock]
    BY <2>1 DEF FireTimer
  <2>3. t \in Ids /\ u = t
    BY <2>2 DEF TimersTypeOK
  <2>4. polls # <<>> /\ pc = "scan"
    BY <2>1 DEF FireTimer, Traversal
  <2>5. t \in active /\ due[t] <= TopPoll.now /\ TopPoll.now <= clock
    BY <2>2, <2>3, <2>4, TopFacts DEF DueAhead, Traversal, TopPoll
  <2>6. due[t] >= started[t] + interval[t]
    BY <2>3, <2>4, <2>5 DEF NextCallLate, InCallback
  <2>7. started'[t] = clock
    BY <2>2, <2>3 DEF TimersTypeOK
  <2>8. /\ due[t] \in Nat /\ started[t] \in Nat /\ interval[t] \in Nat
        /\ clock \in Nat /\ TopPoll.now \in Nat
    BY <2>3, <2>4, TopFacts, TimersAssumption DEF TimersTypeOK
  <2> QED BY <2>5, <2>6, <2>7, <2>8
<1> QED BY <1>1, Always, PTL DEF TimersSpec, IntervalSpacing

(* A timer that is off stays off and is not called (t->active). *)
THEOREM ClearedTimersQuiet == TimersSpec => ClearedStaysQuiet
<1> DEFINE Quiet ==
      \A t \in Ids : t < nextId /\ t \notin active =>
        t \notin active' /\ calls'[t] = calls[t] /\ started'[t] = started[t]
<1>1. IInv /\ [TimersNext]_timersVars => [Quiet]_timersVars
  <2> SUFFICES ASSUME IInv, TimersNext, NEW t \in Ids, t < nextId, t \notin active
               PROVE  t \notin active' /\ calls'[t] = calls[t] /\ started'[t] = started[t]
    OBVIOUS
  <2>1. CASE FireTimer
    <3>1. PICK u \in DueAhead :
            /\ Call(u)
            /\ calls' = [calls EXCEPT ![u] = IF @ < 2 THEN @ + 1 ELSE @]
            /\ started' = [started EXCEPT ![u] = clock]
      BY <2>1 DEF FireTimer
    <3>2. u # t /\ active' \subseteq active
      BY <3>1 DEF DueAhead, Call
    <3> QED BY <3>1, <3>2 DEF IInv, TimersIInv, TimersInv, TimersTypeOK
  <2>2. ASSUME NEW d \in Delays, NEW r \in BOOLEAN, TimerAdd(d, r)
        PROVE  t \notin active' /\ UNCHANGED histVars
    <3>1. t # nextId
      BY DEF IInv, TimersIInv, TimersInv, TimersTypeOK, Ids
    <3> QED BY <2>2, <3>1 DEF TimerAdd
  <2>3. CASE ~FireTimer /\ ~ \E d \in Delays, r \in BOOLEAN : TimerAdd(d, r)
    BY <2>3 DEF TimersNext, TimersStep, Tick, TimerClear, AwaitPolls, CallbackReturn, ReadFreed,
           PollReturn, RunPolls, RunEnds, EntryReturns, Stopped, timersVars, histVars, listVars
  <2> QED BY <2>1, <2>2, <2>3 DEF histVars
<1> QED BY <1>1, Always, PTL DEF TimersSpec, ClearedStaysQuiet
=============================================================================
