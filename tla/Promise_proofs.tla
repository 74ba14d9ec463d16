---------------------------- MODULE Promise_proofs ----------------------------
(* Proofs about Promise, for any number of promises, frames and values. *)
EXTENDS Promise, SequenceTheorems, TLAPS

Places == {"start", "handler", "chain", "finally"}
Frame == [p : Settled, at : Places]

(* The promises, without the stack of run_handlers. *)
DataOK ==
  /\ made \in 0..MaxPromises
  /\ state \in [Ids -> {"pending", "fulfilled", "rejected"}]
  /\ result \in [Ids -> Values \cup {Undefined}]
  /\ \A p \in Ids : state[p] = "pending" <=> result[p] = Undefined
  /\ reaction \in [Ids -> [ful : BOOLEAN, rej : BOOLEAN, next : Made \cup {NULL}]]
  /\ onFinally \subseteq Made /\ resolvers \subseteq Made

DataInv == DataOK /\ OutcomePassesOn /\ Derivation
StackInv == stack \in Seq(Frame) /\ Frames /\ DerivedAwaited
HistOK == single \in BOOLEAN /\ calls \in [Ids -> 0..2] /\ cut \subseteq Made

(* The invariant is what holds of the promises and what holds of the stack. *)
LEMMA Parts == PromiseIInv <=> DataInv /\ StackInv /\ HistOK
BY DEF PromiseIInv, PromiseInv, TypeOK, DataInv, DataOK, StackInv, HistOK, Frame, Places

-----------------------------------------------------------------------------
(* Promises *)

(* Ids are numbers; what is settled was made; what was made has an id. *)
LEMMA Numbers ==
  ASSUME DataOK
  PROVE  /\ made \in Nat /\ MaxPromises \in Nat /\ made <= MaxPromises
         /\ Made \subseteq Ids /\ Settled \subseteq Made
         /\ Ids \subseteq Nat /\ NULL \notin Ids
         /\ \A p \in Ids : reaction[p].next \in Made \cup {NULL}
<1>1. made \in Nat /\ MaxPromises \in Nat /\ made <= MaxPromises
  BY PromiseAssumption DEF DataOK
<1>2. Made \subseteq Ids /\ Ids \subseteq Nat /\ NULL \notin Ids
  BY <1>1 DEF Made, Ids, NULL
<1>3. \A p \in Ids : reaction[p].next \in Made \cup {NULL}
  BY DEF DataOK
<1> QED BY <1>1, <1>2, <1>3 DEF Settled

(* The promise made next has neither an outcome nor a reaction, and is nobody's
   derived promise. *)
LEMMA Fresh ==
  ASSUME DataInv, made < MaxPromises
  PROVE  /\ made + 1 \in Ids /\ made + 1 \notin Made
         /\ state[made + 1] = "pending" /\ reaction[made + 1] = NoReaction
         /\ \A p \in Ids : reaction[p].next # made + 1
<1>1. /\ made \in Nat /\ MaxPromises \in Nat
      /\ \A p \in Ids : reaction[p].next \in Made \cup {NULL}
  BY Numbers DEF DataInv
<1>2. made + 1 \in Ids /\ made + 1 \notin Made /\ made + 1 # NULL /\ made + 1 > made
  BY <1>1 DEF Made, Ids, NULL
<1> QED BY <1>1, <1>2 DEF DataInv, Derivation

(* ts_promise_resolve and ts_promise_reject, of a promise whose resolve user
   code has, or of the derived promise of a settled one, keep what holds of the
   promises; a settled promise keeps its outcome. *)
LEMMA SettleData ==
  ASSUME DataInv, NEW d, NEW st \in {"fulfilled", "rejected"}, NEW v \in Values, NEW frames,
         Settle(d, st, v, frames), UNCHANGED <<made, reaction, onFinally, resolvers>>,
         \/ d \in resolvers
         \/ \E q \in Settled : /\ reaction[q].next = d
                               /\ HasHandler(q) \/ (st = state[q] /\ v = result[q])
  PROVE  /\ DataInv'
         /\ Settled' = Settled \cup ({d} \cap Made)
         /\ \A p \in Settled : HasHandler(p)' <=> HasHandler(p)
         /\ \/ stack' = frames /\ Settled' = Settled
            \/ stack' = Call(frames, d) /\ d \in Settled'
<1> USE DEF DataInv
<1>1. Made' = Made
  BY DEF Made
<1>2. CASE ~(d \in Made /\ state[d] = "pending")
  <2>1. UNCHANGED <<state, result>> /\ stack' = frames
    BY <1>2 DEF Settle
  <2>2. Settled' = Settled /\ ({d} \cap Made) \subseteq Settled
    BY <1>1, <1>2, <2>1 DEF Settled
  <2>3. DataOK' /\ OutcomePassesOn' /\ Derivation'
    <3>1. \A p : HasHandler(p)' <=> HasHandler(p)
      BY <2>1 DEF HasHandler
    <3>2. DataOK'
      BY <1>1, <2>1 DEF DataOK
    <3>3. OutcomePassesOn'
      BY <2>1, <2>2, <3>1 DEF OutcomePassesOn
    <3>4. Derivation'
      BY <2>1, <2>2 DEF Derivation
    <3> QED BY <3>2, <3>3, <3>4
  <2> QED BY <2>1, <2>2, <2>3 DEF HasHandler
<1>3. CASE d \in Made /\ state[d] = "pending"
  <2>1. /\ state' = [state EXCEPT ![d] = st] /\ result' = [result EXCEPT ![d] = v]
        /\ stack' = Call(frames, d)
    BY <1>3 DEF Settle
  <2>2. d \in Ids /\ d # NULL /\ d \notin Settled
    BY <1>3, Numbers DEF Settled
  <2>3. /\ state'[d] = st /\ result'[d] = v /\ st # "pending" /\ v # Undefined
        /\ \A p \in Ids \ {d} : state'[p] = state[p] /\ result'[p] = result[p]
    BY <2>1, <2>2, PromiseAssumption DEF DataOK
  <2>4. Settled' = Settled \cup {d}
    BY <1>1, <1>3, <2>2, <2>3, Numbers DEF Settled
  <2>5. \A p \in Settled : HasHandler(p)' <=> HasHandler(p)
    BY <2>2, <2>3, Numbers DEF HasHandler
  <2>6. DataOK'
    BY <1>1, <2>1, <2>2, <2>3, PromiseAssumption DEF DataOK
  <2>7. ASSUME NEW p \in Ids, reaction[p].next = d PROVE p \in Settled /\ p # d
    <3>1. d \notin resolvers
      BY <2>2, <2>7 DEF Derivation
    <3>2. PICK q \in Settled : reaction[q].next = d
      BY <3>1
    <3> QED BY <2>2, <2>7, <3>2, Numbers DEF Derivation
  <2>8. reaction[d].next # NULL => reaction[d].next \notin Settled'
    <3>1. reaction[d].next # d
      BY <2>2, <2>7
    <3> QED BY <2>2, <2>4, <3>1 DEF Derivation
  <2>9. Derivation'
    <3>1. \A p \in Ids : p > made' => state'[p] = "pending" /\ reaction'[p] = NoReaction
      BY <1>3, <2>2, <2>3, Numbers DEF Derivation, Made
    <3>2. \A p \in Ids : reaction[p].next # NULL /\ reaction[p].next \in Settled' => p \in Settled'
      BY <2>4, <2>7 DEF Derivation
    <3> QED BY <3>1, <3>2 DEF Derivation
  <2>10. OutcomePassesOn'
    <3> SUFFICES ASSUME NEW p \in Settled', reaction[p].next \in Settled', ~HasHandler(p)'
                 PROVE  /\ state'[reaction[p].next] = state'[p]
                        /\ result'[reaction[p].next] = result'[p]
      BY DEF OutcomePassesOn
    <3>1. reaction[p].next # NULL
      BY <2>4, <2>2, Numbers
    <3>2. p # d /\ p \in Settled /\ p \in Ids
      BY <2>4, <2>8, <3>1, Numbers
    <3>3. CASE reaction[p].next = d
      <4>1. d \notin resolvers
        BY <2>2, <3>2, <3>3 DEF Derivation
      <4>2. PICK q \in Settled : /\ reaction[q].next = d
                                 /\ HasHandler(q) \/ (st = state[q] /\ v = result[q])
        BY <4>1
      <4>3. q = p
        BY <2>2, <3>2, <3>3, <4>2, Numbers DEF Derivation
      <4> QED BY <2>3, <2>5, <3>2, <3>3, <4>2, <4>3
    <3>4. CASE reaction[p].next # d
      <4>1. reaction[p].next \in Settled /\ reaction[p].next \in Ids
        BY <2>4, <3>4, Numbers
      <4> QED BY <2>3, <2>5, <3>2, <3>4, <4>1 DEF OutcomePassesOn
    <3> QED BY <3>3, <3>4
  <2> QED BY <1>3, <2>1, <2>4, <2>5, <2>6, <2>9, <2>10
<1> QED BY <1>2, <1>3

-----------------------------------------------------------------------------
(* The stack of run_handlers *)

(* The innermost frame. *)
LEMMA TopFacts ==
  ASSUME stack \in Seq(Frame), stack # <<>>
  PROVE  /\ Len(stack) \in Nat /\ Len(stack) >= 1
         /\ Top = stack[Len(stack)] /\ Top.p \in Settled /\ Top.at \in Places
<1>1. Len(stack) \in Nat /\ Len(stack) >= 1
  OBVIOUS
<1>2. stack[Len(stack)] \in Frame
  BY <1>1
<1> QED BY <1>1, <1>2 DEF Top, Frame

(* Leaving the innermost frames leaves the others as they are. *)
LEMMA Returned ==
  ASSUME NEW S, NEW s \in Seq(S), NEW n \in 0..Len(s)
  PROVE  /\ SubSeq(s, 1, n) \in Seq(S) /\ Len(SubSeq(s, 1, n)) = n
         /\ \A i \in 1..n : SubSeq(s, 1, n)[i] = s[i]
<1>1. n \in Nat /\ n \in Int /\ \A i \in 1..n : s[i] \in S
  OBVIOUS
<1>2. /\ SubSeq(s, 1, n) \in Seq(S)
      /\ Len(SubSeq(s, 1, n)) = IF 1 <= n THEN n - 1 + 1 ELSE 0
      /\ \A i \in 1..n - 1 + 1 : SubSeq(s, 1, n)[i] = s[1 + i - 1]
  BY <1>1, SubSeqProperties
<1>3. 1..n - 1 + 1 = 1..n /\ (IF 1 <= n THEN n - 1 + 1 ELSE 0) = n
  BY <1>1
<1>4. \A i \in 1..n : 1 + i - 1 = i
  OBVIOUS
<1> QED BY <1>2, <1>3, <1>4

(* What replaces the innermost frame: nothing, or the frame further on. *)
LEMMA BelowFacts ==
  ASSUME stack \in Seq(Frame), stack # <<>>, NEW at \in Places
  PROVE  /\ Below \in Seq(Frame) /\ Len(Below) = Len(stack) - 1
         /\ \A i \in 1..(Len(stack) - 1) : Below[i] = stack[i]
         /\ Moved(at) \in Seq(Frame) /\ Len(Moved(at)) = Len(stack)
         /\ \A i \in 1..(Len(stack) - 1) : Moved(at)[i] = stack[i]
         /\ Moved(at)[Len(stack)] = [p |-> Top.p, at |-> at]
<1>1. Len(stack) - 1 \in 0..Len(stack) /\ Len(stack) \in Nat /\ Len(stack) >= 1
  BY TopFacts
<1>2. /\ Below \in Seq(Frame) /\ Len(Below) = Len(stack) - 1
      /\ \A i \in 1..(Len(stack) - 1) : Below[i] = stack[i]
  <2> DEFINE n == Len(stack) - 1
  <2>1. n \in 0..Len(stack) /\ Below = SubSeq(stack, 1, n)
    BY <1>1 DEF Below
  <2> HIDE DEF n
  <2>2. Below \in Seq(Frame) /\ Len(Below) = n /\ \A i \in 1..n : Below[i] = stack[i]
    BY <2>1, Returned
  <2> QED BY <2>2 DEF n
<1>3. [p |-> Top.p, at |-> at] \in Frame
  BY TopFacts DEF Frame
<1>4. Moved(at) = Append(Below, [p |-> Top.p, at |-> at])
  BY DEF Moved
<1> HIDE DEF Frame
<1> QED BY <1>1, <1>2, <1>3, <1>4

(* A stack stays one when more promises are settled, and when run_handlers is
   called for one of them. *)
LEMMA CallFacts ==
  ASSUME NEW frames \in Seq(Frame), Settled \subseteq Settled', NEW p \in Settled'
  PROVE  /\ frames \in Seq(Frame') /\ Call(frames, p) \in Seq(Frame')
         /\ Len(Call(frames, p)) = Len(frames) + 1
         /\ \A i \in 1..Len(frames) : Call(frames, p)[i] = frames[i]
         /\ Call(frames, p)[Len(frames) + 1] = [p |-> p, at |-> "start"]
<1>1. Frame \subseteq Frame' /\ [p |-> p, at |-> "start"] \in Frame'
  BY DEF Frame, Places
<1>2. Call(frames, p) = Append(frames, [p |-> p, at |-> "start"])
  BY DEF Call
<1> HIDE DEF Frame
<1> QED BY <1>1, <1>2

(* run_handlers is called by user code, for p. *)
LEMMA PushStack ==
  ASSUME DataOK, StackInv, UserCode, NEW p \in Settled', stack' = Call(stack, p), cut' = cut,
         Settled \subseteq Settled', \A q \in Settled' : q \in Settled \/ q = p,
         \A q \in Settled : (HasHandler(q)' <=> HasHandler(q)) \/ q = p,
         \A q \in Settled : reaction'[q].next = reaction[q].next \/ q = p,
         reaction[p].next # NULL => reaction'[p].next # NULL
  PROVE  StackInv'
<1>1. /\ stack \in Seq(Frame) /\ Len(stack) \in Nat
      /\ \A i \in 1..Len(stack) : stack[i].p \in Settled
  <2>1. stack \in Seq(Frame) /\ Len(stack) \in Nat /\ \A i \in 1..Len(stack) : stack[i] \in Frame
    BY DEF StackInv
  <2> QED BY <2>1 DEF Frame
<1>2. /\ stack' \in Seq(Frame') /\ Len(stack') = Len(stack) + 1
      /\ \A i \in 1..Len(stack) : stack'[i] = stack[i]
      /\ stack'[Len(stack')] = [p |-> p, at |-> "start"]
  BY <1>1, CallFacts
<1>3. \A i \in 1..Len(stack) : stack[i].at # "start"
  <2>1. stack # <<>> => stack[Len(stack)].at # "start"
    BY DEF UserCode, Top
  <2>2. \A i \in 1..Len(stack) : stack[i].at = "start" => i = Len(stack)
    BY DEF StackInv, Frames
  <2>3. \A i \in 1..Len(stack) : stack # <<>>
    BY <1>1
  <2> QED BY <2>1, <2>2, <2>3
<1>4. Frames'
  <2>1. \A i \in 1..Len(stack') : stack'[i].at = "start" => i = Len(stack')
    <3>1. \A i \in 1..Len(stack') : i = Len(stack') \/ i \in 1..Len(stack)
      BY <1>1, <1>2
    <3> QED BY <1>2, <1>3, <3>1
  <2>2. ASSUME NEW i \in 1..Len(stack'), NEW r \in Settled', stack'[i] = [p |-> r, at |-> "handler"]
        PROVE  /\ reaction'[r].next # NULL
               /\ \/ HasHandler(r)' \/ reaction'[r].next \in Settled'
                  \/ stack'[Len(stack')] = [p |-> r, at |-> "start"]
    <3>1. i \in 1..Len(stack) /\ stack'[i] = stack[i] /\ stack # <<>>
      <4>1. i # Len(stack')
        BY <1>2, <2>2
      <4> QED BY <1>1, <1>2, <4>1
    <3>2. Len(stack) \in 1..Len(stack) /\ r \in Settled
      <4>1. stack[i].p = r
        BY <2>2, <3>1
      <4> QED BY <1>1, <3>1, <4>1
    <3>3. stack[Len(stack)] # [p |-> r, at |-> "start"]
      BY <1>3, <3>2
    <3>4. reaction[r].next # NULL /\ (HasHandler(r) \/ reaction[r].next \in Settled)
      BY <2>2, <3>1, <3>2, <3>3 DEF StackInv, Frames
    <3> QED BY <1>2, <3>2, <3>4
  <2> QED BY <2>1, <2>2 DEF Frames
<1>5. DerivedAwaited'
  <2> SUFFICES ASSUME NEW q \in Settled', q \notin cut, reaction'[q].next # NULL,
                      reaction'[q].next \notin Settled'
               PROVE  Awaited(q)'
    BY DEF DerivedAwaited
  <2>1. CASE q = p
    BY <1>1, <1>2, <2>1 DEF Awaited
  <2>2. CASE q # p
    <3>1. q \in Settled /\ reaction[q].next # NULL /\ reaction[q].next \notin Settled
      BY <2>2
    <3>2. PICK i \in 1..Len(stack) : stack[i].p = q /\ stack[i].at \in {"start", "handler"}
      BY <3>1 DEF StackInv, DerivedAwaited, Awaited
    <3>3. i \in 1..Len(stack')
      BY <1>1, <1>2
    <3> QED BY <1>2, <3>2, <3>3 DEF Awaited
  <2> QED BY <2>1, <2>2
<1> QED BY <1>2, <1>4, <1>5 DEF StackInv

(* User code does something that calls no handler. *)
LEMMA SameStack ==
  ASSUME DataOK, StackInv, stack' = stack, cut' = cut, Settled \subseteq Settled',
         \A q \in Settled : (HasHandler(q)' <=> HasHandler(q)) /\ reaction'[q].next = reaction[q].next,
         \A q \in Settled' : q \in Settled \/ reaction'[q].next = NULL
  PROVE  StackInv'
<1>1. /\ stack \in Seq(Frame) /\ Len(stack) \in Nat
      /\ \A i \in 1..Len(stack) : stack[i].p \in Settled
  <2>1. stack \in Seq(Frame) /\ Len(stack) \in Nat /\ \A i \in 1..Len(stack) : stack[i] \in Frame
    BY DEF StackInv
  <2> QED BY <2>1 DEF Frame
<1>2. stack' \in Seq(Frame')
  <2>1. Frame \subseteq Frame'
    BY DEF Frame, Places
  <2> HIDE DEF Frame
  <2> QED BY <1>1, <2>1
<1>3. Frames'
  BY <1>1 DEF StackInv, Frames
<1>4. DerivedAwaited'
  BY DEF StackInv, DerivedAwaited, Awaited
<1> QED BY <1>2, <1>3, <1>4 DEF StackInv

(* The innermost run_handlers goes on, or returns, with the stack frames, and
   may settle d, which calls run_handlers again. *)
LEMMA TopStack ==
  ASSUME DataOK, StackInv, stack # <<>>, NEW frames, NEW d, NEW at \in Places \ {"start"},
         frames = Below \/ frames = Moved(at),
         \/ stack' = frames /\ Settled' = Settled
         \/ stack' = Call(frames, d) /\ d \in Settled',
         reaction' = reaction, cut' = cut,
         Settled \subseteq Settled', \A q \in Settled' : q \in Settled \/ q = d,
         \A q \in Settled : HasHandler(q)' <=> HasHandler(q),
         frames = Moved(at) /\ at = "handler" => HasHandler(Top.p) /\ reaction[Top.p].next # NULL,
         \/ Top.at \notin {"start", "handler"}
         \/ reaction[Top.p].next \in Settled' \cup {NULL}
         \/ frames = Moved(at) /\ at = "handler"
  PROVE  StackInv'
<1> DEFINE n == Len(stack)
<1>1. /\ stack \in Seq(Frame) /\ n \in Nat /\ n >= 1 /\ n - 1 \in Nat
      /\ Top = stack[n] /\ Top.p \in Settled /\ Top.at \in Places
  BY TopFacts DEF StackInv
<1>2. \A i \in 1..n : stack[i].p \in Settled
  <2>1. \A i \in 1..n : stack[i] \in Frame
    BY <1>1
  <2> QED BY <2>1 DEF Frame
<1>3. /\ frames \in Seq(Frame) /\ Len(frames) \in {n - 1, n}
      /\ \A i \in 1..(n - 1) : frames[i] = stack[i]
      /\ frames = Moved(at) => Len(frames) = n /\ frames[n] = [p |-> Top.p, at |-> at]
      /\ Len(frames) = n => frames = Moved(at)
  BY <1>1, BelowFacts
<1>4. /\ stack' \in Seq(Frame') /\ Len(stack') >= Len(frames)
      /\ \A i \in 1..Len(frames) : stack'[i] = frames[i]
      /\ \/ stack' = frames /\ Settled' = Settled
         \/ /\ Len(stack') = Len(frames) + 1 /\ d \in Settled'
            /\ stack'[Len(frames) + 1] = [p |-> d, at |-> "start"]
  <2>1. CASE stack' = frames /\ Settled' = Settled
    <3>1. Frame' = Frame
      BY <2>1 DEF Frame, Places
    <3> HIDE DEF Frame
    <3>2. Len(frames) \in Nat
      BY <1>3
    <3> QED BY <1>3, <2>1, <3>1, <3>2
  <2>2. CASE stack' = Call(frames, d) /\ d \in Settled'
    <3>1. /\ stack' \in Seq(Frame') /\ Len(stack') = Len(frames) + 1
          /\ \A i \in 1..Len(frames) : stack'[i] = frames[i]
          /\ stack'[Len(frames) + 1] = [p |-> d, at |-> "start"]
      BY <1>3, <2>2, CallFacts
    <3>2. Len(frames) \in Nat
      BY <1>3
    <3> QED BY <2>2, <3>1, <3>2
  <2> QED BY <2>1, <2>2
<1>5. Len(frames) \in Nat /\ n - 1 <= Len(frames) /\ Len(frames) <= n
  BY <1>1, <1>3
<1>6. ASSUME NEW i \in 1..(n - 1)
      PROVE  i \in 1..Len(stack') /\ i \in 1..n /\ i # n /\ stack'[i] = stack[i] /\ stack[i].at # "start"
  <2>1. i \in 1..n /\ i # n /\ i \in 1..Len(frames)
    BY <1>1, <1>5
  <2>2. i \in 1..Len(stack')
    <3>1. Len(stack') \in Nat
      BY <1>4
    <3> QED BY <1>4, <1>5, <2>1, <3>1
  <2>3. stack[i].at # "start"
    BY <2>1 DEF StackInv, Frames
  <2> QED BY <1>3, <1>4, <2>1, <2>2, <2>3
<1>7. \A i \in 1..Len(stack') :
        \/ i = Len(stack') /\ stack'[i] = [p |-> d, at |-> "start"]
        \/ i = n /\ frames = Moved(at) /\ stack'[i] = [p |-> Top.p, at |-> at]
        \/ i \in 1..(n - 1)
  <2> SUFFICES ASSUME NEW i \in 1..Len(stack')
               PROVE  \/ i = Len(stack') /\ stack'[i] = [p |-> d, at |-> "start"]
                      \/ i = n /\ frames = Moved(at) /\ stack'[i] = [p |-> Top.p, at |-> at]
                      \/ i \in 1..(n - 1)
    OBVIOUS
  <2>1. Len(stack') \in Nat /\ i \in Nat /\ i >= 1
    BY <1>4
  <2>2. CASE i > Len(frames)
    <3>1. Len(stack') = Len(frames) + 1 /\ stack'[Len(frames) + 1] = [p |-> d, at |-> "start"]
      BY <1>4, <1>5, <2>1, <2>2
    <3>2. i = Len(frames) + 1
      BY <1>5, <2>1, <2>2, <3>1
    <3> QED BY <3>1, <3>2
  <2>3. CASE i <= Len(frames) /\ i = n
    <3>1. Len(frames) = n /\ i \in 1..Len(frames)
      BY <1>1, <1>5, <2>1, <2>3
    <3> QED BY <1>3, <1>4, <2>3, <3>1
  <2>4. CASE i <= Len(frames) /\ i # n
    BY <1>1, <1>5, <2>1, <2>4
  <2> QED BY <1>5, <2>1, <2>2, <2>3, <2>4
<1>8. Frames'
  <2>1. \A i \in 1..Len(stack') : stack'[i].at = "start" => i = Len(stack')
    BY <1>6, <1>7
  <2>2. ASSUME NEW i \in 1..Len(stack'), NEW r \in Settled', stack'[i] = [p |-> r, at |-> "handler"]
        PROVE  reaction'[r].next # NULL /\ (HasHandler(r)' \/ reaction'[r].next \in Settled')
    <3>1. CASE i = n /\ frames = Moved(at) /\ stack'[i] = [p |-> Top.p, at |-> at]
      <4>1. at = "handler" /\ r = Top.p
        <5>1. [p |-> r, at |-> "handler"].at = "handler" /\ [p |-> r, at |-> "handler"].p = r
          OBVIOUS
        <5>2. [p |-> Top.p, at |-> at].at = at /\ [p |-> Top.p, at |-> at].p = Top.p
          OBVIOUS
        <5> QED BY <2>2, <3>1, <5>1, <5>2
      <4> QED BY <1>1, <3>1, <4>1
    <3>2. CASE i \in 1..(n - 1)
      <4>1. stack'[i] = stack[i] /\ i \in 1..n /\ r \in Settled
        <5>1. stack'[i] = stack[i] /\ i \in 1..n
          BY <1>6, <3>2
        <5>2. stack[i].p = r
          BY <2>2, <5>1
        <5> QED BY <1>2, <5>1, <5>2
      <4>2. /\ reaction[r].next # NULL
            /\ \/ HasHandler(r) \/ reaction[r].next \in Settled
               \/ stack[n] = [p |-> r, at |-> "start"]
        BY <2>2, <4>1 DEF StackInv, Frames
      <4>3. CASE stack[n] = [p |-> r, at |-> "start"]
        <5>1. Top.p = r /\ Top.at = "start"
          BY <1>1, <4>3
        <5> QED BY <4>1, <4>2, <5>1
      <4> QED BY <4>1, <4>2, <4>3
    <3>3. stack'[i] # [p |-> d, at |-> "start"]
      <4>1. [p |-> r, at |-> "handler"].at # [p |-> d, at |-> "start"].at
        OBVIOUS
      <4> QED BY <2>2, <4>1
    <3> QED BY <1>7, <3>1, <3>2, <3>3
  <2> QED BY <2>1, <2>2 DEF Frames
<1>9. DerivedAwaited'
  <2> SUFFICES ASSUME NEW q \in Settled', q \notin cut, reaction[q].next # NULL,
                      reaction[q].next \notin Settled'
               PROVE  \E i \in 1..Len(stack') :
                        stack'[i].p = q /\ stack'[i].at \in {"start", "handler"}
    BY DEF DerivedAwaited, Awaited
  <2>1. CASE q \notin Settled
    <3>1. /\ q = d /\ Len(stack') = Len(frames) + 1
          /\ stack'[Len(frames) + 1] = [p |-> d, at |-> "start"]
      BY <1>4, <2>1
    <3> QED BY <1>5, <3>1
  <2>2. CASE q \in Settled
    <3>1. PICK i \in 1..n : stack[i].p = q /\ stack[i].at \in {"start", "handler"}
      BY <2>2 DEF StackInv, DerivedAwaited, Awaited
    <3>2. CASE i = n
      <4>1. Top.p = q /\ Top.at \in {"start", "handler"}
        BY <1>1, <3>1, <3>2
      <4>2. frames = Moved(at) /\ at = "handler"
        BY <4>1
      <4>3. stack'[n] = [p |-> Top.p, at |-> at] /\ n \in 1..Len(stack')
        <5>1. Len(stack') \in Nat
          BY <1>4
        <5> QED BY <1>1, <1>3, <1>4, <4>2, <5>1
      <4> QED BY <4>1, <4>2, <4>3
    <3>3. CASE i # n
      <4>1. i \in 1..(n - 1)
        BY <1>1, <3>3
      <4> QED BY <1>6, <3>1, <4>1
    <3> QED BY <3>2, <3>3
  <2> QED BY <2>1, <2>2
<1> QED BY <1>4, <1>8, <1>9 DEF StackInv

-----------------------------------------------------------------------------
(* Initial states and steps *)

IInv == DataInv /\ StackInv /\ HistOK

(* The invariant holds before a promise is made, *)
LEMMA InitPromise == Init => IInv
<1> SUFFICES ASSUME Init PROVE IInv
  OBVIOUS
<1> USE DEF Init
<1>1. Settled = {} /\ Made = {}
  BY DEF Settled, Made
<1>2. DataOK
  <2>1. NoReaction \in [ful : BOOLEAN, rej : BOOLEAN, next : Made \cup {NULL}]
    BY DEF NoReaction
  <2> QED BY <2>1, PromiseAssumption DEF DataOK
<1>3. OutcomePassesOn
  BY <1>1 DEF OutcomePassesOn
<1>4. Derivation
  BY DEF Derivation, NoReaction
<1>5. StackInv
  BY <1>1 DEF StackInv, Frames, DerivedAwaited
<1>6. HistOK
  BY DEF HistOK
<1> QED BY <1>2, <1>3, <1>4, <1>5, <1>6 DEF DataInv, IInv

(* Promise_constructor: the new promise is pending and nobody's derived one. *)
LEMMA NewStep == ASSUME IInv, New PROVE IInv'
<1> USE DEF IInv, DataInv
<1>1. /\ made < MaxPromises /\ made' = made + 1 /\ resolvers' = resolvers \cup {made + 1}
      /\ UNCHANGED <<single, state, result, reaction, onFinally, stack, calls, cut>>
  BY DEF New
<1>2. /\ made + 1 \in Ids /\ state[made + 1] = "pending" /\ reaction[made + 1] = NoReaction
      /\ \A p \in Ids : reaction[p].next # made + 1
  BY <1>1, Fresh
<1>3. Made' = Made \cup {made + 1} /\ made' \in 0..MaxPromises
  BY <1>1, Numbers DEF Made
<1>4. Settled' = Settled
  BY <1>1, <1>2, <1>3 DEF Settled
<1>5. DataOK'
  <2>1. reaction' \in [Ids -> [ful : BOOLEAN, rej : BOOLEAN, next : Made' \cup {NULL}]]
    BY <1>1, <1>3 DEF DataOK
  <2> QED BY <1>1, <1>3, <2>1 DEF DataOK
<1>6. \A p : HasHandler(p)' <=> HasHandler(p)
  BY <1>1 DEF HasHandler
<1>7. OutcomePassesOn'
  BY <1>1, <1>4, <1>6 DEF OutcomePassesOn
<1>8. Derivation'
  BY <1>1, <1>2, <1>4, Numbers DEF Derivation
<1>9. StackInv'
  BY <1>1, <1>4, <1>6, SameStack
<1> QED BY <1>1, <1>3, <1>5, <1>7, <1>8, <1>9 DEF HistOK

(* User code calls the resolve or reject it was given. *)
LEMMA ResolveStep ==
  ASSUME IInv, NEW p \in Ids, NEW st \in {"fulfilled", "rejected"}, NEW v \in Values,
         Resolve(p, st, v)
  PROVE  IInv'
<1> USE DEF IInv
<1>1. /\ UserCode /\ p \in resolvers /\ Settle(p, st, v, stack)
      /\ UNCHANGED <<single, made, reaction, onFinally, resolvers, calls, cut>>
  BY DEF Resolve
<1>2. /\ DataInv' /\ Settled' = Settled \cup ({p} \cap Made)
      /\ \A q \in Settled : HasHandler(q)' <=> HasHandler(q)
      /\ \/ stack' = stack /\ Settled' = Settled
         \/ stack' = Call(stack, p) /\ p \in Settled'
  BY <1>1, SettleData
<1>3. StackInv'
  <2>1. CASE stack' = stack /\ Settled' = Settled
    BY <1>1, <1>2, <2>1, SameStack DEF DataInv
  <2>2. CASE stack' = Call(stack, p) /\ p \in Settled'
    BY <1>1, <1>2, <2>2, PushStack DEF DataInv
  <2> QED BY <1>2, <2>1, <2>2
<1> QED BY <1>1, <1>2, <1>3 DEF HistOK, Made

(* ts_promise_then and ts_promise_catch: the reaction has a fresh derived
   promise, and replaces the one p had. *)
LEMMA ThenStep ==
  ASSUME IInv, NEW p \in Ids, NEW ful \in BOOLEAN, NEW rej \in BOOLEAN, Then(p, ful, rej)
  PROVE  IInv'
<1> USE DEF IInv, DataInv
<1> DEFINE r == [ful |-> ful, rej |-> rej, next |-> made + 1]
<1>1. /\ UserCode /\ p \in Made /\ made < MaxPromises /\ made' = made + 1
      /\ reaction' = [reaction EXCEPT ![p] = r] /\ RunIfSettled(p)
      /\ UNCHANGED <<single, state, result, onFinally, resolvers, calls, cut>>
  BY DEF Then
<1>2. /\ made + 1 \in Ids /\ state[made + 1] = "pending" /\ reaction[made + 1] = NoReaction
      /\ \A q \in Ids : reaction[q].next # made + 1
      /\ made + 1 \notin Made
  BY <1>1, Fresh
<1>3. Made' = Made \cup {made + 1} /\ made' \in 0..MaxPromises /\ made + 1 # NULL
  BY <1>1, Numbers DEF Made, NULL
<1>4. Settled' = Settled /\ made + 1 \notin Settled
  BY <1>1, <1>2, <1>3 DEF Settled
<1>5. /\ reaction'[p] = r /\ r.next = made + 1
      /\ \A q \in Ids \ {p} : reaction'[q] = reaction[q]
  BY <1>1 DEF DataOK
<1>6. DataOK'
  <2>1. r \in [ful : BOOLEAN, rej : BOOLEAN, next : Made' \cup {NULL}]
    BY <1>3
  <2>2. reaction' \in [Ids -> [ful : BOOLEAN, rej : BOOLEAN, next : Made' \cup {NULL}]]
    <3>1. \A q \in Ids : reaction[q] \in [ful : BOOLEAN, rej : BOOLEAN, next : Made' \cup {NULL}]
      BY <1>3 DEF DataOK
    <3>2. DOMAIN reaction = Ids
      BY DEF DataOK
    <3> HIDE DEF r
    <3> QED BY <1>1, <2>1, <3>1, <3>2
  <2> QED BY <1>1, <1>3, <2>2 DEF DataOK
<1>7. \A q \in Ids \ {p} : HasHandler(q)' <=> HasHandler(q)
  BY <1>1, <1>5 DEF HasHandler
<1>8. OutcomePassesOn'
  <2> SUFFICES ASSUME NEW q \in Settled, reaction'[q].next \in Settled, ~HasHandler(q)'
               PROVE  /\ state[reaction'[q].next] = state[q]
                      /\ result[reaction'[q].next] = result[q]
    BY <1>1, <1>4 DEF OutcomePassesOn
  <2>1. q # p /\ q \in Ids
    BY <1>4, <1>5, Numbers
  <2> QED BY <1>5, <1>7, <2>1 DEF OutcomePassesOn
<1>9. Derivation'
  <2>1. \A q \in Ids : q > made' => state'[q] = "pending" /\ reaction'[q] = NoReaction
    BY <1>1, <1>5, Numbers DEF Derivation, Made
  <2>2. made + 1 \notin resolvers
    BY <1>2 DEF DataOK
  <2>3. \A q \in Ids : reaction'[q].next # NULL =>
          /\ reaction'[q].next \notin resolvers'
          /\ reaction'[q].next \in Settled' => q \in Settled'
    BY <1>1, <1>4, <1>5, <2>2 DEF Derivation
  <2>4. \A q, o \in Ids : reaction'[q].next # NULL /\ reaction'[o].next = reaction'[q].next => q = o
    BY <1>2, <1>5 DEF Derivation
  <2>5. \A q \in Ids : reaction'[q].next = NULL => reaction'[q] = NoReaction
    BY <1>3, <1>5 DEF Derivation
  <2> QED BY <2>1, <2>3, <2>4, <2>5 DEF Derivation
<1>10. StackInv'
  <2>1. CASE p \in Settled
    <3>1. stack' = Call(stack, p)
      BY <1>1, <2>1 DEF RunIfSettled
    <3>2. /\ \A q \in Settled : (HasHandler(q)' <=> HasHandler(q)) \/ q = p
          /\ \A q \in Settled : reaction'[q].next = reaction[q].next \/ q = p
          /\ reaction'[p].next # NULL
      BY <1>3, <1>5, <1>7, Numbers
    <3> QED BY <1>1, <1>4, <2>1, <3>1, <3>2, PushStack
  <2>2. CASE p \notin Settled
    <3>1. stack' = stack
      BY <1>1, <2>2 DEF RunIfSettled
    <3>2. \A q \in Settled : (HasHandler(q)' <=> HasHandler(q)) /\ reaction'[q].next = reaction[q].next
      BY <1>5, <1>7, <2>2, Numbers
    <3> QED BY <1>1, <1>4, <3>1, <3>2, SameStack
  <2> QED BY <2>1, <2>2
<1> QED BY <1>1, <1>3, <1>6, <1>8, <1>9, <1>10 DEF HistOK

(* ts_promise_then of a value that is no promise: fulfilled when it is made. *)
LEMMA ThenValueStep == ASSUME IInv, NEW v \in Values, ThenValue(v) PROVE IInv'
<1> USE DEF IInv, DataInv
<1> DEFINE d == made + 1
<1>1. /\ UserCode /\ made < MaxPromises /\ made' = d
      /\ state' = [state EXCEPT ![d] = "fulfilled"] /\ result' = [result EXCEPT ![d] = v]
      /\ UNCHANGED <<single, reaction, onFinally, resolvers, stack, calls, cut>>
  BY DEF ThenValue
<1>2. /\ d \in Ids /\ state[d] = "pending" /\ reaction[d] = NoReaction
      /\ \A p \in Ids : reaction[p].next # d
      /\ d \notin Made
  BY <1>1, Fresh
<1>3. Made' = Made \cup {d} /\ made' \in 0..MaxPromises
  BY <1>1, Numbers DEF Made
<1>4. /\ state'[d] = "fulfilled" /\ result'[d] = v /\ v # Undefined
      /\ \A p \in Ids \ {d} : state'[p] = state[p] /\ result'[p] = result[p]
  BY <1>1, <1>2, PromiseAssumption DEF DataOK
<1>5. Settled' = Settled \cup {d} /\ d \notin Settled
  BY <1>2, <1>3, <1>4, Numbers DEF Settled
<1>6. DataOK'
  <2>1. reaction' \in [Ids -> [ful : BOOLEAN, rej : BOOLEAN, next : Made' \cup {NULL}]]
    BY <1>1, <1>3 DEF DataOK
  <2>2. state' \in [Ids -> {"pending", "fulfilled", "rejected"}]
        /\ result' \in [Ids -> Values \cup {Undefined}]
    BY <1>1 DEF DataOK
  <2>3. \A p \in Ids : state'[p] = "pending" <=> result'[p] = Undefined
    BY <1>4 DEF DataOK
  <2> QED BY <1>1, <1>3, <2>1, <2>2, <2>3 DEF DataOK
<1>7. \A p \in Settled : HasHandler(p)' <=> HasHandler(p)
  BY <1>1, <1>4, <1>5, Numbers DEF HasHandler
<1>8. reaction'[d].next = NULL /\ \A p \in Ids : reaction'[p].next # d
  BY <1>1, <1>2 DEF NoReaction
<1>9. OutcomePassesOn'
  <2> SUFFICES ASSUME NEW p \in Settled', reaction[p].next \in Settled', ~HasHandler(p)'
               PROVE  /\ state'[reaction[p].next] = state'[p]
                      /\ result'[reaction[p].next] = result'[p]
    BY <1>1 DEF OutcomePassesOn
  <2>1. d # NULL /\ NULL \notin Settled /\ p \in Ids
    BY <1>2, <1>5, Numbers
  <2>2. p # d
    BY <1>1, <1>5, <1>8, <2>1
  <2>3. p \in Settled /\ reaction[p].next \in Settled /\ reaction[p].next # d
    BY <1>2, <1>5, <2>1, <2>2
  <2>4. reaction[p].next \in Ids
    BY <2>3, Numbers
  <2> QED BY <1>4, <1>7, <2>1, <2>2, <2>3, <2>4 DEF OutcomePassesOn
<1>10. Derivation'
  <2>1. \A p \in Ids : p > made' => state'[p] = "pending" /\ reaction'[p] = NoReaction
    BY <1>1, <1>4, Numbers DEF Derivation
  <2> QED BY <1>1, <1>5, <1>8, <2>1 DEF Derivation
<1>11. StackInv'
  <2>1. \A q \in Settled' : q \in Settled \/ reaction'[q].next = NULL
    BY <1>5, <1>8
  <2> QED BY <1>1, <1>5, <1>7, <2>1, SameStack
<1> QED BY <1>1, <1>3, <1>6, <1>9, <1>10, <1>11 DEF HistOK

(* ts_promise_finally adds no promise and changes no outcome. *)
LEMMA FinallyStep == ASSUME IInv, NEW p \in Ids, Finally(p) PROVE IInv'
<1> USE DEF IInv, DataInv
<1>1. /\ UserCode /\ p \in Made /\ onFinally' = onFinally \cup {p} /\ RunIfSettled(p)
      /\ UNCHANGED <<single, made, state, result, reaction, resolvers, calls, cut>>
  BY DEF Finally
<1>2. Made' = Made /\ Settled' = Settled /\ \A q : HasHandler(q)' <=> HasHandler(q)
  BY <1>1 DEF Made, Settled, HasHandler
<1>3. DataOK'
  BY <1>1, <1>2 DEF DataOK
<1>4. OutcomePassesOn' /\ Derivation'
  <2>1. OutcomePassesOn'
    BY <1>1, <1>2 DEF OutcomePassesOn
  <2> QED BY <1>1, <1>2, <2>1 DEF Derivation
<1>5. StackInv'
  <2>1. CASE p \in Settled
    <3>1. stack' = Call(stack, p)
      BY <1>1, <2>1 DEF RunIfSettled
    <3> QED BY <1>1, <1>2, <2>1, <3>1, PushStack
  <2>2. CASE p \notin Settled
    <3>1. stack' = stack
      BY <1>1, <2>2 DEF RunIfSettled
    <3> QED BY <1>1, <1>2, <3>1, SameStack
  <2> QED BY <2>1, <2>2
<1> QED BY <1>1, <1>2, <1>3, <1>4, <1>5 DEF HistOK

(* An exception leaves the innermost frames; user code goes on below them. *)
LEMMA ThrowStep == ASSUME IInv, Throw PROVE IInv'
<1> USE DEF IInv, DataInv
<1>1. PICK k \in 0..(Len(stack) - 1) :
        /\ k > 0 => stack[k].at \in {"handler", "finally"}
        /\ stack' = SubSeq(stack, 1, k)
        /\ cut' = cut \cup {stack[i].p : i \in (k + 1)..Len(stack)}
  BY DEF Throw
<1>2. UserCode /\ stack # <<>> /\ UNCHANGED <<single, promVars, calls>>
  BY DEF Throw
<1>3. /\ stack \in Seq(Frame) /\ Len(stack) \in Nat /\ k \in Nat /\ k < Len(stack)
      /\ \A i \in 1..Len(stack) : stack[i].p \in Settled
  <2>1. stack \in Seq(Frame) /\ Len(stack) \in Nat /\ \A i \in 1..Len(stack) : stack[i] \in Frame
    BY DEF StackInv
  <2> QED BY <2>1 DEF Frame
<1>4. /\ stack' \in Seq(Frame) /\ Len(stack') = k
      /\ \A i \in 1..k : stack'[i] = stack[i] /\ i \in 1..Len(stack) /\ i # Len(stack)
  <2>1. k \in 0..Len(stack)
    BY <1>3
  <2>2. /\ SubSeq(stack, 1, k) \in Seq(Frame) /\ Len(SubSeq(stack, 1, k)) = k
        /\ \A i \in 1..k : SubSeq(stack, 1, k)[i] = stack[i]
    BY <1>3, <2>1, Returned
  <2> HIDE DEF Frame
  <2> QED BY <1>1, <1>3, <2>2
<1>5. /\ Made' = Made /\ Settled' = Settled /\ Frame' = Frame
      /\ \A q : HasHandler(q)' <=> HasHandler(q)
  BY <1>2 DEF Made, Settled, Frame, Places, HasHandler, promVars
<1>6. DataOK' /\ OutcomePassesOn' /\ Derivation'
  <2>1. DataOK'
    BY <1>2, <1>5 DEF DataOK, promVars
  <2>2. OutcomePassesOn'
    BY <1>2, <1>5 DEF OutcomePassesOn, promVars
  <2>3. Derivation'
    BY <1>2, <1>5 DEF Derivation, promVars
  <2> QED BY <2>1, <2>2, <2>3
<1>7. Frames'
  <2>1. \A i \in 1..k : stack[i].at # "start"
    BY <1>4 DEF StackInv, Frames
  <2>2. ASSUME NEW i \in 1..k, NEW r \in Settled, stack[i] = [p |-> r, at |-> "handler"]
        PROVE  reaction[r].next # NULL /\ (HasHandler(r) \/ reaction[r].next \in Settled)
    <3>1. stack[Len(stack)] # [p |-> r, at |-> "start"]
      BY <1>2, TopFacts DEF UserCode, StackInv
    <3> QED BY <1>4, <2>2, <3>1 DEF StackInv, Frames
  <2> QED BY <1>2, <1>4, <1>5, <2>1, <2>2 DEF Frames, promVars
<1>8. DerivedAwaited'
  <2> SUFFICES ASSUME NEW q \in Settled, q \notin cut', reaction[q].next # NULL,
                      reaction[q].next \notin Settled
               PROVE  Awaited(q)'
    BY <1>2, <1>5 DEF DerivedAwaited, promVars
  <2>1. PICK i \in 1..Len(stack) : stack[i].p = q /\ stack[i].at \in {"start", "handler"}
    BY <1>1 DEF StackInv, DerivedAwaited, Awaited
  <2>2. i \notin (k + 1)..Len(stack)
    BY <1>1, <2>1
  <2>3. i \in 1..k
    BY <1>3, <2>2
  <2> QED BY <1>4, <2>1, <2>3 DEF Awaited
<1>9. HistOK'
  <2>1. {stack[i].p : i \in (k + 1)..Len(stack)} \subseteq Made
    BY <1>3, Numbers
  <2> QED BY <1>1, <1>2, <1>5, <2>1 DEF HistOK
<1> QED BY <1>4, <1>5, <1>6, <1>7, <1>8, <1>9 DEF StackInv

(* run_handlers calls the handler for the outcome. *)
LEMMA RunHandlerStep == ASSUME IInv, RunHandler PROVE IInv'
<1> USE DEF IInv, DataInv
<1>1. /\ stack # <<>> /\ Top.at = "start" /\ HasHandler(Top.p) /\ stack' = Moved("handler")
      /\ UNCHANGED <<single, promVars, cut>>
  BY DEF RunHandler, TopAt
<1>2. /\ Made' = Made /\ Settled' = Settled /\ \A q : HasHandler(q)' <=> HasHandler(q)
  BY <1>1 DEF Made, Settled, HasHandler, promVars
<1>3. DataOK' /\ OutcomePassesOn' /\ Derivation'
  <2>1. DataOK'
    BY <1>1, <1>2 DEF DataOK, promVars
  <2>2. OutcomePassesOn'
    BY <1>1, <1>2 DEF OutcomePassesOn, promVars
  <2>3. Derivation'
    BY <1>1, <1>2 DEF Derivation, promVars
  <2> QED BY <2>1, <2>2, <2>3
<1>4. reaction[Top.p].next # NULL
  <2>1. Top.p \in Ids
    BY <1>1, TopFacts, Numbers DEF StackInv
  <2> QED BY <1>1, <2>1 DEF Derivation, HasHandler, NoReaction
<1>5. StackInv'
  <2>1. "handler" \in Places \ {"start"}
    BY DEF Places
  <2>2. reaction' = reaction /\ cut' = cut
    BY <1>1 DEF promVars
  <2> QED BY <1>1, <1>2, <1>4, <2>1, <2>2, TopStack
<1>6. HistOK'
  <2> DEFINE n == reaction[Top.p].next
  <2>1. calls' = [calls EXCEPT ![n] = IF @ < 2 THEN @ + 1 ELSE @]
    BY DEF RunHandler
  <2>2. calls' \in [Ids -> 0..2]
    <3>1. calls \in [Ids -> 0..2]
      BY DEF HistOK
    <3>2. \A m \in 0..2 : (IF m < 2 THEN m + 1 ELSE m) \in 0..2
      OBVIOUS
    <3> HIDE DEF n
    <3> QED BY <2>1, <3>1, <3>2
  <2> QED BY <1>1, <1>2, <2>2 DEF HistOK
<1> QED BY <1>3, <1>5, <1>6

(* The derived promise of the innermost frame gets an outcome: the one of its
   source, or what the handler returned. *)
LEMMA ChainStep ==
  ASSUME IInv, stack # <<>>, Top.at \in {"start", "handler"},
         NEW st \in {"fulfilled", "rejected"}, NEW v \in Values,
         HasHandler(Top.p) \/ (st = state[Top.p] /\ v = result[Top.p])
                           \/ reaction[Top.p].next \in Settled,
         Settle(reaction[Top.p].next, st, v, Moved("chain")),
         UNCHANGED <<single, made, reaction, onFinally, resolvers, calls, cut>>
  PROVE  IInv'
<1> USE DEF IInv
<1> DEFINE d == reaction[Top.p].next
<1>1. Top.p \in Settled /\ Top.p \in Ids /\ d \in Made \cup {NULL}
  BY TopFacts, Numbers DEF StackInv, DataInv
<1>2. /\ DataInv' /\ Settled' = Settled \cup ({d} \cap Made)
      /\ \A q \in Settled : HasHandler(q)' <=> HasHandler(q)
      /\ \/ stack' = Moved("chain") /\ Settled' = Settled
         \/ stack' = Call(Moved("chain"), d) /\ d \in Settled'
  <2>1. CASE HasHandler(Top.p) \/ (st = state[Top.p] /\ v = result[Top.p])
    BY <1>1, <2>1, SettleData
  <2>2. CASE d \in Settled
    <3>1. UNCHANGED <<state, result>> /\ stack' = Moved("chain")
      BY <2>2 DEF Settle, Settled
    <3>2. /\ Made' = Made /\ Settled' = Settled /\ \A q : HasHandler(q)' <=> HasHandler(q)
      BY <3>1 DEF Made, Settled, HasHandler
    <3>3. DataOK'
      BY <3>1, <3>2 DEF DataInv, DataOK
    <3>4. OutcomePassesOn'
      BY <3>1, <3>2 DEF DataInv, OutcomePassesOn
    <3>5. Derivation'
      BY <3>1, <3>2 DEF DataInv, Derivation
    <3>6. Settled' = Settled \cup ({d} \cap Made)
      BY <2>2, <3>2
    <3> QED BY <3>1, <3>2, <3>3, <3>4, <3>5, <3>6 DEF DataInv
  <2> QED BY <2>1, <2>2
<1>3. d \in Settled' \cup {NULL}
  BY <1>1, <1>2
<1>4. StackInv'
  <2>1. "chain" \in Places \ {"start"} /\ "chain" # "handler"
    BY DEF Places
  <2> QED BY <1>2, <1>3, <2>1, TopStack DEF DataInv
<1> QED BY <1>2, <1>4 DEF HistOK, Made

(* No handler for the outcome: it is passed on. *)
LEMMA PassOnStep == ASSUME IInv, PassOn PROVE IInv'
<1>1. /\ stack # <<>> /\ Top.at = "start"
      /\ Settle(reaction[Top.p].next, state[Top.p], result[Top.p], Moved("chain"))
      /\ UNCHANGED <<single, made, reaction, onFinally, resolvers, calls, cut>>
  BY DEF PassOn, TopAt
<1>2. state[Top.p] \in {"fulfilled", "rejected"} /\ result[Top.p] \in Values
  <2>1. Top.p \in Settled /\ Top.p \in Ids
    BY <1>1, TopFacts, Numbers DEF IInv, StackInv, DataInv
  <2>2. state[Top.p] # "pending"
    BY <2>1 DEF Settled
  <2> QED BY <2>1, <2>2 DEF IInv, DataInv, DataOK
<1> QED BY <1>1, <1>2, ChainStep

(* A handler returns: its reaction was there when it was called, or its derived
   promise was settled since. *)
LEMMA HandlerReturnStep == ASSUME IInv, NEW out \in Values, HandlerReturn(out) PROVE IInv'
<1>1. /\ stack # <<>> /\ Top.at = "handler"
      /\ Settle(reaction[Top.p].next, "fulfilled", out, Moved("chain"))
      /\ UNCHANGED <<single, made, reaction, onFinally, resolvers, calls, cut>>
  BY DEF HandlerReturn, TopAt
<1>2. HasHandler(Top.p) \/ reaction[Top.p].next \in Settled
  <2>1. /\ Len(stack) \in 1..Len(stack) /\ Top = stack[Len(stack)] /\ Top.p \in Settled
    BY <1>1, TopFacts DEF IInv, StackInv
  <2>2. stack[Len(stack)] = [p |-> Top.p, at |-> "handler"]
    <3>1. stack[Len(stack)] \in Frame
      BY <2>1 DEF IInv, StackInv
    <3> QED BY <1>1, <2>1, <3>1 DEF Frame
  <2>3. stack[Len(stack)] # [p |-> Top.p, at |-> "start"]
    BY <1>1, <2>1
  <2> QED BY <2>1, <2>2, <2>3 DEF IInv, StackInv, Frames
<1> QED BY <1>1, <1>2, ChainStep

(* run_handlers goes on to the finally function, and returns. *)
LEMMA FinallyRunStep == ASSUME IInv, RunFinally \/ FinallyReturn PROVE IInv'
<1> USE DEF IInv, DataInv
<1>1. /\ stack # <<>> /\ Top.at \notin {"start", "handler"}
      /\ stack' = Below \/ stack' = Moved("finally")
      /\ UNCHANGED <<single, promVars, calls, cut>>
  BY DEF RunFinally, FinallyReturn, TopAt
<1>2. /\ Made' = Made /\ Settled' = Settled /\ \A q : HasHandler(q)' <=> HasHandler(q)
  BY <1>1 DEF Made, Settled, HasHandler, promVars
<1>3. DataOK' /\ OutcomePassesOn' /\ Derivation'
  <2>1. DataOK'
    BY <1>1, <1>2 DEF DataOK, promVars
  <2>2. OutcomePassesOn'
    BY <1>1, <1>2 DEF OutcomePassesOn, promVars
  <2>3. Derivation'
    BY <1>1, <1>2 DEF Derivation, promVars
  <2> QED BY <2>1, <2>2, <2>3
<1>4. StackInv'
  <2>1. "finally" \in Places \ {"start"} /\ "finally" # "handler"
    BY DEF Places
  <2>2. reaction' = reaction /\ cut' = cut
    BY <1>1 DEF promVars
  <2> QED BY <1>1, <1>2, <2>1, <2>2, TopStack
<1> QED BY <1>1, <1>2, <1>3, <1>4 DEF HistOK

(* it is kept if nothing happens, *)
LEMMA UnchangedStep == ASSUME IInv, UNCHANGED vars PROVE IInv'
BY DEF IInv, DataInv, DataOK, OutcomePassesOn, Derivation, StackInv, Frames, DerivedAwaited,
       Awaited, HistOK, Frame, HasHandler, Settled, Made, vars, promVars

(* by every step, *)
LEMMA InvStep == IInv /\ [Next]_vars => IInv'
<1> SUFFICES ASSUME IInv, [Next]_vars PROVE IInv'
  OBVIOUS
<1>1. CASE New
  BY <1>1, NewStep
<1>2. ASSUME NEW p \in Ids, NEW st \in {"fulfilled", "rejected"}, NEW v \in Values,
             Resolve(p, st, v)
      PROVE  IInv'
  BY <1>2, ResolveStep
<1>3. ASSUME NEW p \in Ids, NEW ful \in BOOLEAN, NEW rej \in BOOLEAN, Then(p, ful, rej)
      PROVE  IInv'
  BY <1>3, ThenStep
<1>4. ASSUME NEW v \in Values, ThenValue(v) PROVE IInv'
  BY <1>4, ThenValueStep
<1>5. ASSUME NEW v \in Values, HandlerReturn(v) PROVE IInv'
  BY <1>5, HandlerReturnStep
<1>6. ASSUME NEW p \in Ids, Finally(p) PROVE IInv'
  BY <1>6, FinallyStep
<1>7. CASE Throw
  BY <1>7, ThrowStep
<1>8. CASE RunHandler
  BY <1>8, RunHandlerStep
<1>9. CASE PassOn
  BY <1>9, PassOnStep
<1>10. CASE RunFinally \/ FinallyReturn
  BY <1>10, FinallyRunStep
<1>11. CASE Idle \/ UNCHANGED vars
  BY <1>11, UnchangedStep DEF Idle
<1> QED BY <1>1, <1>2, <1>3, <1>4, <1>5, <1>6, <1>7, <1>8, <1>9, <1>10, <1>11 DEF Next

(* so it holds always. *)
LEMMA Always == Spec => []IInv
BY InitPromise, InvStep, PTL DEF Spec

-----------------------------------------------------------------------------
(* ts_promise_resolve, ts_promise_reject, run_handlers: the state of a promise
   goes with its result, whatever handlers call, and a derived promise without
   a handler for the outcome gets the outcome of its source and keeps it. *)
THEOREM PromisesSafe == Spec => []PromiseInv
<1>1. IInv => PromiseInv
  BY Parts DEF IInv, PromiseIInv
<1> QED BY <1>1, Always, PTL

(* run_handlers: when no handler is running, the derived promise of every
   settled promise is settled, unless an exception left the handlers. *)
THEOREM DerivedAlwaysSettled == Spec => []DerivedSettled
<1>1. IInv => DerivedSettled
  <2> SUFFICES ASSUME IInv, stack = <<>> PROVE DerivedSettled
    BY DEF DerivedSettled
  <2>1. \A p : ~Awaited(p)
    BY DEF Awaited
  <2> QED BY <2>1 DEF IInv, StackInv, DerivedAwaited, DerivedSettled
<1> QED BY <1>1, Always, PTL

-----------------------------------------------------------------------------
(* Handlers are called exactly once *)

(* Which frame is yet to look at its handlers. *)
LEMMA DueFacts ==
  ASSUME StackInv
  PROVE  /\ UserCode => \A p : ~Due(p)
         /\ \A k \in 0..Len(stack) - 1 : stack' = SubSeq(stack, 1, k) => \A p : ~Due(p)'
         /\ \A q \in Settled, at \in Places \ {"start"} :
              stack # <<>> /\ stack' = Moved(at) => \A p : ~Due(p)'
         /\ \A frames \in Seq(Frame) : \A d : stack' = Call(frames, d) => \A p : Due(p)' => p = d
<1>1. stack \in Seq(Frame) /\ Len(stack) \in Nat /\ (stack # <<>> => Len(stack) >= 1)
  BY DEF StackInv
<1>2. UserCode => \A p : ~Due(p)
  BY DEF UserCode, Due, TopAt
<1>3. ASSUME NEW k \in 0..Len(stack) - 1, stack' = SubSeq(stack, 1, k), NEW p PROVE ~Due(p)'
  <2>1. k \in 0..Len(stack) /\ k \in Nat /\ k < Len(stack)
    BY <1>1
  <2>2. Len(stack') = k /\ \A i \in 1..k : stack'[i] = stack[i]
    <3> HIDE DEF Frame
    <3> QED BY <1>1, <1>3, <2>1, Returned
  <2>3. \A i \in 1..k : i \in 1..Len(stack) /\ i # Len(stack)
    BY <1>1, <2>1
  <2>4. \A i \in 1..k : stack'[i].at # "start"
    BY <2>2, <2>3 DEF StackInv, Frames
  <2>5. k = 0 => stack' = <<>>
    BY <1>1, <1>3
  <2> QED BY <2>1, <2>2, <2>4, <2>5 DEF Due, TopAt, Top
<1>4. ASSUME NEW at \in Places \ {"start"}, stack # <<>>, stack' = Moved(at), NEW p PROVE ~Due(p)'
  <2>1. /\ Len(stack') = Len(stack)
        /\ stack'[Len(stack)] = [p |-> Top.p, at |-> at]
    <3> HIDE DEF Frame
    <3> QED BY <1>1, <1>4, BelowFacts
  <2> QED BY <2>1 DEF Due, TopAt, Top
<1>5. ASSUME NEW frames \in Seq(Frame), NEW d, stack' = Call(frames, d), NEW p, Due(p)' PROVE p = d
  <2>1. stack'[Len(stack')] = [p |-> d, at |-> "start"]
    <3> DEFINE f == [p |-> d, at |-> "start"]
    <3>1. stack' = Append(frames, f)
      BY <1>5 DEF Call
    <3> HIDE DEF f
    <3>2. stack'[Len(stack')] = f
      BY <3>1
    <3> QED BY <3>2 DEF f
  <2> QED BY <1>5, <2>1 DEF Due, Top
<1> QED BY <1>2, <1>3, <1>4, <1>5

(* Nothing is owed after a step that calls no handler, settles nothing that has a
   reaction and leaves no frame that is yet to look at its handlers. *)
LEMMA QuietServed ==
  ASSUME IInv, IInv', Served, UNCHANGED <<single, reaction, calls>>, made <= made',
         \A p : ~Due(p)',
         \A p \in Settled : p \in Settled' /\ (HasHandler(p)' <=> HasHandler(p)),
         \A p \in Settled' : p \in Settled \/ reaction[p].next = NULL,
         \A p \in Settled : ~(HasHandler(p) /\ Due(p))
  PROVE  Served'
<1>1. made \in Nat /\ made' \in Nat /\ Ids \subseteq Nat
  BY PromiseAssumption DEF IInv, DataInv, DataOK, Ids
<1>2. \A n \in Ids : n > made' => n > made
  BY <1>1
<1>3. ASSUME single, NEW p \in Ids, reaction[p].next # NULL
      PROVE  LET n == reaction[p].next
             IN /\ calls[n] <= 1
                /\ calls[n] = 1 => p \in Settled' /\ HasHandler(p)'
                /\ calls[n] # 0 \/ p \notin Settled' \/ ~HasHandler(p)'
  BY <1>3 DEF Served
<1> QED BY <1>2, <1>3 DEF Served

(* ts_promise_resolve and ts_promise_reject: run_handlers is called for the promise
   that is settled, whose handlers nobody has called. *)
LEMMA SettleServed ==
  ASSUME IInv, IInv', Served, NEW d, NEW st \in {"fulfilled", "rejected"}, NEW v \in Values,
         NEW frames \in Seq(Frame), Settle(d, st, v, frames),
         UNCHANGED <<single, made, reaction, calls>>,
         \A p \in Settled : ~(HasHandler(p) /\ Due(p)),
         stack' = frames => \A p : ~Due(p)'
  PROVE  Served'
<1>1. CASE ~(d \in Made /\ state[d] = "pending")
  <2>1. UNCHANGED <<state, result>> /\ stack' = frames
    BY <1>1 DEF Settle
  <2>2. Settled' = Settled /\ \A p : HasHandler(p)' <=> HasHandler(p)
    BY <2>1 DEF Settled, Made, HasHandler
  <2>3. made <= made'
    BY PromiseAssumption DEF IInv, DataInv, DataOK
  <2> QED BY <2>1, <2>2, <2>3, QuietServed
<1>2. CASE d \in Made /\ state[d] = "pending"
  <2>1. stack' = Call(frames, d) /\ state' = [state EXCEPT ![d] = st] /\ d \in Ids /\ d \notin Settled
    BY <1>2, Numbers DEF Settle, IInv, DataInv, Settled
  <2>2. Made' = Made /\ \A p \in Ids \ {d} : state'[p] = state[p]
    BY <2>1 DEF Made, IInv, DataInv, DataOK
  <2>3. \A p \in Ids \ {d} : /\ p \in Settled' <=> p \in Settled
                             /\ HasHandler(p)' <=> HasHandler(p)
    BY <2>2 DEF Settled, HasHandler
  <2>4. \A p : Due(p)' => p = d
    BY <2>1, DueFacts DEF IInv
  <2>5. Due(d)'
    <3> DEFINE f == [p |-> d, at |-> "start"]
    <3>1. stack' = Append(frames, f)
      BY <2>1 DEF Call
    <3> HIDE DEF f
    <3>2. stack'[Len(stack')] = f /\ stack' # <<>>
      BY <3>1
    <3> QED BY <3>2 DEF f, Due, TopAt, Top
  <2>6. SUFFICES ASSUME single, NEW p \in Ids, reaction[p].next # NULL
        PROVE  LET n == reaction[p].next
               IN /\ calls[n] <= 1
                  /\ calls[n] = 1 => p \in Settled' /\ HasHandler(p)'
                  /\ calls[n] = 0 /\ p \in Settled' /\ HasHandler(p)' => Due(p)'
                  /\ Due(p)' => calls[n] = 0
    BY DEF Served
  <2> DEFINE n == reaction[p].next
  <2>7. /\ calls[n] <= 1
        /\ calls[n] = 1 => p \in Settled /\ HasHandler(p)
        /\ calls[n] = 0 /\ p \in Settled /\ HasHandler(p) => Due(p)
    BY <2>6 DEF Served
  <2>8. CASE p = d
    <3>1. calls[n] = 0
      <4>1. n \in Ids /\ calls[n] \in 0..2
        BY <2>6, Numbers DEF IInv, DataInv, HistOK
      <4> HIDE DEF n
      <4> QED BY <2>1, <2>7, <2>8, <4>1
    <3> QED BY <2>5, <2>8, <3>1
  <2>9. CASE p # d
    <3>1. ~(calls[n] = 0 /\ p \in Settled /\ HasHandler(p))
      BY <2>7
    <3> QED BY <2>3, <2>4, <2>7, <2>9, <3>1
  <2> QED BY <2>8, <2>9
<1> QED BY <1>1, <1>2

(* What user code calls, and exceptions. *)
LEMMA UserServed ==
  ASSUME IInv, IInv', Served, UserCode
  PROVE  /\ New => Served'
         /\ \A p \in Ids, st \in {"fulfilled", "rejected"}, v \in Values :
              Resolve(p, st, v) => Served'
         /\ \A v \in Values : ThenValue(v) => Served'
         /\ Throw => Served'
<1>1. /\ \A p : ~Due(p)
      /\ stack' = stack => \A p : ~Due(p)'
  <2>1. \A p : ~Due(p)
    BY DueFacts DEF IInv
  <2> QED BY <2>1 DEF Due, TopAt, Top
<1>2. made \in Nat /\ MaxPromises \in Nat
  BY Numbers DEF IInv, DataInv
<1>3. ASSUME New PROVE Served'
  <2>1. /\ made < MaxPromises /\ made' = made + 1
        /\ UNCHANGED <<single, state, reaction, calls, stack>>
    BY <1>3 DEF New
  <2>2. Settled' = Settled /\ \A p : HasHandler(p)' <=> HasHandler(p)
    <3>1. state[made + 1] = "pending" /\ Made' = Made \cup {made + 1}
      BY <1>2, <2>1, Fresh DEF Made, IInv
    <3> QED BY <2>1, <3>1 DEF Settled, HasHandler
  <2> QED BY <1>1, <1>2, <2>1, <2>2, QuietServed
<1>4. ASSUME NEW p \in Ids, NEW st \in {"fulfilled", "rejected"}, NEW v \in Values,
             Resolve(p, st, v)
      PROVE  Served'
  <2>1. Settle(p, st, v, stack) /\ UNCHANGED <<single, made, reaction, calls>>
    BY <1>4 DEF Resolve
  <2>2. stack \in Seq(Frame)
    BY DEF IInv, StackInv
  <2> HIDE DEF Frame
  <2> QED BY <1>1, <2>1, <2>2, SettleServed
<1>5. ASSUME NEW v \in Values, ThenValue(v) PROVE Served'
  <2> DEFINE d == made + 1
  <2>1. /\ made < MaxPromises /\ made' = d /\ state' = [state EXCEPT ![d] = "fulfilled"]
        /\ UNCHANGED <<single, reaction, calls, stack>>
    BY <1>5 DEF ThenValue
  <2>2. /\ d \in Ids /\ d \notin Made /\ reaction[d].next = NULL
        /\ Made' = Made \cup {d}
    BY <1>2, <2>1, Fresh DEF Made, IInv, NoReaction
  <2>3. /\ \A p \in Settled : p \in Settled' /\ (HasHandler(p)' <=> HasHandler(p))
        /\ \A p \in Settled' : p \in Settled \/ p = d
    <3> HIDE DEF d
    <3>1. \A p \in Made : p # d /\ p \in Ids /\ state'[p] = state[p]
      BY <2>1, <2>2, Numbers DEF IInv, DataInv, DataOK
    <3> QED BY <2>1, <2>2, <3>1 DEF Settled, HasHandler
  <2> QED BY <1>1, <1>2, <2>1, <2>2, <2>3, QuietServed
<1>6. ASSUME Throw PROVE Served'
  <2>1. PICK k \in 0..(Len(stack) - 1) : stack' = SubSeq(stack, 1, k)
    BY <1>6 DEF Throw
  <2>2. UNCHANGED <<single, promVars, calls>>
    BY <1>6 DEF Throw
  <2>3. \A p : ~Due(p)'
    BY <2>1, DueFacts DEF IInv
  <2>4. Settled' = Settled /\ \A p : HasHandler(p)' <=> HasHandler(p)
    BY <2>2 DEF Settled, Made, HasHandler, promVars
  <2> QED BY <1>1, <1>2, <2>2, <2>3, <2>4, QuietServed DEF promVars
<1> QED BY <1>3, <1>4, <1>5, <1>6

(* run_handlers is called for a promise that was settled before. *)
LEMMA CalledAgain ==
  ASSUME StackInv, NEW p, stack' = Call(stack, p)
  PROVE  Due(p)' /\ \A q : Due(q)' => q = p
<1> DEFINE f == [p |-> p, at |-> "start"]
<1>1. stack' = Append(stack, f) /\ stack \in Seq(Frame)
  BY DEF Call, StackInv
<1> HIDE DEF f, Frame
<1>2. stack'[Len(stack')] = f /\ stack' # <<>>
  BY <1>1
<1> QED BY <1>2 DEF f, Due, TopAt, Top

(* ts_promise_then: the promise had no reaction, so no frame of it is about to call a
   handler; the new derived promise has never had one called. *)
LEMMA ThenServed ==
  ASSUME IInv, IInv', Served, NEW p \in Ids, NEW ful \in BOOLEAN, NEW rej \in BOOLEAN,
         Then(p, ful, rej)
  PROVE  Served'
<1> DEFINE d == made + 1
<1>1. /\ UserCode /\ p \in Made /\ MayReact(p) /\ made < MaxPromises /\ made' = d
      /\ reaction' = [reaction EXCEPT ![p] = [ful |-> ful, rej |-> rej, next |-> d]]
      /\ RunIfSettled(p) /\ UNCHANGED <<single, state, calls>>
  BY DEF Then
<1>2. made \in Nat /\ MaxPromises \in Nat /\ Ids \subseteq Nat
  BY Numbers DEF IInv, DataInv
<1>3. d \in Ids /\ d \notin Made /\ d > made /\ Settled' = Settled
  <2>1. state[d] = "pending" /\ Made' = Made \cup {d} /\ d \in Ids /\ d \notin Made
    BY <1>1, <1>2, Fresh DEF Made, IInv
  <2> QED BY <1>1, <1>2, <2>1 DEF Settled
<1>4. /\ reaction'[p].next = d
      /\ \A q \in Ids \ {p} : reaction'[q] = reaction[q]
  BY <1>1 DEF IInv, DataInv, DataOK
<1>5. \A q \in Ids \ {p} : HasHandler(q)' <=> HasHandler(q)
  BY <1>1, <1>4 DEF HasHandler
<1>6. \A q : ~Due(q)
  BY <1>1, DueFacts DEF IInv
<1>7. \A q : Due(q)' => q = p
  <2>1. CASE p \in Settled
    BY <1>1, <2>1, CalledAgain DEF RunIfSettled, IInv
  <2>2. CASE p \notin Settled
    BY <1>1, <1>6, <2>2 DEF RunIfSettled, Due, TopAt, Top
  <2> QED BY <2>1, <2>2
<1>8. SUFFICES ASSUME single
      PROVE  /\ \A n \in Ids : n > d => calls[n] = 0
             /\ \A q \in Ids : LET n == reaction'[q].next IN n # NULL =>
                  /\ calls[n] <= 1
                  /\ calls[n] = 1 => q \in Settled' /\ HasHandler(q)'
                  /\ calls[n] = 0 /\ q \in Settled' /\ HasHandler(q)' => Due(q)'
                  /\ Due(q)' => calls[n] = 0
  BY <1>1 DEF Served
<1>9. \A n \in Ids : n > made => calls[n] = 0
  BY <1>8 DEF Served
<1>10. \A n \in Ids : n > d => calls[n] = 0
  BY <1>2, <1>9
<1>11. calls[d] = 0
  BY <1>3, <1>9
<1>12. ASSUME p \in Settled PROVE Due(p)'
  BY <1>1, <1>12, CalledAgain DEF RunIfSettled, IInv
<1>13. ASSUME NEW q \in Ids, reaction'[q].next # NULL
       PROVE  LET n == reaction'[q].next
              IN /\ calls[n] <= 1
                 /\ calls[n] = 1 => q \in Settled' /\ HasHandler(q)'
                 /\ calls[n] = 0 /\ q \in Settled' /\ HasHandler(q)' => Due(q)'
                 /\ Due(q)' => calls[n] = 0
  <2>1. CASE q = p
    BY <1>3, <1>4, <1>11, <1>12, <2>1
  <2>2. CASE q # p
    <3> DEFINE n == reaction[q].next
    <3>1. reaction'[q].next = n /\ n # NULL
      BY <1>4, <1>13, <2>2
    <3>2. /\ calls[n] <= 1
          /\ calls[n] = 1 => q \in Settled /\ HasHandler(q)
          /\ ~(calls[n] = 0 /\ q \in Settled /\ HasHandler(q))
      BY <1>6, <1>8, <3>1 DEF Served
    <3> QED BY <1>3, <1>5, <1>7, <2>2, <3>1, <3>2
  <2> QED BY <2>1, <2>2
<1> QED BY <1>10, <1>13

(* ts_promise_finally: run_handlers finds no handler of a promise with no reaction. *)
LEMMA FinallyServed ==
  ASSUME IInv, IInv', Served, NEW p \in Ids, Finally(p)
  PROVE  Served'
<1>1. /\ UserCode /\ MayReact(p) /\ RunIfSettled(p)
      /\ UNCHANGED <<single, made, state, reaction, calls>>
  BY DEF Finally
<1>2. Settled' = Settled /\ \A q : HasHandler(q)' <=> HasHandler(q)
  BY <1>1 DEF Made, Settled, HasHandler
<1>3. \A q : ~Due(q)
  BY <1>1, DueFacts DEF IInv
<1>4. \A q : Due(q)' => q = p
  <2>1. CASE p \in Settled
    BY <1>1, <2>1, CalledAgain DEF RunIfSettled, IInv
  <2>2. CASE p \notin Settled
    BY <1>1, <1>3, <2>2 DEF RunIfSettled, Due, TopAt, Top
  <2> QED BY <2>1, <2>2
<1>5. SUFFICES ASSUME single, NEW q \in Ids, reaction[q].next # NULL
      PROVE  LET n == reaction[q].next
             IN /\ calls[n] <= 1
                /\ calls[n] = 1 => q \in Settled' /\ HasHandler(q)'
                /\ calls[n] = 0 /\ q \in Settled' /\ HasHandler(q)' => Due(q)'
                /\ Due(q)' => calls[n] = 0
  BY <1>1 DEF Served
<1>6. reaction[p].next = NULL
  BY <1>1, <1>5 DEF MayReact, NoReaction
<1>7. q # p
  BY <1>5, <1>6
<1>8. LET n == reaction[q].next
      IN /\ calls[n] <= 1
         /\ calls[n] = 1 => q \in Settled /\ HasHandler(q)
         /\ ~(calls[n] = 0 /\ q \in Settled /\ HasHandler(q))
  BY <1>3, <1>5 DEF Served
<1> QED BY <1>2, <1>4, <1>7, <1>8

(* run_handlers calls the handler it owes. *)
LEMMA RunHandlerServed ==
  ASSUME IInv, IInv', Served, RunHandler
  PROVE  Served'
<1> DEFINE o == Top.p
           m == reaction[o].next
<1>1. /\ stack # <<>> /\ Due(o) /\ HasHandler(o) /\ stack' = Moved("handler")
      /\ calls' = [calls EXCEPT ![m] = IF @ < 2 THEN @ + 1 ELSE @]
      /\ UNCHANGED <<single, promVars, cut>>
  BY DEF RunHandler, TopAt, Due
<1>2. o \in Settled /\ o \in Ids
  BY <1>1, TopFacts, Numbers DEF IInv, DataInv, StackInv
<1>3. m \in Ids /\ m # NULL /\ m <= made /\ made \in Nat
  <2>1. m # NULL
    BY <1>1, <1>2 DEF IInv, DataInv, Derivation, HasHandler, NoReaction
  <2>2. m \in Made
    BY <1>2, <2>1, Numbers DEF IInv, DataInv
  <2> QED BY <2>1, <2>2, Numbers DEF IInv, DataInv, Made
<1>4. Settled' = Settled /\ \A q : HasHandler(q)' <=> HasHandler(q)
  BY <1>1 DEF Made, Settled, HasHandler, promVars
<1>5. \A q : ~Due(q)'
  <2>1. "handler" \in Places \ {"start"}
    BY DEF Places
  <2> QED BY <1>1, <1>2, <2>1, DueFacts DEF IInv
<1>6. SUFFICES ASSUME single
      PROVE  /\ \A n \in Ids : n > made => calls'[n] = 0
             /\ \A q \in Ids : LET n == reaction[q].next IN n # NULL =>
                  /\ calls'[n] <= 1
                  /\ calls'[n] = 1 => q \in Settled /\ HasHandler(q)
                  /\ ~(calls'[n] = 0 /\ q \in Settled /\ HasHandler(q))
  BY <1>1, <1>4, <1>5 DEF Served, promVars
<1> HIDE DEF o, m
<1>7. calls[m] = 0
  BY <1>1, <1>2, <1>3, <1>6 DEF Served, m
<1>8. calls'[m] = 1 /\ \A n \in Ids \ {m} : calls'[n] = calls[n]
  BY <1>1, <1>3, <1>7 DEF IInv, HistOK
<1>9. \A n \in Ids : n > made => calls'[n] = 0
  <2>1. \A n \in Ids : n > made => n # m /\ calls[n] = 0
    BY <1>3, <1>6, Numbers DEF Served, IInv, DataInv
  <2> QED BY <1>8, <2>1
<1>10. ASSUME NEW q \in Ids, reaction[q].next # NULL
       PROVE  LET n == reaction[q].next
              IN /\ calls'[n] <= 1
                 /\ calls'[n] = 1 => q \in Settled /\ HasHandler(q)
                 /\ ~(calls'[n] = 0 /\ q \in Settled /\ HasHandler(q))
  <2>1. CASE q = o
    BY <1>1, <1>2, <1>8, <2>1 DEF m
  <2>2. CASE q # o
    <3> DEFINE n == reaction[q].next
    <3>1. n # m /\ n \in Ids
      BY <1>2, <1>10, <2>2, Numbers DEF IInv, DataInv, Derivation, m
    <3>2. ~Due(q)
      BY <1>1, <2>2 DEF Due, o
    <3>3. /\ calls[n] <= 1
          /\ calls[n] = 1 => q \in Settled /\ HasHandler(q)
          /\ ~(calls[n] = 0 /\ q \in Settled /\ HasHandler(q))
      BY <1>6, <1>10, <3>2 DEF Served
    <3> QED BY <1>8, <3>1, <3>3
  <2> QED BY <2>1, <2>2
<1> QED BY <1>9, <1>10

(* The other steps of run_handlers: the outcome goes to the derived promise, and the
   finally function is called. *)
LEMMA ChainServed ==
  ASSUME IInv, IInv', Served
  PROVE  /\ PassOn => Served'
         /\ \A v \in Values : HandlerReturn(v) => Served'
         /\ RunFinally => Served'
         /\ FinallyReturn => Served'
<1>1. "chain" \in Places \ {"start"} /\ "finally" \in Places \ {"start"}
  BY DEF Places
<1>2. ASSUME stack # <<>>
      PROVE  /\ Top.p \in Settled /\ Moved("chain") \in Seq(Frame)
             /\ stack' = Moved("chain") => \A p : ~Due(p)'
             /\ stack' = Moved("finally") => \A p : ~Due(p)'
             /\ stack' = Below => \A p : ~Due(p)'
  <2>1. Top.p \in Settled /\ Moved("chain") \in Seq(Frame)
    <3> HIDE DEF Frame
    <3> QED BY <1>1, <1>2, TopFacts, BelowFacts DEF IInv, StackInv
  <2>2. Len(stack) - 1 \in 0..Len(stack) - 1
    BY <1>2, TopFacts DEF IInv, StackInv
  <2> QED BY <1>1, <1>2, <2>1, <2>2, DueFacts DEF IInv, Below
<1>3. ASSUME PassOn PROVE Served'
  <2>1. /\ stack # <<>> /\ ~HasHandler(Top.p)
        /\ Settle(reaction[Top.p].next, state[Top.p], result[Top.p], Moved("chain"))
        /\ UNCHANGED <<single, made, reaction, calls>>
    BY <1>3 DEF PassOn, TopAt
  <2>2. state[Top.p] \in {"fulfilled", "rejected"} /\ result[Top.p] \in Values
    <3>1. Top.p \in Settled /\ Top.p \in Ids
      BY <1>2, <2>1, Numbers DEF IInv, DataInv
    <3>2. state[Top.p] # "pending"
      BY <3>1 DEF Settled
    <3> QED BY <3>1, <3>2 DEF IInv, DataInv, DataOK
  <2>3. \A p \in Settled : ~(HasHandler(p) /\ Due(p))
    BY <2>1 DEF Due
  <2> HIDE DEF Frame
  <2> QED BY <1>2, <2>1, <2>2, <2>3, SettleServed
<1>4. ASSUME NEW v \in Values, HandlerReturn(v) PROVE Served'
  <2>1. /\ stack # <<>> /\ Top.at = "handler"
        /\ Settle(reaction[Top.p].next, "fulfilled", v, Moved("chain"))
        /\ UNCHANGED <<single, made, reaction, calls>>
    BY <1>4 DEF HandlerReturn, TopAt
  <2>2. \A p \in Settled : ~(HasHandler(p) /\ Due(p))
    BY <2>1 DEF Due, TopAt
  <2> HIDE DEF Frame
  <2> QED BY <1>2, <2>1, <2>2, SettleServed
<1>5. ASSUME RunFinally \/ FinallyReturn PROVE Served'
  <2>1. /\ stack # <<>> /\ Top.at \notin {"start", "handler"}
        /\ stack' = Below \/ stack' = Moved("finally")
        /\ UNCHANGED <<single, promVars, calls>>
    BY <1>5 DEF RunFinally, FinallyReturn, TopAt
  <2>2. Settled' = Settled /\ \A p : HasHandler(p)' <=> HasHandler(p)
    BY <2>1 DEF Settled, Made, HasHandler, promVars
  <2>3. \A p : ~Due(p) /\ ~Due(p)'
    <3>1. \A p : ~Due(p)
      BY <2>1 DEF Due, TopAt
    <3> QED BY <1>2, <2>1, <3>1
  <2>4. made \in Nat /\ made' = made
    BY <2>1, Numbers DEF promVars, IInv, DataInv
  <2> QED BY <2>1, <2>2, <2>3, <2>4, QuietServed DEF promVars
<1> QED BY <1>3, <1>4, <1>5

(* No handler was called before a promise is made, *)
LEMMA InitServed == Init => Served
BY DEF Init, Served, NoReaction, Ids

(* and every step keeps the account of those that were. *)
LEMMA ServedStep == IInv /\ Served /\ [Next]_vars => Served'
<1> SUFFICES ASSUME IInv, Served, [Next]_vars PROVE Served'
  OBVIOUS
<1>1. IInv'
  BY InvStep
<1>2. CASE New \/ Throw
  BY <1>1, <1>2, UserServed DEF New, Throw
<1>3. ASSUME NEW p \in Ids, NEW st \in {"fulfilled", "rejected"}, NEW v \in Values,
             Resolve(p, st, v)
      PROVE  Served'
  <2>1. UserCode
    BY <1>3 DEF Resolve
  <2> QED BY <1>1, <1>3, <2>1, UserServed
<1>4. ASSUME NEW p \in Ids, NEW ful \in BOOLEAN, NEW rej \in BOOLEAN, Then(p, ful, rej)
      PROVE  Served'
  BY <1>1, <1>4, ThenServed
<1>5. ASSUME NEW v \in Values, ThenValue(v) PROVE Served'
  <2>1. UserCode
    BY <1>5 DEF ThenValue
  <2> QED BY <1>1, <1>5, <2>1, UserServed
<1>6. ASSUME NEW v \in Values, HandlerReturn(v) PROVE Served'
  BY <1>1, <1>6, ChainServed
<1>7. ASSUME NEW p \in Ids, Finally(p) PROVE Served'
  BY <1>1, <1>7, FinallyServed
<1>8. CASE RunHandler
  BY <1>1, <1>8, RunHandlerServed
<1>9. CASE PassOn \/ RunFinally \/ FinallyReturn
  BY <1>1, <1>9, ChainServed
<1>10. CASE Idle \/ UNCHANGED vars
  BY <1>10 DEF Idle, vars, promVars, Served, Due, TopAt, Top, Settled, Made, HasHandler
<1> QED BY <1>2, <1>3, <1>4, <1>5, <1>6, <1>7, <1>8, <1>9, <1>10 DEF Next

(* run_handlers: in a program that attaches one reaction to each promise, a handler is
   called exactly once when its promise is settled and never otherwise, wherever then,
   resolve and throw were called from. *)
THEOREM HandlersCalledOnce == Spec => []HandlersExactlyOnce
<1>1. IInv /\ Served => HandlersExactlyOnce
  <2> SUFFICES ASSUME IInv, Served, single, NEW p \in Made, reaction[p].next # NULL
               PROVE  /\ calls[reaction[p].next] <= 1
                      /\ stack = <<>> =>
                           (calls[reaction[p].next] = 1 <=> p \in Settled /\ HasHandler(p))
    BY DEF HandlersExactlyOnce
  <2> DEFINE n == reaction[p].next
  <2>1. p \in Ids /\ n \in Ids
    BY Numbers DEF IInv, DataInv
  <2>2. calls[n] \in 0..2
    BY <2>1 DEF IInv, HistOK
  <2>3. /\ calls[n] <= 1
        /\ calls[n] = 1 => p \in Settled /\ HasHandler(p)
        /\ calls[n] = 0 /\ p \in Settled /\ HasHandler(p) => Due(p)
    BY <2>1 DEF Served
  <2>4. stack = <<>> => ~Due(p)
    BY DEF Due, TopAt
  <2> HIDE DEF n
  <2>5. stack = <<>> => (calls[n] = 1 <=> p \in Settled /\ HasHandler(p))
    BY <2>2, <2>3, <2>4
  <2> QED BY <2>3, <2>5 DEF n
<1>2. IInv /\ Served /\ [Next]_vars => Served'
  BY ServedStep
<1> QED BY <1>1, <1>2, InitServed, Always, PTL DEF Spec

=============================================================================
