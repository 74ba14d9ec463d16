------------------------- MODULE Containers_proofs -------------------------
(* Proofs about two containers of the runtime: the hash table behind objects, Map
   and Set (HashMap), for any hash function, capacity and keys; and the listener
   lists of an EventEmitter (Events), for any events, functions, registrations and
   nesting.  The two are proved apart, each for its own specification. *)
EXTENDS HashMap, Events, FiniteSetTheorems, SequenceTheorems, WellFoundedInduction,
        TLAPS

-----------------------------------------------------------------------------
(* Arithmetic *)

(* A set of numbers that is not empty has a least one. *)
LEMMA Least ==
  ASSUME NEW T \in SUBSET Nat, T # {}
  PROVE  \E m \in T : \A k \in T : m <= k
<1> DEFINE R == {ss \in Nat \X Nat : ss[1] < ss[2]}
<1>1. IsWellFoundedOn(R, Nat)
  BY NatLessThanWellFounded, Zenon DEF OpToRel
<1>2. PICK m \in T : \A k \in T : <<k, m>> \notin R
  <2> HIDE DEF R
  <2> QED BY <1>1, WFMin
<1>3. ASSUME NEW k \in T PROVE m <= k
  <2>1. <<k, m>> \in Nat \X Nat /\ <<k, m>>[1] = k /\ <<k, m>>[2] = m
    OBVIOUS
  <2>2. ~ (<<k, m>>[1] < <<k, m>>[2])
    BY <1>2, <2>1, Zenon
  <2> QED BY <2>1, <2>2
<1> QED BY <1>3

(* Indices modulo the capacity. *)
LEMMA Wrap ==
  ASSUME NEW n \in Nat, n > 0
  PROVE  /\ \A x \in Nat : x % n \in 0..n - 1
         /\ \A x \in 0..n - 1 : x % n = x /\ (x + n) % n = x
  OBVIOUS

(* The load factor leaves a slot free, and a doubled table has room for what
   the old one could hold, and one more. *)
LEMMA ThresholdFacts ==
  ASSUME NEW n \in Nat, n >= 2
  PROVE  /\ Threshold(n) \in Nat /\ Threshold(n) < n
         /\ Threshold(2 * n) > n
  BY DEF Threshold

-----------------------------------------------------------------------------
(* Tables *)

(* A table of n slots, and the slots of it that are occupied. *)
LEMMA TableFacts ==
  ASSUME NEW n \in Nat, NEW t \in Slots(n)
  PROVE  /\ DOMAIN t = 0..n - 1
         /\ Capacity(t) = n
         /\ Occupied(t) \subseteq 0..n - 1
         /\ IsFiniteSet(Occupied(t))
         /\ Cardinality(Occupied(t)) \in Nat
         /\ Cardinality(Occupied(t)) < n => Occupied(t) # DOMAIN t
<1>1. DOMAIN t = 0..n - 1
  BY DEF Slots
<1>2. IsFiniteSet(0..n - 1) /\ Cardinality(0..n - 1) = n
  BY FS_Interval
<1>3. Occupied(t) \in SUBSET (0..n - 1)
  BY <1>1 DEF Occupied
<1>4. IsFiniteSet(Occupied(t))
  BY <1>2, <1>3, FS_Subset
<1>5. Cardinality(Occupied(t)) \in Nat
  BY <1>4, FS_CardinalityType
<1>6. Cardinality(Occupied(t)) < n => Occupied(t) # DOMAIN t
  BY <1>1, <1>2, <1>5
<1> QED BY <1>1, <1>2, <1>3, <1>4, <1>5, <1>6 DEF Capacity

(* calloc: the new table is one, and nothing is in it. *)
LEMMA EmptyTableFacts ==
  ASSUME NEW n \in Nat
  PROVE  EmptyTable(n) \in Slots(n) /\ Occupied(EmptyTable(n)) = {}
  BY DEF EmptyTable, Slots, Occupied

Stored(t, i, s, v) == [t EXCEPT ![i] = [key |-> s, value |-> v]]

(* Storing an association occupies its slot and no other. *)
LEMMA StoreFacts ==
  ASSUME NEW n \in Nat, NEW t \in Slots(n), NEW i \in 0..n - 1,
         NEW s \in Strings, NEW v \in Values \cup {None}
  PROVE  /\ Stored(t, i, s, v) \in Slots(n)
         /\ Occupied(Stored(t, i, s, v)) = Occupied(t) \cup {i}
<1> DEFINE u == Stored(t, i, s, v)
<1> USE DEF Stored
<1>1. u \in Slots(n)
  BY DEF Slots
<1>2. /\ u[i].key = s
      /\ \A j \in 0..n - 1 : j # i => u[j] = t[j]
  BY DEF Slots
<1>3. s # None
  BY HashMapAssumption
<1>4. DOMAIN u = 0..n - 1 /\ DOMAIN t = 0..n - 1
  BY <1>1 DEF Slots
<1>5. Occupied(u) = Occupied(t) \cup {i}
  BY <1>2, <1>3, <1>4 DEF Occupied
<1> QED BY <1>1, <1>5

(* Where a probe ends, and what it finds there, as functions of what the strings
   hold (h) and the table, so that states before and after a step can be compared. *)
StopsAt(h, t, c, d) ==
  LET key == t[Probe(t, c, d)].key
  IN key = None \/ h[key] = c
EndOf(h, t, c) ==
  Probe(t, c, CHOOSE d \in 0..Capacity(t) - 1 :
                /\ StopsAt(h, t, c, d)
                /\ \A e \in 0..d - 1 : ~StopsAt(h, t, c, e))
AnswerOf(h, t, c) ==
  IF t[EndOf(h, t, c)].key # None THEN t[EndOf(h, t, c)].value ELSE None

(* As long as a slot is free, the loop of set, get and has stops: at the first slot
   of the walk that is free or has the content it looks for. *)
LEMMA EndFacts ==
  ASSUME NEW n \in Nat, n > 0, NEW t \in Slots(n), Occupied(t) # DOMAIN t,
         NEW h, NEW c \in Contents
  PROVE  /\ \E d \in 0..n - 1 :
              /\ StopsAt(h, t, c, d)
              /\ \A e \in 0..d - 1 : ~StopsAt(h, t, c, e)
              /\ EndOf(h, t, c) = Probe(t, c, d)
         /\ EndOf(h, t, c) \in 0..n - 1
<1> DEFINE home == Home(t, c)
<1>1. DOMAIN t = 0..n - 1 /\ Capacity(t) = n
  BY TableFacts
<1>2. home \in 0..n - 1
  BY <1>1, Wrap, HashMapAssumption DEF Home
<1>3. PICK f \in 0..n - 1 : t[f].key = None
  BY <1>1 DEF Occupied
<1>4. PICK g \in 0..n - 1 : Probe(t, c, g) = f
  <2>1. CASE f >= home
    <3>1. f - home \in 0..n - 1 /\ home + (f - home) = f
      BY <1>2, <2>1
    <3>2. Probe(t, c, f - home) = f
      BY <1>1, <3>1, Wrap DEF Probe
    <3> QED BY <3>1, <3>2
  <2>2. CASE f < home
    <3>1. f + n - home \in 0..n - 1 /\ home + (f + n - home) = f + n
      BY <1>2, <2>2
    <3>2. Probe(t, c, f + n - home) = f
      BY <1>1, <3>1, Wrap DEF Probe
    <3> QED BY <3>1, <3>2
  <2> QED BY <1>2, <2>1, <2>2
<1>5. StopsAt(h, t, c, g)
  BY <1>3, <1>4 DEF StopsAt
<1> DEFINE D == {d \in 0..n - 1 : StopsAt(h, t, c, d)}
<1>6. PICK m \in D : \A k \in D : m <= k
  <2>1. D \in SUBSET Nat /\ D # {}
    BY <1>5
  <2> HIDE DEF D
  <2> QED BY <2>1, Least
<1> DEFINE First(d) == StopsAt(h, t, c, d) /\ \A e \in 0..d - 1 : ~StopsAt(h, t, c, e)
           d0 == CHOOSE d \in 0..n - 1 : First(d)
<1>7. m \in 0..n - 1 /\ First(m)
  BY <1>6
<1>8. d0 \in 0..n - 1 /\ First(d0)
  <2> HIDE DEF First
  <2> QED BY <1>7
<1>9. EndOf(h, t, c) = Probe(t, c, d0)
  BY <1>1 DEF EndOf
<1>10. Probe(t, c, d0) \in 0..n - 1
  <2> HIDE DEF d0
  <2>1. home + d0 \in Nat
    BY <1>2, <1>8
  <2> QED BY <1>1, <2>1, Wrap DEF Probe
<1> HIDE DEF d0
<1> QED BY <1>8, <1>9, <1>10

(* Only one slot is the first. *)
LEMMA EndIs ==
  ASSUME NEW n \in Nat, NEW t \in Slots(n), NEW h, NEW c, NEW d \in 0..n - 1,
         StopsAt(h, t, c, d), \A e \in 0..d - 1 : ~StopsAt(h, t, c, e)
  PROVE  EndOf(h, t, c) = Probe(t, c, d)
<1> DEFINE First(x) == StopsAt(h, t, c, x) /\ \A e \in 0..x - 1 : ~StopsAt(h, t, c, e)
           d0 == CHOOSE x \in 0..n - 1 : First(x)
<1>1. d0 \in 0..n - 1 /\ First(d0)
  <2>1. First(d)
    OBVIOUS
  <2> HIDE DEF First
  <2> QED BY <2>1
<1>2. EndOf(h, t, c) = Probe(t, c, d0)
  BY TableFacts DEF EndOf
<1> HIDE DEF d0
<1>3. d0 = d
  <2>1. ~ (d0 < d)
    BY <1>1
  <2>2. ~ (d < d0)
    BY <1>1
  <2> QED BY <1>1, <2>1, <2>2
<1> QED BY <1>2, <1>3

(* So every lookup ends in the table, at a free slot or at a key with its content. *)
LEMMA ProbeEndFacts ==
  ASSUME NEW n \in Nat, n > 0, NEW t \in Slots(n), NEW c \in Contents,
         Occupied(t) # DOMAIN t
  PROVE  /\ ProbeEnd(t, c) \in 0..n - 1
         /\ LET key == t[ProbeEnd(t, c)].key IN key = None \/ holds[key] = c
<1>1. ProbeEnd(t, c) = EndOf(holds, t, c)
  BY DEF ProbeEnd, Stops, EndOf, StopsAt
<1>2. EndOf(holds, t, c) \in 0..n - 1
  BY EndFacts
<1>3. PICK d \in 0..n - 1 : StopsAt(holds, t, c, d) /\ EndOf(holds, t, c) = Probe(t, c, d)
  BY EndFacts
<1> QED BY <1>1, <1>2, <1>3 DEF StopsAt

-----------------------------------------------------------------------------
(* What a table answers *)

Placed(h, t) == \A i \in Occupied(t) : EndOf(h, t, h[t[i].key]) = i

(* In a table whose keys are where their probes end, an answer is the value at the
   only key with the content asked for, or there is none. *)
LEMMA AnswerFacts ==
  ASSUME NEW n \in Nat, n > 0, NEW t \in Slots(n), Occupied(t) # DOMAIN t,
         NEW h \in [Strings -> Contents], Placed(h, t), NEW c \in Contents
  PROVE  /\ \A j \in Occupied(t) : h[t[j].key] = c => /\ EndOf(h, t, c) = j
                                                      /\ AnswerOf(h, t, c) = t[j].value
         /\ (\A j \in Occupied(t) : h[t[j].key] # c) =>
              /\ t[EndOf(h, t, c)].key = None
              /\ AnswerOf(h, t, c) = None
<1>1. ASSUME NEW j \in Occupied(t), h[t[j].key] = c
      PROVE  EndOf(h, t, c) = j /\ AnswerOf(h, t, c) = t[j].value
  BY <1>1 DEF Placed, AnswerOf, Occupied
<1>2. ASSUME \A j \in Occupied(t) : h[t[j].key] # c
      PROVE  t[EndOf(h, t, c)].key = None /\ AnswerOf(h, t, c) = None
  <2>1. PICK d \in 0..n - 1 : StopsAt(h, t, c, d) /\ EndOf(h, t, c) = Probe(t, c, d)
    BY EndFacts
  <2>2. EndOf(h, t, c) \in DOMAIN t
    BY EndFacts, TableFacts
  <2>3. t[EndOf(h, t, c)].key = None
    BY <1>2, <2>1, <2>2 DEF StopsAt, Occupied
  <2> QED BY <2>3 DEF AnswerOf
<1> QED BY <1>1, <1>2

(* An association stored where the probe for its content ends is found, and the
   others are found as before: the walks to their keys do not stop at the slot that
   was written, and those that ended there go on to a free slot. *)
LEMMA StoreAnswers ==
  ASSUME NEW n \in Nat, n > 0, NEW t \in Slots(n), Occupied(t) # DOMAIN t,
         NEW h \in [Strings -> Contents], Placed(h, t),
         NEW s \in Strings, NEW v \in Values \cup {None}, NEW i, i = EndOf(h, t, h[s]),
         Occupied(Stored(t, i, s, v)) # DOMAIN Stored(t, i, s, v)
  PROVE  /\ Placed(h, Stored(t, i, s, v))
         /\ AnswerOf(h, Stored(t, i, s, v), h[s]) = v
         /\ \A c \in Contents \ {h[s]} : AnswerOf(h, Stored(t, i, s, v), c) = AnswerOf(h, t, c)
<1> DEFINE u == Stored(t, i, s, v)
           c0 == h[s]
<1>1. c0 \in Contents /\ s # None
  BY HashMapAssumption
<1>2. PICK d0 \in 0..n - 1 :
        /\ StopsAt(h, t, c0, d0)
        /\ \A e \in 0..d0 - 1 : ~StopsAt(h, t, c0, e)
        /\ i = Probe(t, c0, d0)
  BY <1>1, EndFacts
<1>3. i \in 0..n - 1
  BY <1>1, EndFacts
<1>4. /\ u \in Slots(n) /\ Occupied(u) = Occupied(t) \cup {i}
      /\ DOMAIN u = 0..n - 1 /\ DOMAIN t = 0..n - 1
      /\ u[i] = [key |-> s, value |-> v]
      /\ \A j \in 0..n - 1 : j # i => u[j] = t[j]
  <2>1. u \in Slots(n) /\ Occupied(u) = Occupied(t) \cup {i}
    BY <1>3, StoreFacts
  <2>2. DOMAIN u = 0..n - 1 /\ DOMAIN t = 0..n - 1
    BY <2>1, TableFacts
  <2> QED BY <1>3, <2>1, <2>2 DEF Stored
<1>5. Capacity(u) = n /\ Capacity(t) = n
  BY <1>4, TableFacts
<1>6. \A c, d : Probe(u, c, d) = Probe(t, c, d)
  BY <1>5 DEF Probe, Home
<1>7. \A c \in Contents, d \in 0..n - 1 : Probe(t, c, d) \in 0..n - 1
  <2> TAKE c \in Contents, d \in 0..n - 1
  <2>1. Home(t, c) \in 0..n - 1
    BY <1>5, Wrap, HashMapAssumption DEF Home
  <2>2. Home(t, c) + d \in Nat
    BY <2>1
  <2> QED BY <1>5, <2>2, Wrap DEF Probe
<1> HIDE DEF u
<1>8. u[i].key = s /\ u[i].value = v
  BY <1>4
\* the walk for the content stored
<1>9. EndOf(h, u, c0) = i
  <2>1. StopsAt(h, u, c0, d0)
    BY <1>2, <1>6, <1>8 DEF StopsAt
  <2>2. ASSUME NEW e \in 0..d0 - 1 PROVE ~StopsAt(h, u, c0, e)
    <3>1. e \in 0..n - 1 /\ ~StopsAt(h, t, c0, e)
      BY <1>2
    <3>2. Probe(t, c0, e) # i
      BY <1>2, <3>1 DEF StopsAt
    <3>3. u[Probe(t, c0, e)] = t[Probe(t, c0, e)]
      BY <1>1, <1>4, <1>7, <3>1, <3>2
    <3> QED BY <1>6, <3>1, <3>3 DEF StopsAt
  <2> QED BY <1>2, <1>4, <1>6, <2>1, <2>2, EndIs
\* a slot that stopped no other walk before stops none now
<1>10. ASSUME NEW c \in Contents \ {c0}, NEW e \in 0..n - 1, ~StopsAt(h, t, c, e)
       PROVE  ~StopsAt(h, u, c, e)
  <2>1. CASE Probe(t, c, e) = i
    BY <1>1, <1>6, <1>8, <2>1 DEF StopsAt
  <2>2. CASE Probe(t, c, e) # i
    <3>1. u[Probe(t, c, e)] = t[Probe(t, c, e)]
      BY <1>4, <1>7, <2>2
    <3> QED BY <1>6, <1>10, <3>1 DEF StopsAt
  <2> QED BY <2>1, <2>2
<1>11. ASSUME NEW j \in Occupied(t), j # i
       PROVE  h[t[j].key] \in Contents \ {c0} /\ EndOf(h, u, h[t[j].key]) = j
  <2> DEFINE c == h[t[j].key]
  <2>1. t[j].key \in Strings /\ j \in 0..n - 1
    BY <1>4 DEF Occupied, Slots
  <2>2. EndOf(h, t, c) = j
    BY DEF Placed
  <2>3. c \in Contents \ {c0}
    BY <1>11, <2>1, <2>2
  <2> HIDE DEF c
  <2>4. PICK d \in 0..n - 1 :
          /\ StopsAt(h, t, c, d)
          /\ \A e \in 0..d - 1 : ~StopsAt(h, t, c, e)
          /\ Probe(t, c, d) = j
    BY <2>2, <2>3, EndFacts
  <2>5. StopsAt(h, u, c, d)
    BY <1>4, <1>6, <1>11, <2>1, <2>4 DEF StopsAt
  <2>6. \A e \in 0..d - 1 : ~StopsAt(h, u, c, e)
    <3>1. \A e \in 0..d - 1 : e \in 0..n - 1
      OBVIOUS
    <3> QED BY <1>10, <2>3, <2>4, <3>1
  <2>7. EndOf(h, u, c) = j
    BY <1>4, <1>6, <2>4, <2>5, <2>6, EndIs
  <2> QED BY <2>3, <2>7 DEF c
<1>12. Placed(h, u)
  <2> SUFFICES ASSUME NEW j \in Occupied(u) PROVE EndOf(h, u, h[u[j].key]) = j
    BY DEF Placed
  <2>1. CASE j = i
    BY <1>8, <1>9, <2>1
  <2>2. CASE j # i
    <3>1. j \in Occupied(t) /\ j \in 0..n - 1
      BY <1>4, <2>2 DEF Occupied
    <3>2. u[j] = t[j]
      BY <1>4, <2>2, <3>1
    <3> QED BY <1>11, <2>2, <3>1, <3>2
  <2> QED BY <2>1, <2>2
<1>13. AnswerOf(h, u, c0) = v
  BY <1>1, <1>8, <1>9 DEF AnswerOf
<1>14. Occupied(u) # DOMAIN u
  BY DEF u
<1>15. ASSUME NEW c \in Contents \ {c0}
       PROVE  AnswerOf(h, u, c) = AnswerOf(h, t, c)
  <2>1. CASE \E j \in Occupied(t) : h[t[j].key] = c
    <3>1. PICK j \in Occupied(t) : h[t[j].key] = c
      BY <2>1
    <3>2. AnswerOf(h, t, c) = t[j].value /\ EndOf(h, t, c) = j
      BY <3>1, AnswerFacts
    <3>3. j # i
      <4>1. PICK d \in 0..n - 1 : StopsAt(h, t, c0, d) /\ EndOf(h, t, c0) = Probe(t, c0, d)
        BY <1>1, EndFacts
      <4>2. t[i].key = None \/ h[t[i].key] = c0
        BY <4>1 DEF StopsAt
      <4> QED BY <3>1, <4>2 DEF Occupied
    <3>4. j \in Occupied(u) /\ u[j] = t[j]
      BY <1>4, <3>3 DEF Occupied
    <3>5. AnswerOf(h, u, c) = u[j].value
      BY <1>4, <1>12, <1>14, <3>1, <3>4, AnswerFacts
    <3> QED BY <3>2, <3>4, <3>5
  <2>2. CASE \A j \in Occupied(t) : h[t[j].key] # c
    <3>1. \A j \in Occupied(u) : h[u[j].key] # c
      <4> TAKE j \in Occupied(u)
      <4>1. CASE j = i
        BY <1>8, <4>1
      <4>2. CASE j # i
        BY <1>4, <2>2, <4>2 DEF Occupied
      <4> QED BY <4>1, <4>2
    <3>2. AnswerOf(h, u, c) = None
      BY <1>4, <1>12, <1>14, <3>1, AnswerFacts
    <3>3. AnswerOf(h, t, c) = None
      BY <2>2, AnswerFacts
    <3> QED BY <3>2, <3>3
  <2> QED BY <2>1, <2>2
<1>16. \A c \in Contents \ {c0} : AnswerOf(h, u, c) = AnswerOf(h, t, c)
  BY <1>15
<1> QED BY <1>12, <1>13, <1>16 DEF u

(* Strings that are no keys may change. *)
LEMMA RenameAnswers ==
  ASSUME NEW n \in Nat, n > 0, NEW t \in Slots(n), Occupied(t) # DOMAIN t,
         NEW h, NEW g, \A i \in Occupied(t) : g[t[i].key] = h[t[i].key],
         NEW c \in Contents
  PROVE  EndOf(g, t, c) = EndOf(h, t, c) /\ AnswerOf(g, t, c) = AnswerOf(h, t, c)
<1>1. PICK d \in 0..n - 1 :
        /\ StopsAt(h, t, c, d)
        /\ \A e \in 0..d - 1 : ~StopsAt(h, t, c, e)
        /\ EndOf(h, t, c) = Probe(t, c, d)
  BY EndFacts
<1>2. DOMAIN t = 0..n - 1 /\ Capacity(t) = n
  BY TableFacts
<1>3. \A e \in 0..n - 1 : Probe(t, c, e) \in 0..n - 1
  <2> TAKE e \in 0..n - 1
  <2>1. Home(t, c) \in 0..n - 1
    BY <1>2, Wrap, HashMapAssumption DEF Home
  <2>2. Home(t, c) + e \in Nat
    BY <2>1
  <2> QED BY <1>2, <2>2, Wrap DEF Probe
<1>4. \A e \in 0..n - 1 : StopsAt(g, t, c, e) <=> StopsAt(h, t, c, e)
  BY <1>2, <1>3 DEF StopsAt, Occupied
<1>5. EndOf(g, t, c) = Probe(t, c, d)
  <2>1. StopsAt(g, t, c, d)
    BY <1>1, <1>4
  <2>2. \A e \in 0..d - 1 : e \in 0..n - 1
    OBVIOUS
  <2>3. \A e \in 0..d - 1 : ~StopsAt(g, t, c, e)
    BY <1>1, <1>4, <2>2
  <2> QED BY <2>1, <2>3, EndIs
<1> QED BY <1>1, <1>5 DEF AnswerOf

-----------------------------------------------------------------------------
(* Steps *)

(* The part of set after the test of the load keeps the count, and counts at
   most one more. *)
LEMMA InsertFacts ==
  ASSUME NEW n \in Nat, n > 0, entries \in Slots(n), Occupied(entries) # DOMAIN entries,
         SizeIsCount, holds \in [Strings -> Contents],
         NEW s \in Strings, NEW v \in Values \cup {None}, Insert(s, v)
  PROVE  /\ entries' \in Slots(n)
         /\ SizeIsCount'
         /\ size \in Nat /\ size' \in Nat /\ size <= size' /\ size' <= size + 1
<1> DEFINE i == ProbeEnd(entries, holds[s])
<1>1. i \in 0..n - 1
  BY ProbeEndFacts
<1>2. /\ entries' = [entries EXCEPT ![i] = [key |-> s, value |-> v]]
      /\ size' = IF entries[i].key = None THEN size + 1 ELSE size
  BY DEF Insert
<1> HIDE DEF i
<1>3. entries' \in Slots(n) /\ Occupied(entries') = Occupied(entries) \cup {i}
  <2>1. entries' = Stored(entries, i, s, v)
    BY <1>2 DEF Stored
  <2> QED BY <1>1, <2>1, StoreFacts
<1>4. IsFiniteSet(Occupied(entries)) /\ Cardinality(Occupied(entries)) \in Nat
  BY TableFacts
<1>5. i \in Occupied(entries) <=> entries[i].key # None
  BY <1>1, TableFacts DEF Occupied
<1>6. size = Cardinality(Occupied(entries))
  BY DEF SizeIsCount, Count
<1>7. Cardinality(Occupied(entries) \cup {i})
        = IF i \in Occupied(entries) THEN size ELSE size + 1
  BY <1>4, <1>6, FS_AddElement
<1>8. Cardinality(Occupied(entries')) = size'
  BY <1>2, <1>3, <1>5, <1>7
<1> QED BY <1>2, <1>3, <1>4, <1>6, <1>8 DEF SizeIsCount, Count

(* What the inductive invariant says of the capacity of the table. *)
LEMMA CapacityFacts ==
  ASSUME TableIInv
  PROVE  \E n \in Nat :
           /\ n >= 2 /\ n <= MaxCapacity
           /\ n >= HASHMAP_INITIAL_CAPACITY
           /\ entries \in Slots(n) /\ Capacity(entries) = n
           /\ size < n /\ size \in Nat
           /\ Occupied(entries) # DOMAIN entries
<1>1. PICK n \in HASHMAP_INITIAL_CAPACITY..MaxCapacity : entries \in Slots(n)
  BY DEF TableIInv, TypeOK
<1>2. n \in Nat /\ n >= 2 /\ n <= MaxCapacity /\ n >= HASHMAP_INITIAL_CAPACITY
  BY HashMapAssumption
<1>3. Capacity(entries) = n
  BY <1>1, <1>2, TableFacts
<1>4. size \in Nat
  BY HashMapAssumption DEF TableIInv, TypeOK
<1>5. size < n
  <2>1. CASE Idle
    BY <1>2, <1>3, <1>4, <2>1, ThresholdFacts DEF TableIInv, Load
  <2>2. CASE ~Idle
    <3>1. PICK k \in 0..MaxCapacity : old \in Slots(k)
      BY DEF TableIInv, TypeOK
    <3>2. k \in Nat /\ Capacity(old) = k
      BY <3>1, TableFacts, HashMapAssumption
    <3> QED BY <1>2, <1>3, <1>4, <2>2, <3>2, HashMapAssumption
            DEF TableIInv, Load, TypeOK
  <2> QED BY <2>1, <2>2
<1>6. Occupied(entries) # DOMAIN entries
  BY <1>1, <1>2, <1>5, TableFacts DEF TableIInv, SizeIsCount, Count
<1> QED BY <1>1, <1>2, <1>3, <1>4, <1>5, <1>6

(* A program starts with an empty table. *)
LEMMA InitTable == Init => TableIInv
<1> SUFFICES ASSUME Init PROVE TableIInv
  OBVIOUS
<1> DEFINE n == HASHMAP_INITIAL_CAPACITY
<1>1. n \in Nat /\ n >= 2 /\ MaxCapacity \in Nat /\ n <= MaxCapacity /\ MaxAppends \in Nat
  BY HashMapAssumption
<1>2. entries \in Slots(n) /\ Occupied(entries) = {} /\ Capacity(entries) = n
  BY <1>1, EmptyTableFacts, TableFacts DEF Init
<1>3. NoTable \in Slots(0)
  BY EmptyTableFacts DEF NoTable
<1>4. Nothing \in [key : Strings \cup {None}, value : Values \cup {None}]
  BY DEF Nothing
<1>5. TypeOK
  <2>1. \E m \in n..MaxCapacity : entries \in Slots(m)
    BY <1>1, <1>2
  <2>2. \E m \in 0..MaxCapacity : old \in Slots(m)
    BY <1>1, <1>3 DEF Init
  <2> QED BY <1>1, <1>4, <2>1, <2>2 DEF Init, TypeOK
<1>6. SizeIsCount
  BY <1>2, FS_EmptySet DEF Init, SizeIsCount, Count
<1>7. Load
  BY <1>1, <1>2, ThresholdFacts DEF Init, Load, Idle
<1> QED BY <1>5, <1>6, <1>7 DEF TableIInv

(* A set without growth. *)
LEMMA SetInPlaceStep ==
  ASSUME TableIInv, NEW s \in Strings, NEW v \in Values, SetInPlace(s, v)
  PROVE  TableIInv'
<1>1. PICK n \in Nat :
        /\ n >= 2 /\ n <= MaxCapacity /\ n >= HASHMAP_INITIAL_CAPACITY
        /\ entries \in Slots(n) /\ Capacity(entries) = n
        /\ size < n /\ size \in Nat /\ Occupied(entries) # DOMAIN entries
  BY CapacityFacts
<1>2. /\ entries' \in Slots(n) /\ SizeIsCount'
      /\ size' \in Nat /\ size' <= size + 1
  BY <1>1, InsertFacts DEF SetInPlace, TableIInv, TypeOK
<1>3. Capacity(entries') = n
  BY <1>2, TableFacts
<1>4. size < Threshold(n) /\ Threshold(n) \in Nat /\ Threshold(n) < n
  BY <1>1, ThresholdFacts DEF SetInPlace, Full
<1>5. Idle /\ Idle'
  BY DEF SetInPlace, Idle
<1>6. Load'
  BY <1>1, <1>2, <1>3, <1>4, <1>5 DEF Load
<1>7. TypeOK'
  <2>1. \E m \in HASHMAP_INITIAL_CAPACITY..MaxCapacity : entries' \in Slots(m)
    BY <1>1, <1>2, HashMapAssumption
  <2>2. size' \in 0..MaxCapacity
    BY <1>1, <1>2, HashMapAssumption
  <2> QED BY <2>1, <2>2 DEF TableIInv, TypeOK, SetInPlace
<1> QED BY <1>2, <1>6, <1>7 DEF TableIInv

(* The beginning of a growth. *)
LEMMA SetGrowStep ==
  ASSUME TableIInv, NEW s \in Strings, NEW v \in Values, SetGrow(s, v)
  PROVE  TableIInv'
<1>1. PICK n \in Nat :
        /\ n >= 2 /\ n <= MaxCapacity /\ n >= HASHMAP_INITIAL_CAPACITY
        /\ entries \in Slots(n) /\ Capacity(entries) = n
  BY CapacityFacts
<1>2. /\ entries' \in Slots(2 * n) /\ Occupied(entries') = {}
      /\ Capacity(entries') = 2 * n /\ 2 * n <= MaxCapacity
  BY <1>1, EmptyTableFacts, TableFacts DEF SetGrow
<1>3. old' \in Slots(n) /\ Capacity(old') = n /\ at' = 0 /\ size' = 0
  BY <1>1 DEF SetGrow
<1>4. wants' = [key |-> s, value |-> v] /\ wants' # Nothing
  BY HashMapAssumption DEF SetGrow, Nothing
<1>5. Load'
  BY <1>1, <1>2, <1>3, <1>4 DEF Load, Idle
<1>6. SizeIsCount'
  BY <1>2, <1>3, FS_EmptySet DEF SizeIsCount, Count
<1>7. TypeOK'
  <2>1. \E m \in HASHMAP_INITIAL_CAPACITY..MaxCapacity : entries' \in Slots(m)
    <3>1. 2 * n \in HASHMAP_INITIAL_CAPACITY..MaxCapacity
      BY <1>1, <1>2, HashMapAssumption
    <3> QED BY <1>2, <3>1
  <2>2. \E m \in 0..MaxCapacity : old' \in Slots(m)
    BY <1>1, <1>3, HashMapAssumption
  <2>3. UNCHANGED <<appends, keysFixed, holds>>
    BY DEF SetGrow
  <2> QED BY <1>3, <1>4, <2>1, <2>2, <2>3, HashMapAssumption DEF TableIInv, TypeOK
<1> QED BY <1>5, <1>6, <1>7 DEF TableIInv

(* One slot of the old table is done: at most one more is occupied. *)
LEMMA MoveStep ==
  ASSUME TableIInv, Move
  PROVE  TableIInv'
<1>1. PICK n \in Nat :
        /\ n >= 2 /\ n <= MaxCapacity /\ n >= HASHMAP_INITIAL_CAPACITY
        /\ entries \in Slots(n) /\ Capacity(entries) = n
        /\ size < n /\ size \in Nat /\ Occupied(entries) # DOMAIN entries
  BY CapacityFacts
<1>2. PICK k \in 0..MaxCapacity : old \in Slots(k)
  BY DEF TableIInv, TypeOK
<1>3. k \in Nat /\ Capacity(old) = k /\ DOMAIN old = 0..k - 1
  BY <1>2, TableFacts, HashMapAssumption
<1>4. /\ at \in Nat /\ at < k /\ size <= at /\ n = 2 * k
      /\ ~Idle /\ k >= HASHMAP_INITIAL_CAPACITY
  BY <1>1, <1>3, HashMapAssumption DEF Move, MovedAll, TableIInv, Load, TypeOK
<1>5. at' = at + 1 /\ UNCHANGED <<appends, keysFixed, holds, old, wants>>
  BY DEF Move
<1>6. /\ entries' \in Slots(n) /\ SizeIsCount'
      /\ size' \in Nat /\ size' <= size + 1
  <2>1. CASE old[at].key = None
    <3>1. UNCHANGED <<entries, size>>
      BY <2>1 DEF Move
    <3> QED BY <1>1, <3>1 DEF TableIInv, SizeIsCount, Count, Occupied
  <2>2. CASE old[at].key # None
    <3>1. Insert(old[at].key, old[at].value)
      BY <2>2 DEF Move
    <3>2. old[at].key \in Strings /\ old[at].value \in Values \cup {None}
      BY <1>2, <1>4, <2>2 DEF Slots
    <3> QED BY <1>1, <3>1, <3>2, InsertFacts DEF TableIInv, TypeOK
  <2> QED BY <2>1, <2>2
<1>7. Capacity(entries') = n
  BY <1>6, TableFacts
<1>8. Load'
  BY <1>1, <1>3, <1>4, <1>5, <1>6, <1>7 DEF Load, Idle, TableIInv
<1>9. TypeOK'
  <2>1. \E m \in HASHMAP_INITIAL_CAPACITY..MaxCapacity : entries' \in Slots(m)
    BY <1>1, <1>6, HashMapAssumption
  <2>2. size' \in 0..MaxCapacity /\ at' \in 0..MaxCapacity
    BY <1>1, <1>4, <1>5, <1>6, HashMapAssumption
  <2> QED BY <1>5, <2>1, <2>2 DEF TableIInv, TypeOK
<1> QED BY <1>6, <1>8, <1>9 DEF TableIInv

(* The growth is over, and the association that caused it goes in. *)
LEMMA SetAfterGrowStep ==
  ASSUME TableIInv, SetAfterGrow
  PROVE  TableIInv'
<1>1. PICK n \in Nat :
        /\ n >= 2 /\ n <= MaxCapacity /\ n >= HASHMAP_INITIAL_CAPACITY
        /\ entries \in Slots(n) /\ Capacity(entries) = n
        /\ size < n /\ size \in Nat /\ Occupied(entries) # DOMAIN entries
  BY CapacityFacts
<1>2. PICK k \in 0..MaxCapacity : old \in Slots(k)
  BY DEF TableIInv, TypeOK
<1>3. k \in Nat /\ Capacity(old) = k
  BY <1>2, TableFacts, HashMapAssumption
<1>4. /\ size <= k /\ n = 2 * k /\ k >= 2
      /\ wants.key \in Strings /\ wants.value \in Values
  BY <1>1, <1>3, HashMapAssumption DEF SetAfterGrow, MovedAll, TableIInv, Load, TypeOK
<1>5. /\ entries' \in Slots(n) /\ SizeIsCount'
      /\ size' \in Nat /\ size' <= size + 1
  BY <1>1, <1>4, InsertFacts DEF SetAfterGrow, TableIInv, TypeOK
<1>6. Capacity(entries') = n
  BY <1>5, TableFacts
<1>7. Threshold(n) \in Nat /\ Threshold(n) < n /\ Threshold(n) > k
  BY <1>1, <1>3, <1>4, ThresholdFacts
<1>8. Idle' /\ wants' = Nothing /\ at' = 0 /\ old' = NoTable
  BY DEF SetAfterGrow, Idle
<1>9. Load'
  <2>1. size \in Nat /\ size' <= Threshold(n)
    BY <1>1, <1>3, <1>4, <1>5, <1>7
  <2> QED BY <1>6, <1>8, <2>1 DEF Load
<1>10. TypeOK'
  <2>1. \E m \in HASHMAP_INITIAL_CAPACITY..MaxCapacity : entries' \in Slots(m)
    BY <1>1, <1>5, HashMapAssumption
  <2>2. \E m \in 0..MaxCapacity : old' \in Slots(m)
    BY <1>8, EmptyTableFacts, HashMapAssumption DEF NoTable
  <2>3. size' \in 0..MaxCapacity /\ at' \in 0..MaxCapacity
    BY <1>1, <1>3, <1>4, <1>5, <1>8, HashMapAssumption
  <2>4. wants' \in [key : Strings \cup {None}, value : Values \cup {None}]
    BY <1>8 DEF Nothing
  <2>5. UNCHANGED <<appends, keysFixed, holds>>
    BY DEF SetAfterGrow
  <2> QED BY <2>1, <2>2, <2>3, <2>4, <2>5 DEF TableIInv, TypeOK
<1> QED BY <1>5, <1>9, <1>10 DEF TableIInv

(* A string changes: keys may, slots and the count do not. *)
LEMMA AppendStep ==
  ASSUME TableIInv, NEW s \in Strings, NEW c \in Contents, StringAppend(s, c)
  PROVE  TableIInv'
<1>1. /\ appends' \in 0..MaxAppends /\ holds' \in [Strings -> Contents]
      /\ UNCHANGED <<keysFixed, entries, size, old, at, wants>>
  BY HashMapAssumption DEF StringAppend, TableIInv, TypeOK
<1>2. TypeOK'
  BY <1>1 DEF TableIInv, TypeOK
<1>3. SizeIsCount' /\ Load'
  BY <1>1 DEF TableIInv, SizeIsCount, Count, Occupied, Load, Idle, Capacity
<1> QED BY <1>2, <1>3 DEF TableIInv

(* Every step keeps the inductive invariant. *)
LEMMA NextTable == TableIInv /\ [Next]_vars => TableIInv'
<1> SUFFICES ASSUME TableIInv, [Next]_vars PROVE TableIInv'
  OBVIOUS
<1>1. ASSUME NEW s \in Strings, NEW v \in Values, SetInPlace(s, v) PROVE TableIInv'
  BY <1>1, SetInPlaceStep
<1>2. ASSUME NEW s \in Strings, NEW v \in Values, SetGrow(s, v) PROVE TableIInv'
  BY <1>2, SetGrowStep
<1>3. CASE Move
  BY <1>3, MoveStep
<1>4. CASE SetAfterGrow
  BY <1>4, SetAfterGrowStep
<1>5. ASSUME NEW s \in Strings, NEW c \in Contents, StringAppend(s, c) PROVE TableIInv'
  BY <1>5, AppendStep
<1>6. CASE UNCHANGED vars
  BY <1>6 DEF vars, TableIInv, TypeOK, SizeIsCount, Count, Occupied, Load, Idle, Capacity
<1> QED BY <1>1, <1>2, <1>3, <1>4, <1>5, <1>6 DEF Next

-----------------------------------------------------------------------------
(* Theorems *)

(* The inductive invariant of hashmap.c's table holds in every state. *)
THEOREM Loaded == Spec => []TableIInv
  BY InitTable, NextTable, PTL DEF Spec

(* The table never fills up, the count is the number of occupied slots, and a
   growth asks for no other growth (ts_hashmap_set, ts_hashmap_resize). *)
THEOREM TableSafe == Spec => []TableInv
<1>1. TableIInv => TableInv
  <2> SUFFICES ASSUME TableIInv PROVE TableInv
    OBVIOUS
  <2>1. FreeSlotLeft
    BY CapacityFacts DEF FreeSlotLeft
  <2>2. ASSUME ~Idle PROVE ~Full
    <3>1. PICK k \in 0..MaxCapacity : old \in Slots(k)
      BY DEF TableIInv, TypeOK
    <3>2. k \in Nat /\ Capacity(old) = k
      BY <3>1, TableFacts, HashMapAssumption
    <3>3. k >= 2 /\ size <= k /\ Capacity(entries) = 2 * k /\ size \in Nat
      BY <2>2, <3>2, HashMapAssumption DEF TableIInv, Load, TypeOK
    <3>4. Threshold(2 * k) > k /\ Threshold(2 * k) \in Nat
      BY <3>2, <3>3, ThresholdFacts
    <3> QED BY <3>2, <3>3, <3>4 DEF Full
  <2> QED BY <2>1, <2>2 DEF TableInv, TableIInv, ResizeDoesNotNest
<1> QED BY <1>1, Loaded, PTL

(* Every lookup ends, at a free slot or at one whose key has the content it
   looks for: the loops of ts_hashmap_set, _get and _has do not run for ever. *)
ProbesStop ==
  \A c \in Contents :
    LET i == ProbeEnd(entries, c)
    IN i \in DOMAIN entries /\ (entries[i].key = None \/ holds[entries[i].key] = c)

(* The probes of ts_hashmap_set, _get and _has end, whatever they look for, at a
   free slot or at a key with that content. *)
THEOREM ProbingEnds == Spec => []ProbesStop
<1>1. TableIInv => ProbesStop
  <2> SUFFICES ASSUME TableIInv, NEW c \in Contents
               PROVE  LET i == ProbeEnd(entries, c)
                      IN /\ i \in DOMAIN entries
                         /\ entries[i].key = None \/ holds[entries[i].key] = c
    BY DEF ProbesStop
  <2>1. PICK n \in Nat : /\ n >= 2 /\ entries \in Slots(n)
                         /\ Occupied(entries) # DOMAIN entries
    BY CapacityFacts
  <2>2. DOMAIN entries = 0..n - 1
    BY <2>1, TableFacts
  <2> QED BY <2>1, <2>2, ProbeEndFacts
<1> QED BY <1>1, Loaded, PTL

-----------------------------------------------------------------------------
(* The finite map *)

Moved(h, t, o, a) ==
  \A c \in Contents : AnswerOf(h, t, c) = IF EndOf(h, o, c) < a THEN AnswerOf(h, o, c) ELSE None

Mapped(fixed, h, t, o, a, idle) ==
  /\ fixed => Placed(h, t)
  /\ ~idle => Occupied(o) # DOMAIN o
  /\ fixed /\ ~idle => Placed(h, o) /\ Moved(h, t, o, a)

AnswersOf(fixed, h, t) == [c \in Contents |-> IF fixed THEN AnswerOf(h, t, c) ELSE None]

HasRoom(t) == \E n \in Nat : n >= 2 /\ t \in Slots(n) /\ Occupied(t) # DOMAIN t

(* The inductive invariant and the refinement mapping, before and after a step, as
   functions of what they depend on. *)
LEMMA Unfolded ==
  /\ MapIInv <=> TableIInv /\ Mapped(keysFixed, holds, entries, old, at, Idle)
  /\ MapIInv' <=> TableIInv' /\ Mapped(keysFixed', holds', entries', old', at', Idle')
  /\ Answers = AnswersOf(keysFixed, holds, IF Idle THEN entries ELSE old)
  /\ Answers' = AnswersOf(keysFixed', holds', IF Idle' THEN entries' ELSE old')
<1>1. \A t, c : ProbeEnd(t, c) = EndOf(holds, t, c)
  BY DEF ProbeEnd, Stops, EndOf, StopsAt
<1>2. /\ \A c : Answer(entries, c) = AnswerOf(holds, entries, c)
      /\ \A c : Answer(old, c) = AnswerOf(holds, old, c)
      /\ \A c : ProbeEnd(old, c) = EndOf(holds, old, c)
      /\ Located(entries) <=> Placed(holds, entries)
      /\ Located(old) <=> Placed(holds, old)
  BY <1>1 DEF Answer, Has, Get, AnswerOf, Located, Placed
<1>3. /\ \A c : Answer(entries, c)' = AnswerOf(holds', entries', c)
      /\ \A c : Answer(old, c)' = AnswerOf(holds', old', c)
      /\ \A c : ProbeEnd(old, c)' = EndOf(holds', old', c)
      /\ Located(entries)' <=> Placed(holds', entries')
      /\ Located(old)' <=> Placed(holds', old')
  BY DEF ProbeEnd, Stops, EndOf, StopsAt, Answer, Has, Get, AnswerOf, Located, Placed
<1>4. MovedSoFar <=> Moved(holds, entries, old, at)
  BY <1>2 DEF MovedSoFar, Moved
<1>5. MovedSoFar' <=> Moved(holds', entries', old', at')
  BY <1>3 DEF MovedSoFar, Moved
<1>6. MapIInv <=> TableIInv /\ Mapped(keysFixed, holds, entries, old, at, Idle)
  BY <1>2, <1>4 DEF MapIInv, Mapped
<1>7. MapIInv' <=> TableIInv' /\ Mapped(keysFixed', holds', entries', old', at', Idle')
  BY <1>3, <1>5 DEF MapIInv, Mapped
<1>8. Answers = AnswersOf(keysFixed, holds, IF Idle THEN entries ELSE old)
  BY <1>2 DEF Answers, AnswersOf
<1>9. Answers' = AnswersOf(keysFixed', holds', IF Idle' THEN entries' ELSE old')
  BY <1>3 DEF Answers, AnswersOf
<1> QED BY <1>6, <1>7, <1>8, <1>9

(* There is always a free slot. *)
Roomy == HasRoom(entries)

(* There is room now, *)
LEMMA RoomyNow == TableIInv => Roomy
  BY CapacityFacts DEF Roomy, HasRoom

(* and after a step. *)
LEMMA Room ==
  /\ TableIInv => HasRoom(entries)
  /\ TableIInv' => HasRoom(entries')
<1>1. TableIInv' => Roomy'
  BY RoomyNow, PTL
<1> QED BY <1>1, RoomyNow DEF Roomy

(* set, in a table that answers for itself: the association is put into the map. *)
LEMMA InsertAnswers ==
  ASSUME keysFixed, TypeOK, HasRoom(entries), HasRoom(entries'), Placed(holds, entries),
         NEW s \in Strings, NEW v \in Values \cup {None}, Insert(s, v)
  PROVE  /\ Placed(holds, entries')
         /\ AnswerOf(holds, entries', holds[s]) = v
         /\ \A c \in Contents \ {holds[s]} :
              AnswerOf(holds, entries', c) = AnswerOf(holds, entries, c)
<1> DEFINE i == EndOf(holds, entries, holds[s])
<1>1. ProbeEnd(entries, holds[s]) = i
  BY DEF ProbeEnd, Stops, EndOf, StopsAt
<1>2. entries' = Stored(entries, i, s, v)
  BY <1>1 DEF Insert, Stored
<1>3. PICK n \in Nat : n >= 2 /\ entries \in Slots(n) /\ Occupied(entries) # DOMAIN entries
  BY DEF HasRoom
<1>4. Occupied(entries') # DOMAIN entries'
  BY DEF HasRoom
<1>5. holds \in [Strings -> Contents]
  BY DEF TypeOK
<1> HIDE DEF i
<1>6. i = EndOf(holds, entries, holds[s])
  BY DEF i
<1>7. Occupied(Stored(entries, i, s, v)) # DOMAIN Stored(entries, i, s, v)
  BY <1>2, <1>4
<1> QED BY <1>2, <1>3, <1>5, <1>6, <1>7, StoreAnswers

Puts(a, b, c, v) == b = [a EXCEPT ![c] = v]

(* The map with one content answered anew. *)
LEMMA PutAnswers ==
  ASSUME NEW h, NEW t, NEW u, NEW c0 \in Contents, NEW v,
         AnswerOf(h, u, c0) = v,
         \A c \in Contents \ {c0} : AnswerOf(h, u, c) = AnswerOf(h, t, c)
  PROVE  Puts(AnswersOf(TRUE, h, t), AnswersOf(TRUE, h, u), c0, v)
  BY DEF Puts, AnswersOf

(* What a step must show: the inductive invariant again, and one put or none. *)
Refines ==
  /\ MapIInv'
  /\ \/ UNCHANGED Answers
     \/ \E c \in Contents, v \in Values : Map!Put(c, v)

(* A set without growth. *)
LEMMA SetInPlaceMaps ==
  ASSUME MapIInv, TableIInv', NEW s \in Strings, NEW v \in Values, SetInPlace(s, v)
  PROVE  Refines
<1>1. Idle /\ Idle' /\ holds' = holds /\ keysFixed' = keysFixed /\ Insert(s, v)
  BY DEF SetInPlace, Idle
<1>2. TableIInv /\ TypeOK /\ holds[s] \in Contents /\ keysFixed \in BOOLEAN
  BY DEF MapIInv, TableIInv, TypeOK
<1>3. Answers = AnswersOf(keysFixed, holds, entries) /\ Answers' = AnswersOf(keysFixed, holds, entries')
  BY <1>1, Unfolded
<1>4. CASE keysFixed
  <2>1. Placed(holds, entries)
    BY <1>4, Unfolded DEF Mapped
  <2>2. /\ Placed(holds, entries')
        /\ AnswerOf(holds, entries', holds[s]) = v
        /\ \A c \in Contents \ {holds[s]} :
             AnswerOf(holds, entries', c) = AnswerOf(holds, entries, c)
    BY <1>1, <1>2, <1>4, <2>1, Room, InsertAnswers
  <2>3. MapIInv'
    BY <1>1, <2>2, Unfolded DEF Mapped
  <2>4. keysFixed = TRUE
    BY <1>2, <1>4
  <2>5. Puts(Answers, Answers', holds[s], v)
    BY <1>2, <1>3, <2>2, <2>4, PutAnswers
  <2> QED BY <1>2, <2>3, <2>5 DEF Refines, Puts, Map!Put
<1>5. CASE ~keysFixed
  <2>1. MapIInv'
    BY <1>1, <1>5, Unfolded DEF Mapped
  <2>2. Answers' = Answers
    BY <1>3, <1>5 DEF AnswersOf
  <2> QED BY <2>1, <2>2 DEF Refines
<1> QED BY <1>4, <1>5

(* The beginning of a growth: the old table answers. *)
LEMMA SetGrowMaps ==
  ASSUME MapIInv, TableIInv', NEW s \in Strings, NEW v \in Values, SetGrow(s, v)
  PROVE  Refines
<1>1. /\ Idle /\ ~Idle' /\ holds' = holds /\ keysFixed' = keysFixed
      /\ old' = entries /\ at' = 0 /\ entries' = EmptyTable(2 * Capacity(entries))
  BY HashMapAssumption DEF SetGrow, Idle, Nothing
<1>2. PICK n \in Nat : n >= 2 /\ entries \in Slots(n) /\ Occupied(entries) # DOMAIN entries
  BY Room DEF MapIInv, HasRoom
<1>3. Occupied(entries') = {} /\ entries' \in Slots(2 * n)
  BY <1>1, <1>2, TableFacts, EmptyTableFacts
<1>4. UNCHANGED Answers
  BY <1>1, Unfolded
<1>5. ASSUME keysFixed
      PROVE  Placed(holds, entries') /\ Placed(holds, entries) /\ Moved(holds, entries', entries, 0)
  <2>1. Placed(holds, entries)
    BY <1>5, Unfolded DEF Mapped
  <2>2. Placed(holds, entries')
    BY <1>3 DEF Placed
  <2>3. ASSUME NEW c \in Contents
        PROVE  AnswerOf(holds, entries', c) = None /\ ~(EndOf(holds, entries, c) < 0)
    <3>1. holds \in [Strings -> Contents]
      BY DEF MapIInv, TableIInv, TypeOK
    <3>2. 2 * n \in Nat /\ 2 * n > 0
      BY <1>2
    <3>3. Occupied(entries') # DOMAIN entries'
      BY <1>3, Room DEF HasRoom
    <3>4. AnswerOf(holds, entries', c) = None
      BY <1>3, <2>2, <3>1, <3>2, <3>3, AnswerFacts
    <3>5. EndOf(holds, entries, c) \in 0..n - 1
      BY <1>2, EndFacts
    <3> QED BY <3>4, <3>5
  <2> QED BY <2>1, <2>2, <2>3 DEF Moved
<1>6. MapIInv'
  BY <1>1, <1>2, <1>5, Unfolded DEF Mapped
<1> QED BY <1>4, <1>6 DEF Refines

(* One slot of the old table is done: the new one answers what it held. *)
LEMMA MoveMaps ==
  ASSUME MapIInv, TableIInv', Move
  PROVE  Refines
<1>1. /\ ~Idle /\ ~Idle' /\ holds' = holds /\ keysFixed' = keysFixed
      /\ old' = old /\ at' = at + 1
  BY DEF Move, Idle
<1>2. TableIInv /\ TypeOK /\ HasRoom(entries) /\ HasRoom(entries')
  BY Room DEF MapIInv, TableIInv
<1>3. PICK k \in 0..MaxCapacity : old \in Slots(k)
  BY <1>2 DEF TypeOK
<1>4. /\ k \in Nat /\ k > 0 /\ at \in 0..k - 1 /\ DOMAIN old = 0..k - 1
      /\ Occupied(old) # DOMAIN old /\ holds \in [Strings -> Contents]
  <2>1. k \in Nat /\ at \in Nat /\ holds \in [Strings -> Contents]
    BY <1>2, HashMapAssumption DEF TypeOK
  <2>2. Capacity(old) = k /\ DOMAIN old = 0..k - 1
    BY <1>3, <2>1, TableFacts
  <2>3. at <= k /\ at # k
    BY <1>1, <1>2, <2>2 DEF Move, MovedAll, TableIInv, Load
  <2>4. Occupied(old) # DOMAIN old
    BY <1>1 DEF MapIInv
  <2> QED BY <2>1, <2>2, <2>3, <2>4
<1>5. Answers' = Answers
  BY <1>1, Unfolded
<1>6. ASSUME keysFixed
      PROVE  Placed(holds, entries') /\ Placed(holds, old) /\ Moved(holds, entries', old, at + 1)
  <2>1. Placed(holds, entries) /\ Placed(holds, old) /\ Moved(holds, entries, old, at)
    BY <1>1, <1>6, Unfolded DEF Mapped
  <2>2. \A c \in Contents : EndOf(holds, old, c) \in 0..k - 1
    BY <1>3, <1>4, EndFacts
  <2>3. \A c \in Contents :
          EndOf(holds, old, c) = at => old[at].key = None \/ holds[old[at].key] = c
    <3> TAKE c \in Contents
    <3>1. PICK d \in 0..k - 1 : /\ StopsAt(holds, old, c, d)
                                /\ EndOf(holds, old, c) = Probe(old, c, d)
      BY <1>3, <1>4, EndFacts
    <3> QED BY <3>1 DEF StopsAt
  <2>4. CASE old[at].key = None
    <3>1. entries' = entries
      BY <2>4 DEF Move
    <3>2. \A c \in Contents : EndOf(holds, old, c) = at => AnswerOf(holds, old, c) = None
      BY <2>4 DEF AnswerOf
    <3>3. \A c \in Contents :
            EndOf(holds, old, c) < at + 1 <=> EndOf(holds, old, c) < at \/ EndOf(holds, old, c) = at
      BY <1>4, <2>2
    <3>4. \A c \in Contents : EndOf(holds, old, c) = at => ~(EndOf(holds, old, c) < at)
      BY <1>4, <2>2
    <3>5. Moved(holds, entries, old, at + 1)
      BY <2>1, <3>2, <3>3, <3>4 DEF Moved
    <3> QED BY <2>1, <3>1, <3>5
  <2>5. CASE old[at].key # None
    <3> DEFINE s == old[at].key
               v == old[at].value
               c0 == holds[s]
    <3>1. s \in Strings /\ v \in Values \cup {None}
      BY <1>3, <1>4, <2>5 DEF Slots
    <3>2. c0 \in Contents
      BY <1>4, <3>1
    <3>3. Insert(s, v)
      BY <2>5 DEF Move
    <3>4. at \in Occupied(old)
      BY <1>4, <2>5 DEF Occupied
    <3>5. EndOf(holds, old, c0) = at /\ AnswerOf(holds, old, c0) = v
      BY <2>1, <2>5, <3>4 DEF Placed, AnswerOf
    <3> HIDE DEF s, v
    <3>6. /\ Placed(holds, entries')
          /\ AnswerOf(holds, entries', c0) = v
          /\ \A c \in Contents \ {c0} :
               AnswerOf(holds, entries', c) = AnswerOf(holds, entries, c)
      BY <1>2, <1>6, <2>1, <3>1, <3>3, InsertAnswers
    <3>7. \A c \in Contents \ {c0} : EndOf(holds, old, c) # at
      BY <2>3, <2>5 DEF s
    <3> HIDE DEF c0
    <3>8. ASSUME NEW c \in Contents
          PROVE  AnswerOf(holds, entries', c)
                   = IF EndOf(holds, old, c) < at + 1 THEN AnswerOf(holds, old, c) ELSE None
      <4>1. CASE c = c0
        <5>1. EndOf(holds, old, c) < at + 1
          BY <1>4, <3>5, <4>1
        <5> QED BY <3>5, <3>6, <4>1, <5>1
      <4>2. CASE c # c0
        <5>1. EndOf(holds, old, c) < at + 1 <=> EndOf(holds, old, c) < at
          BY <1>4, <2>2, <3>7, <4>2
        <5>2. AnswerOf(holds, entries, c)
                = IF EndOf(holds, old, c) < at THEN AnswerOf(holds, old, c) ELSE None
          BY <2>1 DEF Moved
        <5>3. AnswerOf(holds, entries', c) = AnswerOf(holds, entries, c)
          BY <3>6, <4>2
        <5> QED BY <5>1, <5>2, <5>3
      <4> QED BY <4>1, <4>2
    <3> QED BY <2>1, <3>6, <3>8 DEF Moved
  <2> QED BY <2>4, <2>5
<1>7. MapIInv'
  BY <1>1, <1>4, <1>6, Unfolded DEF Mapped
<1> QED BY <1>5, <1>7 DEF Refines

(* The growth is over: the new table has all of the old one, and the association that
   caused the growth is put into it. *)
LEMMA SetAfterGrowMaps ==
  ASSUME MapIInv, TableIInv', SetAfterGrow
  PROVE  Refines
<1>1. /\ ~Idle /\ Idle' /\ holds' = holds /\ keysFixed' = keysFixed
      /\ Insert(wants.key, wants.value)
  BY DEF SetAfterGrow, Idle
<1>2. TableIInv /\ TypeOK /\ HasRoom(entries) /\ HasRoom(entries')
  BY Room DEF MapIInv, TableIInv
<1>3. /\ wants.key \in Strings /\ wants.value \in Values /\ holds[wants.key] \in Contents
      /\ keysFixed \in BOOLEAN
  BY <1>1, <1>2 DEF TableIInv, Load, TypeOK
<1>4. Answers = AnswersOf(keysFixed, holds, old) /\ Answers' = AnswersOf(keysFixed, holds, entries')
  BY <1>1, Unfolded
<1>5. CASE keysFixed
  <2>1. Placed(holds, entries) /\ Placed(holds, old) /\ Moved(holds, entries, old, at)
    BY <1>1, <1>5, Unfolded DEF Mapped
  <2>2. PICK k \in 0..MaxCapacity : old \in Slots(k)
    BY <1>2 DEF TypeOK
  <2>3. k \in Nat /\ k > 0 /\ at = k /\ Occupied(old) # DOMAIN old
    <3>1. k \in Nat
      BY HashMapAssumption
    <3>2. Capacity(old) = k
      BY <2>2, <3>1, TableFacts
    <3>3. k >= HASHMAP_INITIAL_CAPACITY
      BY <1>1, <1>2, <3>2 DEF TableIInv, Load
    <3>4. Occupied(old) # DOMAIN old
      BY <1>1 DEF MapIInv
    <3> QED BY <3>1, <3>2, <3>3, <3>4, HashMapAssumption DEF SetAfterGrow, MovedAll
  <2>4. \A c \in Contents : AnswerOf(holds, entries, c) = AnswerOf(holds, old, c)
    <3> TAKE c \in Contents
    <3>1. EndOf(holds, old, c) \in 0..k - 1
      BY <2>2, <2>3, EndFacts
    <3>2. EndOf(holds, old, c) < at
      BY <2>3, <3>1
    <3> QED BY <2>1, <3>2 DEF Moved
  <2>5. /\ Placed(holds, entries')
        /\ AnswerOf(holds, entries', holds[wants.key]) = wants.value
        /\ \A c \in Contents \ {holds[wants.key]} :
             AnswerOf(holds, entries', c) = AnswerOf(holds, entries, c)
    BY <1>1, <1>2, <1>3, <1>5, <2>1, InsertAnswers
  <2>6. MapIInv'
    BY <1>1, <2>5, Unfolded DEF Mapped
  <2>7. keysFixed = TRUE
    BY <1>3, <1>5
  <2>8. Puts(Answers, Answers', holds[wants.key], wants.value)
    BY <1>3, <1>4, <2>4, <2>5, <2>7, PutAnswers
  <2> QED BY <1>3, <2>6, <2>8 DEF Refines, Puts, Map!Put
<1>6. CASE ~keysFixed
  <2>1. MapIInv'
    BY <1>1, <1>6, Unfolded DEF Mapped
  <2>2. Answers' = Answers
    BY <1>4, <1>6 DEF AnswersOf
  <2> QED BY <2>1, <2>2 DEF Refines
<1> QED BY <1>5, <1>6

(* A string changes that is no key, or the program is one that changes its keys. *)
LEMMA AppendMaps ==
  ASSUME MapIInv, TableIInv', NEW s \in Strings, NEW c \in Contents, StringAppend(s, c)
  PROVE  Refines
<1>1. /\ Idle /\ Idle' /\ keysFixed' = keysFixed /\ entries' = entries
      /\ holds' = [holds EXCEPT ![s] = c]
  BY DEF StringAppend, Idle
<1>2. Answers = AnswersOf(keysFixed, holds, entries) /\ Answers' = AnswersOf(keysFixed, holds', entries)
  BY <1>1, Unfolded
<1>3. CASE keysFixed
  <2>1. PICK n \in Nat : n >= 2 /\ entries \in Slots(n) /\ Occupied(entries) # DOMAIN entries
    BY Room DEF MapIInv, HasRoom
  <2>2. \A i \in Occupied(entries) : entries[i].key \in Strings /\ entries[i].key # s
    BY <1>3, <2>1 DEF StringAppend, IsKey, Occupied, Slots
  <2>3. \A i \in Occupied(entries) : holds'[entries[i].key] = holds[entries[i].key]
    BY <1>1, <2>2 DEF MapIInv, TableIInv, TypeOK
  <2>4. \A b \in Contents : /\ EndOf(holds', entries, b) = EndOf(holds, entries, b)
                            /\ AnswerOf(holds', entries, b) = AnswerOf(holds, entries, b)
    BY <2>1, <2>3, RenameAnswers
  <2>5. Placed(holds, entries)
    BY <1>3, Unfolded DEF Mapped
  <2>6. \A i \in Occupied(entries) : holds[entries[i].key] \in Contents
    BY <2>2 DEF MapIInv, TableIInv, TypeOK
  <2>7. Placed(holds', entries)
    BY <2>3, <2>4, <2>5, <2>6 DEF Placed
  <2>8. MapIInv'
    BY <1>1, <2>7, Unfolded DEF Mapped
  <2>9. UNCHANGED Answers
    BY <1>2, <2>4 DEF AnswersOf
  <2> QED BY <2>8, <2>9 DEF Refines
<1>4. CASE ~keysFixed
  <2>1. MapIInv'
    BY <1>1, <1>4, Unfolded DEF Mapped
  <2>2. UNCHANGED Answers
    BY <1>2, <1>4 DEF AnswersOf
  <2> QED BY <2>1, <2>2 DEF Refines
<1> QED BY <1>3, <1>4

(* A program starts with a map that answers nothing. *)
LEMMA InitMaps == Init => MapIInv /\ Map!Init
<1> SUFFICES ASSUME Init PROVE MapIInv /\ Map!Init
  OBVIOUS
<1>1. TableIInv /\ Idle /\ HasRoom(entries)
  BY InitTable, Room DEF Init, Idle
<1>2. Occupied(entries) = {}
  BY HashMapAssumption, EmptyTableFacts DEF Init
<1>3. Placed(holds, entries)
  BY <1>2 DEF Placed
<1>4. MapIInv
  BY <1>1, <1>3, Unfolded DEF Mapped
<1>5. \A c \in Contents : AnswerOf(holds, entries, c) = None
  <2> TAKE c \in Contents
  <2>1. PICK n \in Nat : n >= 2 /\ entries \in Slots(n) /\ Occupied(entries) # DOMAIN entries
    BY <1>1 DEF HasRoom
  <2>2. holds \in [Strings -> Contents]
    BY DEF Init
  <2> QED BY <1>2, <1>3, <2>1, <2>2, AnswerFacts
<1>6. Answers = [c \in Contents |-> None]
  <2>1. Answers = AnswersOf(keysFixed, holds, entries)
    BY <1>1, Unfolded
  <2> QED BY <1>5, <2>1 DEF AnswersOf
<1> QED BY <1>4, <1>6 DEF Map!Init

(* Every step of the table is one put into the map, or none. *)
LEMMA NextMaps == MapIInv /\ [Next]_vars => MapIInv' /\ [Map!Next]_Answers
<1> SUFFICES ASSUME MapIInv, [Next]_vars PROVE MapIInv' /\ [Map!Next]_Answers
  OBVIOUS
<1>1. TableIInv'
  BY NextTable DEF MapIInv
<1>2. Refines => MapIInv' /\ [Map!Next]_Answers
  BY DEF Refines, Map!Next
<1>3. ASSUME NEW s \in Strings, NEW v \in Values, SetInPlace(s, v) PROVE Refines
  BY <1>1, <1>3, SetInPlaceMaps
<1>4. ASSUME NEW s \in Strings, NEW v \in Values, SetGrow(s, v) PROVE Refines
  BY <1>1, <1>4, SetGrowMaps
<1>5. CASE Move
  BY <1>1, <1>2, <1>5, MoveMaps
<1>6. CASE SetAfterGrow
  BY <1>1, <1>2, <1>6, SetAfterGrowMaps
<1>7. ASSUME NEW s \in Strings, NEW c \in Contents, StringAppend(s, c) PROVE Refines
  BY <1>1, <1>7, AppendMaps
<1>8. CASE UNCHANGED vars
  <2>1. /\ keysFixed' = keysFixed /\ holds' = holds /\ entries' = entries
        /\ old' = old /\ at' = at /\ wants' = wants
    BY <1>8 DEF vars
  <2>2. Idle' = Idle
    BY <2>1 DEF Idle
  <2>3. MapIInv' /\ UNCHANGED Answers
    BY <1>1, <2>1, <2>2, Unfolded, Zenon
  <2> QED BY <2>3
<1> QED BY <1>2, <1>3, <1>4, <1>5, <1>6, <1>7, <1>8 DEF Next

(* Over any sequence of ts_hashmap_set calls, growths included, the table answers like
   a finite map of contents, as long as the program changes no key in place. *)
THEOREM Refinement == Spec => ImplementsMap
  BY InitMaps, NextMaps, PTL DEF Spec, ImplementsMap, Map!Spec

-----------------------------------------------------------------------------
(* The emits in progress *)

Emits(m) ==
  [name : Names, map : 0..m, snap : Seq(Entries), next : Nat \ {0},
   remaining : Seq(Entries), calling : BOOLEAN]

-----------------------------------------------------------------------------
(* Lists *)

(* The entries in a list. *)
LEMMA InFacts ==
  ASSUME NEW list \in Seq(Entries), NEW e \in Entries
  PROVE  /\ In(list) \subseteq Entries
         /\ Append(list, e) \in Seq(Entries) /\ In(Append(list, e)) = In(list) \cup {e}
         /\ <<e>> \o list \in Seq(Entries) /\ In(<<e>> \o list) = In(list) \cup {e}
<1>1. DOMAIN list = 1..Len(list) /\ Len(list) \in Nat
  OBVIOUS
<1>2. /\ Append(list, e) \in Seq(Entries) /\ Len(Append(list, e)) = Len(list) + 1
      /\ \A i \in 1..Len(list) : Append(list, e)[i] = list[i]
      /\ Append(list, e)[Len(list) + 1] = e
  OBVIOUS
<1>3. In(Append(list, e)) = In(list) \cup {e}
  <2>1. DOMAIN Append(list, e) = 1..Len(list) + 1
    BY <1>1, <1>2
  <2>2. \A i \in 1..Len(list) + 1 : i = Len(list) + 1 \/ i \in 1..Len(list)
    BY <1>1
  <2>3. Len(list) + 1 \in 1..Len(list) + 1 /\ \A i \in 1..Len(list) : i \in 1..Len(list) + 1
    BY <1>1
  <2> QED BY <1>1, <1>2, <2>1, <2>2, <2>3 DEF In
<1>4. /\ <<e>> \o list \in Seq(Entries) /\ Len(<<e>> \o list) = Len(list) + 1
      /\ (<<e>> \o list)[1] = e
      /\ \A i \in 1..Len(list) : (<<e>> \o list)[i + 1] = list[i]
  OBVIOUS
<1>5. In(<<e>> \o list) = In(list) \cup {e}
  <2> DEFINE w == <<e>> \o list
  <2>1. DOMAIN w = 1..Len(list) + 1
    BY <1>1, <1>4
  <2>2. w[1] = e /\ \A i \in 1..Len(list) : w[i + 1] = list[i]
    BY <1>4
  <2> HIDE DEF w
  <2>4. 1 \in 1..Len(list) + 1 /\ \A i \in 1..Len(list) : i + 1 \in 1..Len(list) + 1
    BY <1>1
  <2>5. In(w) = In(list) \cup {e}
    <3>1. ASSUME NEW x \in In(w) PROVE x \in In(list) \cup {e}
      <4>1. PICK i \in 1..Len(list) + 1 : x = w[i]
        BY <2>1 DEF In
      <4>2. CASE i # 1
        <5>1. i - 1 \in 1..Len(list) /\ w[i] = list[i - 1]
          <6>1. i - 1 \in 1..Len(list) /\ i = i - 1 + 1
            BY <1>1, <4>2
          <6> DEFINE k == i - 1
          <6> HIDE DEF k
          <6>2. k \in 1..Len(list) /\ i = k + 1
            BY <6>1 DEF k
          <6>3. w[i] = list[k]
            BY <2>2, <6>2
          <6> QED BY <6>1, <6>3 DEF k
        <5> QED BY <1>1, <4>1, <5>1 DEF In
      <4> QED BY <2>2, <4>1, <4>2
    <3>2. ASSUME NEW x \in In(list) PROVE x \in In(w)
      <4>1. PICK i \in 1..Len(list) : x = list[i]
        BY <1>1 DEF In
      <4>2. i + 1 \in DOMAIN w /\ w[i + 1] = x
        BY <2>1, <2>2, <2>4, <4>1
      <4> QED BY <4>2 DEF In
    <3>3. e \in In(w)
      BY <2>1, <2>2, <2>4 DEF In
    <3> QED BY <3>1, <3>2, <3>3
  <2> QED BY <2>5 DEF w
<1>6. In(list) \subseteq Entries
  BY <1>1 DEF In
<1> QED BY <1>2, <1>3, <1>4, <1>5, <1>6

(* Dropping what comes after the first n elements. *)
LEMMA Front ==
  ASSUME NEW S, NEW s \in Seq(S), NEW n \in 0..Len(s)
  PROVE  /\ SubSeq(s, 1, n) \in Seq(S) /\ Len(SubSeq(s, 1, n)) = n
         /\ \A i \in 1..n : SubSeq(s, 1, n)[i] = s[i]
<1>1. n \in Nat /\ n \in Int /\ \A i \in 1..n : s[i] \in S
  OBVIOUS
<1>2. /\ SubSeq(s, 1, n) \in Seq(S)
      /\ Len(SubSeq(s, 1, n)) = IF 1 <= n THEN n - 1 + 1 ELSE 0
      /\ \A i \in 1..n - 1 + 1 : SubSeq(s, 1, n)[i] = s[1 + i - 1]
  BY <1>1, SubSeqProperties
<1>3. 1..n - 1 + 1 = 1..n /\ (IF 1 <= n THEN n - 1 + 1 ELSE 0) = n
  BY <1>1
<1>4. \A i \in 1..n : 1 + i - 1 = i
  OBVIOUS
<1> QED BY <1>2, <1>3, <1>4

(* Dropping the first n elements. *)
LEMMA Rest ==
  ASSUME NEW S, NEW s \in Seq(S), NEW n \in 0..Len(s)
  PROVE  /\ SubSeq(s, n + 1, Len(s)) \in Seq(S)
         /\ Len(SubSeq(s, n + 1, Len(s))) = Len(s) - n
         /\ \A i \in 1..(Len(s) - n) : SubSeq(s, n + 1, Len(s))[i] = s[n + i]
<1> DEFINE a == n + 1
           b == Len(s)
<1>1. n \in Nat /\ a \in Int /\ b \in Int /\ a >= 1 /\ a <= b + 1 /\ \A i \in a..b : s[i] \in S
  OBVIOUS
<1>2. n = a - 1
  BY <1>1
<1> HIDE DEF a, b
<1>3. /\ SubSeq(s, a, b) \in Seq(S)
      /\ Len(SubSeq(s, a, b)) = IF a <= b THEN b - a + 1 ELSE 0
      /\ \A i \in 1..b - a + 1 : SubSeq(s, a, b)[i] = s[a + i - 1]
  BY <1>1, SubSeqProperties
<1>4. b - a + 1 = b - n /\ (IF a <= b THEN b - a + 1 ELSE 0) = b - n
  BY <1>1, <1>2
<1>5. \A i \in Int : a + i - 1 = n + i
  BY <1>1, <1>2
<1>6. \A i \in 1..(b - n) : SubSeq(s, a, b)[i] = s[n + i]
  BY <1>3, <1>4, <1>5
<1> QED BY <1>3, <1>4, <1>6 DEF a, b

(* Removing the first match: one element fewer, the others in their order. *)
LEMMA WithoutFacts ==
  ASSUME NEW list \in Seq(Entries), NEW hits \in SUBSET (1..Len(list))
  PROVE  /\ Without(list, hits) \in Seq(Entries)
         /\ \/ hits = {} /\ Without(list, hits) = list
            \/ \E p \in hits :
                 /\ Len(Without(list, hits)) = Len(list) - 1
                 /\ \A i \in 1..(p - 1) : Without(list, hits)[i] = list[i]
                 /\ \A i \in p..(Len(list) - 1) : Without(list, hits)[i] = list[i + 1]
<1>1. CASE hits = {}
  BY <1>1 DEF Without
<1>2. CASE hits # {}
  <2> DEFINE p == CHOOSE i \in hits : \A k \in hits : i <= k
             w == SubSeq(list, 1, p - 1) \o SubSeq(list, p + 1, Len(list))
  <2>1. p \in hits
    <3>1. \E i \in hits : \A k \in hits : i <= k
      BY <1>2, Least
    <3> QED BY <3>1
  <2>2. Without(list, hits) = w
    BY <1>2 DEF Without
  <2> HIDE DEF p
  <2>3. p \in 1..Len(list) /\ p - 1 \in 0..Len(list) /\ p \in 0..Len(list) /\ Len(list) \in Nat
    BY <2>1
  <2>4. /\ SubSeq(list, 1, p - 1) \in Seq(Entries) /\ Len(SubSeq(list, 1, p - 1)) = p - 1
        /\ \A i \in 1..(p - 1) : SubSeq(list, 1, p - 1)[i] = list[i]
    <3> DEFINE n == p - 1
    <3>1. n \in 0..Len(list)
      BY <2>3
    <3> HIDE DEF n
    <3>2. /\ SubSeq(list, 1, n) \in Seq(Entries) /\ Len(SubSeq(list, 1, n)) = n
          /\ \A i \in 1..n : SubSeq(list, 1, n)[i] = list[i]
      BY <3>1, Front
    <3> QED BY <3>2 DEF n
  <2>5. /\ SubSeq(list, p + 1, Len(list)) \in Seq(Entries)
        /\ Len(SubSeq(list, p + 1, Len(list))) = Len(list) - p
        /\ \A i \in 1..(Len(list) - p) : SubSeq(list, p + 1, Len(list))[i] = list[p + i]
    BY <2>3, Rest
  <2> DEFINE u == SubSeq(list, 1, p - 1)
             v == SubSeq(list, p + 1, Len(list))
  <2>6. u \in Seq(Entries) /\ v \in Seq(Entries) /\ Len(u) = p - 1 /\ Len(v) = Len(list) - p /\ w = u \o v
    BY <2>4, <2>5
  <2>7. /\ \A i \in 1..(p - 1) : u[i] = list[i]
        /\ \A i \in 1..(Len(list) - p) : v[i] = list[p + i]
    BY <2>4, <2>5
  <2> HIDE DEF u, v, w
  <2>8. /\ w \in Seq(Entries) /\ Len(w) = Len(u) + Len(v)
        /\ \A i \in 1..Len(u) + Len(v) : w[i] = IF i <= Len(u) THEN u[i] ELSE v[i - Len(u)]
    BY <2>6, ConcatProperties
  <2>9. w \in Seq(Entries) /\ Len(w) = Len(list) - 1
    BY <2>3, <2>6, <2>8
  <2>10. \A i \in 1..(p - 1) : w[i] = list[i]
    BY <2>3, <2>6, <2>7, <2>8
  <2>11. ASSUME NEW i \in p..(Len(list) - 1) PROVE w[i] = list[i + 1]
    <3>1. i \in 1..Len(u) + Len(v) /\ ~(i <= Len(u)) /\ i - Len(u) \in 1..(Len(list) - p)
      BY <2>3, <2>6
    <3>2. w[i] = v[i - Len(u)] /\ p + (i - Len(u)) = i + 1
      BY <2>3, <2>6, <2>8, <3>1
    <3> QED BY <2>7, <3>1, <3>2
  <2> QED BY <2>1, <2>2, <2>9, <2>10, <2>11
<1> QED BY <1>1, <1>2

(* Nothing new is on the list then, and what differed by number still does. *)
LEMMA WithoutKnown ==
  ASSUME NEW list \in Seq(Entries), NEW hits \in SUBSET (1..Len(list))
  PROVE  /\ In(Without(list, hits)) \subseteq In(list)
         /\ (\A i, k \in DOMAIN list : list[i].id = list[k].id => i = k)
              => \A i, k \in DOMAIN Without(list, hits) :
                   Without(list, hits)[i].id = Without(list, hits)[k].id => i = k
<1> DEFINE w == Without(list, hits)
<1>1. CASE hits = {} /\ w = list
  BY <1>1
<1>2. ASSUME NEW p \in hits,
             /\ Len(w) = Len(list) - 1
             /\ \A i \in 1..(p - 1) : w[i] = list[i]
             /\ \A i \in p..(Len(list) - 1) : w[i] = list[i + 1]
      PROVE  /\ In(w) \subseteq In(list)
             /\ (\A i, k \in DOMAIN list : list[i].id = list[k].id => i = k)
                  => \A i, k \in DOMAIN w : w[i].id = w[k].id => i = k
  <2> DEFINE g(i) == IF i < p THEN i ELSE i + 1
  <2>1. w \in Seq(Entries)
    BY WithoutFacts
  <2> HIDE DEF w
  <2>2. DOMAIN w = 1..(Len(list) - 1) /\ DOMAIN list = 1..Len(list) /\ p \in Nat /\ Len(list) \in Nat
    BY <1>2, <2>1
  <2>3. \A i \in DOMAIN w : g(i) \in DOMAIN list /\ w[i] = list[g(i)]
    BY <1>2, <2>2
  <2>4. \A i, k \in DOMAIN w : g(i) = g(k) => i = k
    BY <2>2
  <2> HIDE DEF g
  <2> QED BY <2>3, <2>4 DEF In
<1> QED BY <1>1, <1>2, WithoutFacts

-----------------------------------------------------------------------------
(* Emits in progress *)

(* An emit in progress, *)
LEMMA EmitFacts ==
  ASSUME EventsTypeOK, NEW i \in 1..Len(stack)
  PROVE  /\ stack[i] \in Emits(map) /\ stack[i].name \in Names /\ stack[i].map \in 0..map
         /\ stack[i].snap \in Seq(Entries) /\ stack[i].remaining \in Seq(Entries)
         /\ stack[i].next \in Nat /\ stack[i].next >= 1 /\ stack[i].calling \in BOOLEAN
         /\ stack[i].next <= Len(stack[i].snap) + 1
         /\ Len(stack[i].remaining) < stack[i].next
<1>1. stack \in Seq(Emits(map))
  BY DEF EventsTypeOK, Emits
<1>2. stack[i] \in Emits(map)
  BY <1>1
<1>3. /\ stack[i].name \in Names /\ stack[i].map \in 0..map
      /\ stack[i].snap \in Seq(Entries) /\ stack[i].remaining \in Seq(Entries)
      /\ stack[i].next \in Nat \ {0} /\ stack[i].calling \in BOOLEAN
  BY <1>2 DEF Emits
<1>4. /\ stack[i].next <= Len(stack[i].snap) + 1
      /\ Len(stack[i].remaining) < stack[i].next
  BY DEF EventsTypeOK
<1> QED BY <1>2, <1>3, <1>4

(* and all of them. *)
LEMMA StackFacts ==
  ASSUME EventsTypeOK
  PROVE  /\ stack \in Seq(Emits(map)) /\ Len(stack) \in Nat /\ DOMAIN stack = 1..Len(stack)
         /\ stack # <<>> => Len(stack) >= 1 /\ Len(stack) \in 1..Len(stack) /\ Top = stack[Len(stack)]
<1>1. stack \in Seq(Emits(map))
  BY DEF EventsTypeOK, Emits
<1> QED BY <1>1 DEF Top

(* What is on the lists and in the emits of an event. *)
LEMMA KnownFacts ==
  ASSUME EventsTypeOK, NEW n \in Names, NEW e
  PROVE  e \in Known(n) <=> \/ e \in In(listeners[n]) \/ e \in In(wanted[n])
                            \/ \E i \in 1..Len(stack) :
                                 stack[i].name = n /\ (e \in In(stack[i].snap) \/ e \in In(stack[i].remaining))
<1>1. DOMAIN stack = 1..Len(stack)
  BY StackFacts
<1> QED BY <1>1 DEF Known

(* A step that registers nothing and puts nothing on another event's lists. *)
LEMMA NothingNew ==
  ASSUME EventsTypeOK, Registered, regs' = regs,
         \A r \in Regs : r > regs => calls'[r] = calls[r],
         \A n \in Names : Known(n)' \subseteq Known(n),
         \A n \in Names : \A i, k \in DOMAIN wanted'[n] :
           wanted'[n][i].id = wanted'[n][k].id => i = k
  PROVE  Registered'
<1>1. \A r \in Regs : r > regs' => calls'[r] = 0
  BY DEF Registered
<1>2. \A n \in Names : \A e \in Known(n)' : e.id <= regs'
  BY DEF Registered
<1>3. \A n, m \in Names : \A e \in Known(n)', f \in Known(m)' : e.id = f.id => n = m
  BY DEF Registered
<1> QED BY <1>1, <1>2, <1>3 DEF Registered

-----------------------------------------------------------------------------
(* Initial states and steps *)

(* The invariant holds before the first listener, *)
LEMMA InitEvents == EventsInit => EventsIInv
<1> SUFFICES ASSUME EventsInit PROVE EventsIInv
  OBVIOUS
<1> USE DEF EventsInit
<1>1. stack = <<>> /\ Len(stack) = 0 /\ DOMAIN stack = {}
  OBVIOUS
<1>2. EventsTypeOK
  <2>1. 0 \in 0..MaxRegs /\ 0 \in 0..MaxClears
    BY EventsAssumption
  <2>2. stack \in Seq([name : Names, map : 0..map, snap : Seq(Entries), next : Nat \ {0},
                       remaining : Seq(Entries), calling : BOOLEAN])
    BY <1>1
  <2>3. calls \in [Regs -> 0..2] /\ listeners \in [Names -> Seq(Entries)] /\ wanted \in [Names -> Seq(Entries)]
    OBVIOUS
  <2> QED BY <1>1, <2>1, <2>2, <2>3 DEF EventsTypeOK
<1>3. \A n \in Names : listeners[n] = <<>> /\ wanted[n] = <<>> /\ DOMAIN wanted[n] = {} /\ DOMAIN listeners[n] = {}
  <2>1. \A n \in Names : listeners[n] = stack /\ wanted[n] = stack
    OBVIOUS
  <2> QED BY <1>1, <2>1
<1>4. OnceOnce /\ ClearIsFinal /\ ListenersExact
  <2>1. \A n \in Names : Len(listeners[n]) = 0
    BY <1>3
  <2> QED BY <1>3, <2>1 DEF OnceOnce, ClearIsFinal, ListenersExact
<1>5. Registered
  <2>1. \A n \in Names : Known(n) = {}
    BY <1>1, <1>3 DEF Known, In
  <2> QED BY <1>3, <2>1 DEF Registered
<1>6. Snapshots /\ Undisturbed
  BY <1>1 DEF Snapshots, Undisturbed
<1> QED BY <1>2, <1>4, <1>5, <1>6 DEF EventsIInv, EventsInv

(* ee_add: the registration has a number no list and no emit knows. *)
LEMMA AddStep ==
  ASSUME EventsIInv, NEW name \in Names, NEW fn \in Fns, NEW once \in BOOLEAN,
         NEW prepend \in BOOLEAN, AddListener(name, fn, once, prepend)
  PROVE  EventsIInv'
<1> USE DEF EventsIInv, EventsInv
<1> DEFINE entry == [id |-> regs + 1, fn |-> fn, once |-> once, map |-> map]
           Added(list) == IF prepend THEN <<entry>> \o list ELSE Append(list, entry)
<1>1. /\ MayUse(name) /\ regs < MaxRegs /\ regs' = regs + 1
      /\ listeners' = [listeners EXCEPT ![name] = Added(listeners[name])]
      /\ wanted' = [wanted EXCEPT ![name] = Added(wanted[name])]
      /\ UNCHANGED <<touches, map, stack, calls, thrown>>
  BY DEF AddListener
<1>2. /\ regs \in Nat /\ MaxRegs \in Nat /\ regs' \in 0..MaxRegs /\ regs' \in Regs
      /\ listeners \in [Names -> Seq(Entries)] /\ wanted \in [Names -> Seq(Entries)]
  BY <1>1, EventsAssumption DEF EventsTypeOK, Regs
<1>3. entry \in Entries /\ entry.id = regs + 1 /\ entry.map = map
  BY <1>1, <1>2 DEF EventsTypeOK, Entries, Regs
<1> HIDE DEF entry
<1>4. \A list \in Seq(Entries) : Added(list) \in Seq(Entries) /\ In(Added(list)) = In(list) \cup {entry}
  BY <1>3, InFacts
<1> HIDE DEF Added
<1>5. /\ listeners' \in [Names -> Seq(Entries)] /\ wanted' \in [Names -> Seq(Entries)]
      /\ listeners'[name] = Added(listeners[name]) /\ wanted'[name] = Added(wanted[name])
      /\ \A n \in Names \ {name} : listeners'[n] = listeners[n] /\ wanted'[n] = wanted[n]
  BY <1>1, <1>2, <1>4
<1>6. /\ In(listeners'[name]) = In(listeners[name]) \cup {entry}
      /\ In(wanted'[name]) = In(wanted[name]) \cup {entry}
  BY <1>2, <1>4, <1>5
<1>7. EventsTypeOK'
  BY <1>1, <1>2, <1>5 DEF EventsTypeOK
<1>8. Emitting' = Emitting /\ (~touches => name \notin Emitting)
  BY <1>1 DEF Emitting, MayUse
<1>9. \A n \in Names : \A e : e \in Known(n)' => e \in Known(n) \/ (e = entry /\ n = name)
  <2> SUFFICES ASSUME NEW n \in Names, NEW e, e \in Known(n)'
               PROVE  e \in Known(n) \/ (e = entry /\ n = name)
    OBVIOUS
  <2>1. \/ e \in In(listeners'[n]) \/ e \in In(wanted'[n])
        \/ e \in UNION {In(stack[i].snap) \cup In(stack[i].remaining) :
                          i \in {i \in DOMAIN stack : stack[i].name = n}}
    BY <1>1 DEF Known
  <2>2. e \in In(listeners'[n]) => e \in In(listeners[n]) \/ (e = entry /\ n = name)
    BY <1>5, <1>6
  <2>3. e \in In(wanted'[n]) => e \in In(wanted[n]) \/ (e = entry /\ n = name)
    BY <1>5, <1>6
  <2> QED BY <2>1, <2>2, <2>3 DEF Known
<1>10. \A n \in Names : \A e \in Known(n) : e.id <= regs /\ e.id # regs + 1 /\ e.id \in Nat
  <2> SUFFICES ASSUME NEW n \in Names, NEW e \in Known(n) PROVE e.id <= regs /\ e.id \in Nat
    BY <1>2
  <2>1. e \in Entries
    <3>1. CASE e \in In(listeners[n])
      BY <1>2, <3>1 DEF In
    <3>2. CASE e \in In(wanted[n])
      BY <1>2, <3>2 DEF In
    <3>3. ASSUME NEW i \in 1..Len(stack), e \in In(stack[i].snap) \/ e \in In(stack[i].remaining)
          PROVE  e \in Entries
      <4>1. stack[i].snap \in Seq(Entries) /\ stack[i].remaining \in Seq(Entries)
        BY EmitFacts
      <4> QED BY <3>3, <4>1 DEF In
    <3> QED BY <3>1, <3>2, <3>3, KnownFacts
  <2>2. e.id \in Nat
    BY <1>2, <2>1, EventsAssumption DEF Entries, Regs
  <2> QED BY <2>2 DEF Registered
<1>11. Registered'
  <2>1. \A r \in Regs : r > regs' => calls'[r] = 0
    BY <1>1, <1>2 DEF Registered, Regs
  <2>2. ASSUME NEW n \in Names, NEW e \in Known(n)' PROVE e.id <= regs'
    <3>1. CASE e \in Known(n)
      BY <1>1, <1>2, <1>10, <3>1
    <3>2. CASE e = entry
      BY <1>1, <1>2, <1>3, <3>2
    <3> QED BY <1>9, <3>1, <3>2
  <2>3. \A n, m \in Names : \A e \in Known(n)', f \in Known(m)' : e.id = f.id => n = m
    BY <1>3, <1>9, <1>10 DEF Registered
  <2>4. \A n \in Names : \A i, k \in DOMAIN wanted'[n] : wanted'[n][i].id = wanted'[n][k].id => i = k
    <3>1. \A n \in Names \ {name} : \A i, k \in DOMAIN wanted'[n] : wanted'[n][i].id = wanted'[n][k].id => i = k
      BY <1>5 DEF Registered
    <3> DEFINE w == wanted[name]
    <3>2. /\ w \in Seq(Entries) /\ DOMAIN w = 1..Len(w) /\ Len(w) \in Nat
          /\ \A i, k \in 1..Len(w) : w[i].id = w[k].id => i = k
      BY <1>2 DEF Registered
    <3>3. \A i \in 1..Len(w) : w[i].id # regs + 1
      <4>1. \A i \in 1..Len(w) : w[i] \in Known(name)
        BY <3>2 DEF Known, In
      <4> QED BY <1>10, <4>1
    <3> HIDE DEF w
    <3>4. \A i, k \in DOMAIN Added(w) : Added(w)[i].id = Added(w)[k].id => i = k
      <4>1. CASE ~prepend
        <5>1. Added(w) = Append(w, entry)
          BY <4>1 DEF Added
        <5>2. /\ DOMAIN Added(w) = 1..Len(w) + 1
              /\ Added(w)[Len(w) + 1] = entry /\ \A i \in 1..Len(w) : Added(w)[i] = w[i]
          BY <1>3, <3>2, <5>1
        <5>3. \A i \in 1..Len(w) + 1 : i = Len(w) + 1 \/ i \in 1..Len(w)
          BY <3>2
        <5> QED BY <1>3, <3>2, <3>3, <5>2, <5>3
      <4>2. CASE prepend
        <5>1. Added(w) = <<entry>> \o w
          BY <4>2 DEF Added
        <5> DEFINE u == Added(w)
        <5>2. /\ DOMAIN u = 1..Len(w) + 1
              /\ u[1] = entry /\ \A i \in 1..Len(w) : u[i + 1] = w[i]
          BY <1>3, <3>2, <5>1
        <5> HIDE DEF u
        <5>3. ASSUME NEW i \in 1..Len(w) + 1, i # 1 PROVE i - 1 \in 1..Len(w) /\ u[i] = w[i - 1]
          <6>1. i - 1 \in 1..Len(w) /\ i = i - 1 + 1
            BY <3>2, <5>3
          <6> DEFINE k == i - 1
          <6> HIDE DEF k
          <6>2. k \in 1..Len(w) /\ i = k + 1
            BY <6>1 DEF k
          <6>3. u[i] = w[k]
            BY <5>2, <6>2
          <6> QED BY <6>1, <6>3 DEF k
        <5>4. ASSUME NEW i \in 1..Len(w) + 1, NEW k \in 1..Len(w) + 1, u[i].id = u[k].id
              PROVE  i = k
          <6>1. i # 1 => u[i].id # regs + 1
            BY <3>3, <5>3
          <6>2. k # 1 => u[k].id # regs + 1
            BY <3>3, <5>3
          <6>3. i = 1 \/ k = 1 => i = k
            BY <1>3, <5>2, <5>4, <6>1, <6>2
          <6>4. i # 1 /\ k # 1 => i - 1 = k - 1
            BY <3>2, <5>3, <5>4
          <6> QED BY <6>3, <6>4
        <5> QED BY <5>2, <5>4 DEF u
      <4> QED BY <4>1, <4>2
    <3> QED BY <1>5, <3>1, <3>4 DEF w
  <2> QED BY <2>1, <2>2, <2>3, <2>4 DEF Registered
<1>12. ClearIsFinal'
  <2>1. \A n \in Names : \A e \in In(listeners[n]) : e.map = map
    <3>1. \A n \in Names : DOMAIN listeners[n] = 1..Len(listeners[n])
      BY <1>2
    <3> QED BY <3>1 DEF ClearIsFinal, In
  <2>2. \A n \in Names : \A e \in In(listeners'[n]) : e.map = map
    BY <1>3, <1>5, <1>6, <2>1
  <2>3. \A n \in Names : DOMAIN listeners'[n] = 1..Len(listeners'[n])
    BY <1>5
  <2> QED BY <1>1, <2>2, <2>3 DEF ClearIsFinal, In
<1>13. OnceOnce'
  <2> SUFFICES ASSUME ~touches, NEW n \in Names \ thrown, NEW i \in 1..Len(listeners'[n]),
                      listeners'[n][i].once, calls[listeners'[n][i].id] > 0
               PROVE  n \in Emitting
    BY <1>1, <1>8 DEF OnceOnce
  <2> DEFINE e == listeners'[n][i]
  <2>1. e \in In(listeners'[n])
    <3>1. DOMAIN listeners'[n] = 1..Len(listeners'[n])
      BY <1>5
    <3> QED BY <3>1 DEF In
  <2>2. e # entry
    <3>1. regs + 1 \in Regs /\ calls[regs + 1] = 0
      BY <1>1, <1>2 DEF Registered, Regs
    <3> QED BY <1>3, <3>1
  <2>3. e \in In(listeners[n])
    BY <1>5, <1>6, <2>1, <2>2
  <2>4. PICK k \in 1..Len(listeners[n]) : e = listeners[n][k]
    <3>1. DOMAIN listeners[n] = 1..Len(listeners[n])
      BY <1>2
    <3> QED BY <2>3, <3>1 DEF In
  <2> QED BY <2>4 DEF OnceOnce
<1>14. ListenersExact'
  <2> SUFFICES ASSUME ~touches, NEW n \in Names \ (Emitting \cup thrown)
               PROVE  listeners'[n] = wanted'[n]
    BY <1>1, <1>8 DEF ListenersExact
  <2>1. listeners[n] = wanted[n]
    BY DEF ListenersExact
  <2> QED BY <1>5, <2>1
<1>15. Snapshots'
  BY <1>1 DEF Snapshots
<1>16. Undisturbed'
  <2> SUFFICES ASSUME ~touches
               PROVE  \A i \in DOMAIN stack : listeners'[stack[i].name] = listeners[stack[i].name]
                                              /\ wanted'[stack[i].name] = wanted[stack[i].name]
    BY <1>1 DEF Undisturbed
  <2> TAKE i \in DOMAIN stack
  <2>1. i \in 1..Len(stack)
    BY StackFacts
  <2>2. stack[i].name \in Emitting
    BY <2>1 DEF Emitting
  <2>3. stack[i].name \in Names /\ stack[i].name # name
    BY <1>8, <2>1, <2>2, EmitFacts
  <2> QED BY <1>5, <2>3
<1> QED BY <1>7, <1>11, <1>12, <1>13, <1>14, <1>15, <1>16

(* A step that takes listeners of one event off: nothing new is known, and no
   emit of the event is in progress if listeners leave theirs alone. *)
LEMMA FewerListeners ==
  ASSUME EventsIInv, NEW name \in Names, MayUse(name),
         NEW a \in Seq(Entries), NEW b \in Seq(Entries),
         listeners' = [listeners EXCEPT ![name] = a], wanted' = [wanted EXCEPT ![name] = b],
         In(a) \subseteq In(listeners[name]), In(b) \subseteq In(wanted[name]),
         listeners[name] = wanted[name] => a = b,
         \A i, k \in DOMAIN b : b[i].id = b[k].id => i = k,
         UNCHANGED <<touches, regs, map, stack, calls, thrown>>
  PROVE  EventsIInv'
<1> USE DEF EventsIInv, EventsInv
<1>1. listeners \in [Names -> Seq(Entries)] /\ wanted \in [Names -> Seq(Entries)]
  BY DEF EventsTypeOK
<1>2. /\ listeners' \in [Names -> Seq(Entries)] /\ wanted' \in [Names -> Seq(Entries)]
      /\ listeners'[name] = a /\ wanted'[name] = b
      /\ \A n \in Names \ {name} : listeners'[n] = listeners[n] /\ wanted'[n] = wanted[n]
  BY <1>1
<1>3. \A n \in Names : In(listeners'[n]) \subseteq In(listeners[n]) /\ In(wanted'[n]) \subseteq In(wanted[n])
  BY <1>2
<1>4. EventsTypeOK'
  BY <1>2 DEF EventsTypeOK
<1>5. Emitting' = Emitting /\ (~touches => name \notin Emitting)
  BY DEF Emitting, MayUse
<1>6. Registered'
  <2>1. \A n \in Names : Known(n)' \subseteq Known(n)
    BY <1>3 DEF Known
  <2>2. \A n \in Names : \A i, k \in DOMAIN wanted'[n] : wanted'[n][i].id = wanted'[n][k].id => i = k
    BY <1>2 DEF Registered
  <2> QED BY <2>1, <2>2, NothingNew
<1>7. \A n \in Names : \A i \in 1..Len(listeners'[n]) :
        \E k \in 1..Len(listeners[n]) : listeners'[n][i] = listeners[n][k]
  <2>1. \A n \in Names : DOMAIN listeners'[n] = 1..Len(listeners'[n]) /\ DOMAIN listeners[n] = 1..Len(listeners[n])
    BY <1>1, <1>2
  <2> TAKE n \in Names
  <2> TAKE i \in 1..Len(listeners'[n])
  <2>2. listeners'[n][i] \in In(listeners'[n])
    BY <2>1 DEF In
  <2>3. listeners'[n][i] \in In(listeners[n])
    BY <1>3, <2>2
  <2> QED BY <2>1, <2>3 DEF In
<1>8. ClearIsFinal'
  BY <1>7 DEF ClearIsFinal
<1>9. OnceOnce'
  <2> SUFFICES ASSUME ~touches, NEW n \in Names \ thrown, NEW i \in 1..Len(listeners'[n]),
                      listeners'[n][i].once, calls[listeners'[n][i].id] > 0
               PROVE  n \in Emitting
    BY <1>5 DEF OnceOnce
  <2>1. PICK k \in 1..Len(listeners[n]) : listeners'[n][i] = listeners[n][k]
    BY <1>7
  <2> QED BY <2>1 DEF OnceOnce
<1>10. ListenersExact'
  BY <1>2, <1>5 DEF ListenersExact
<1>11. Snapshots'
  BY DEF Snapshots
<1>12. Undisturbed'
  <2> SUFFICES ASSUME ~touches
               PROVE  \A i \in DOMAIN stack : listeners'[stack[i].name] = listeners[stack[i].name]
                                              /\ wanted'[stack[i].name] = wanted[stack[i].name]
    BY DEF Undisturbed
  <2> TAKE i \in DOMAIN stack
  <2>1. i \in 1..Len(stack)
    BY StackFacts
  <2>2. stack[i].name \in Emitting
    BY <2>1 DEF Emitting
  <2>3. stack[i].name \in Names /\ stack[i].name # name
    BY <1>5, <2>1, <2>2, EmitFacts
  <2> QED BY <1>2, <2>3
<1> QED BY <1>4, <1>6, <1>8, <1>9, <1>10, <1>11, <1>12

(* remove_listener *)
LEMMA RemoveStep ==
  ASSUME EventsIInv, NEW name \in Names, NEW fn \in Fns, RemoveListener(name, fn)
  PROVE  EventsIInv'
<1> DEFINE a == Removed(listeners[name], fn)
           b == Removed(wanted[name], fn)
<1>1. /\ MayUse(name)
      /\ listeners' = [listeners EXCEPT ![name] = a] /\ wanted' = [wanted EXCEPT ![name] = b]
      /\ UNCHANGED <<touches, regs, map, stack, calls, thrown>>
  BY DEF RemoveListener
<1>2. listeners[name] \in Seq(Entries) /\ wanted[name] \in Seq(Entries)
  BY DEF EventsIInv, EventsInv, EventsTypeOK
<1>3. \A i, k \in DOMAIN wanted[name] : wanted[name][i].id = wanted[name][k].id => i = k
  BY DEF EventsIInv, Registered
<1>4. ASSUME NEW list \in Seq(Entries)
      PROVE  /\ Removed(list, fn) \in Seq(Entries) /\ In(Removed(list, fn)) \subseteq In(list)
             /\ (\A i, k \in DOMAIN list : list[i].id = list[k].id => i = k)
                  => \A i, k \in DOMAIN Removed(list, fn) :
                       Removed(list, fn)[i].id = Removed(list, fn)[k].id => i = k
  <2> DEFINE hits == {i \in DOMAIN list : list[i].fn = fn}
  <2>1. hits \in SUBSET (1..Len(list)) /\ Removed(list, fn) = Without(list, hits)
    BY DEF Removed
  <2> HIDE DEF hits
  <2> QED BY <2>1, WithoutFacts, WithoutKnown
<1>5. listeners[name] = wanted[name] => a = b
  OBVIOUS
<1>6. /\ a \in Seq(Entries) /\ b \in Seq(Entries)
      /\ In(a) \subseteq In(listeners[name]) /\ In(b) \subseteq In(wanted[name])
      /\ \A i, k \in DOMAIN b : b[i].id = b[k].id => i = k
  BY <1>2, <1>3, <1>4
<1> HIDE DEF a, b
<1> QED BY <1>1, <1>5, <1>6, FewerListeners

(* removeAllListeners(name) *)
LEMMA RemoveAllStep ==
  ASSUME EventsIInv, NEW name \in Names, RemoveAll(name)
  PROVE  EventsIInv'
<1>1. /\ MayUse(name)
      /\ listeners' = [listeners EXCEPT ![name] = <<>>] /\ wanted' = [wanted EXCEPT ![name] = <<>>]
      /\ UNCHANGED <<touches, regs, map, stack, calls, thrown>>
  BY DEF RemoveAll
<1> DEFINE a == <<>>
<1>2. a \in Seq(Entries) /\ DOMAIN a = {}
  OBVIOUS
<1>3. In(a) = {}
  BY <1>2 DEF In
<1>4. listeners' = [listeners EXCEPT ![name] = a] /\ wanted' = [wanted EXCEPT ![name] = a]
  BY <1>1
<1> HIDE DEF a
<1> QED BY <1>1, <1>2, <1>3, <1>4, FewerListeners

(* removeAllListeners(): the map every emit in progress has is an old one now. *)
LEMMA ClearStep == ASSUME EventsIInv, Clear PROVE EventsIInv'
<1> USE DEF EventsIInv, EventsInv
<1>1. /\ map < MaxClears /\ map' = map + 1
      /\ listeners' = [n \in Names |-> <<>>] /\ wanted' = [n \in Names |-> <<>>]
      /\ UNCHANGED <<touches, regs, stack, calls, thrown>>
  BY DEF Clear
<1> DEFINE none == <<>>
<1>2. none \in Seq(Entries) /\ DOMAIN none = {} /\ Len(none) = 0
  OBVIOUS
<1>3. none = <<>> /\ In(none) = {} /\ \A n \in Names : listeners'[n] = none /\ wanted'[n] = none
  BY <1>1, <1>2 DEF In
<1> HIDE DEF none
<1>4. map \in Nat /\ map' \in 0..MaxClears /\ map \in 0..map'
  BY <1>1, EventsAssumption DEF EventsTypeOK
<1>5. stack' \in Seq(Emits(map'))
  <2>1. stack \in Seq(Emits(map))
    BY StackFacts
  <2>2. Emits(map) \subseteq Emits(map')
    <3>1. 0..map \subseteq 0..map'
      BY <1>1, <1>4
    <3> QED BY <3>1 DEF Emits
  <2> HIDE DEF EventsIInv
  <2> QED BY <1>1, <2>1, <2>2
<1>6. EventsTypeOK'
  <2>1. listeners' \in [Names -> Seq(Entries)] /\ wanted' \in [Names -> Seq(Entries)]
    BY <1>1, <1>2, <1>3
  <2> QED BY <1>1, <1>4, <1>5, <2>1 DEF EventsTypeOK, Emits
<1>7. OnceOnce' /\ ClearIsFinal' /\ ListenersExact'
  <2>1. \A n \in Names : 1..Len(listeners'[n]) = {} /\ listeners'[n] = wanted'[n]
    BY <1>2, <1>3
  <2> QED BY <2>1 DEF OnceOnce, ClearIsFinal, ListenersExact
<1>8. Registered'
  <2>1. \A n \in Names : Known(n)' \subseteq Known(n)
    BY <1>1, <1>3 DEF Known
  <2>2. \A n \in Names : \A i, k \in DOMAIN wanted'[n] : wanted'[n][i].id = wanted'[n][k].id => i = k
    BY <1>2, <1>3
  <2> QED BY <1>1, <2>1, <2>2, NothingNew
<1>9. Snapshots'
  BY <1>1 DEF Snapshots
<1>10. Undisturbed'
  <2>1. \A i \in DOMAIN stack : stack[i].map # map' /\ stack[i].name \in Names
    <3>1. \A i \in 1..Len(stack) : stack[i].map \in 0..map /\ stack[i].name \in Names
      BY EmitFacts
    <3>2. map' \notin 0..map
      BY <1>1, <1>4
    <3> QED BY <3>1, <3>2, StackFacts
  <2> QED BY <1>1, <1>3, <2>1 DEF Undisturbed
<1> QED BY <1>6, <1>7, <1>8, <1>9, <1>10

(* An exception leaves the innermost emits; their events count as thrown. *)
LEMMA UnwindStep ==
  ASSUME EventsIInv, NEW k \in 0..Len(stack), Unwind(k),
         UNCHANGED <<touches, emitterVars, calls, wanted>>
  PROVE  EventsIInv'
<1> USE DEF EventsIInv, EventsInv
<1>1. /\ stack' = SubSeq(stack, 1, k)
      /\ thrown' = thrown \cup {stack[i].name : i \in (k + 1)..Len(stack)}
      /\ UNCHANGED <<touches, regs, map, listeners, calls, wanted>>
  BY DEF Unwind, emitterVars
<1>2. /\ stack' \in Seq(Emits(map)) /\ Len(stack') = k /\ DOMAIN stack' = 1..k
      /\ \A i \in 1..k : i \in 1..Len(stack) /\ stack'[i] = stack[i]
      /\ Len(stack) \in Nat /\ k \in Nat /\ DOMAIN stack = 1..Len(stack)
  <2>1. stack \in Seq(Emits(map)) /\ Len(stack) \in Nat /\ DOMAIN stack = 1..Len(stack)
    BY StackFacts
  <2>2. /\ SubSeq(stack, 1, k) \in Seq(Emits(map)) /\ Len(SubSeq(stack, 1, k)) = k
        /\ \A i \in 1..k : SubSeq(stack, 1, k)[i] = stack[i]
    BY <2>1, Front
  <2>3. \A i \in 1..k : i \in 1..Len(stack)
    BY <2>1
  <2> HIDE DEF EventsIInv
  <2> QED BY <1>1, <2>1, <2>2, <2>3
<1>3. \A i \in (k + 1)..Len(stack) : stack[i].name \in Names
  <2>1. \A i \in (k + 1)..Len(stack) : i \in 1..Len(stack)
    BY <1>2
  <2> QED BY <2>1, EmitFacts
<1>4. EventsTypeOK'
  <2>1. thrown' \subseteq Names
    BY <1>1, <1>3 DEF EventsTypeOK
  <2>2. \A i \in 1..Len(stack') : /\ stack'[i].next <= Len(stack'[i].snap) + 1
                                  /\ Len(stack'[i].remaining) < stack'[i].next
    BY <1>2 DEF EventsTypeOK
  <2> QED BY <1>1, <1>2, <2>1, <2>2 DEF EventsTypeOK, Emits
<1>5. \A n \in Emitting : n \in Emitting' \/ n \in thrown'
  <2> SUFFICES ASSUME NEW i \in 1..Len(stack) PROVE stack[i].name \in Emitting' \/ stack[i].name \in thrown'
    BY DEF Emitting
  <2>1. CASE i \in 1..k
    BY <1>2, <2>1 DEF Emitting
  <2>2. CASE i \in (k + 1)..Len(stack)
    BY <1>1, <2>2
  <2> QED BY <1>2, <2>1, <2>2
<1>6. thrown \subseteq thrown'
  BY <1>1
<1>7. OnceOnce'
  BY <1>1, <1>5, <1>6 DEF OnceOnce
<1>8. ClearIsFinal'
  BY <1>1 DEF ClearIsFinal
<1>9. ListenersExact'
  BY <1>1, <1>5, <1>6 DEF ListenersExact
<1>10. Registered'
  <2>1. \A n \in Names : Known(n)' \subseteq Known(n)
    BY <1>1, <1>2 DEF Known
  <2>2. \A n \in Names : \A i, j \in DOMAIN wanted'[n] : wanted'[n][i].id = wanted'[n][j].id => i = j
    BY <1>1 DEF Registered
  <2> QED BY <1>1, <2>1, <2>2, NothingNew
<1>11. Snapshots'
  BY <1>2 DEF Snapshots
<1>12. Undisturbed'
  BY <1>1, <1>2, <1>6 DEF Undisturbed
<1> QED BY <1>4, <1>7, <1>8, <1>9, <1>10, <1>11, <1>12

(* emit takes its snapshot. *)
LEMMA EmitStep == ASSUME EventsIInv, NEW name \in Names, Emit(name) PROVE EventsIInv'
<1> USE DEF EventsIInv, EventsInv
<1> DEFINE f == [name |-> name, map |-> map, snap |-> listeners[name],
                 next |-> 1, remaining |-> <<>>, calling |-> FALSE]
           n1 == Len(stack) + 1
<1>1. /\ MayUse(name) /\ stack' = Append(stack, f)
      /\ UNCHANGED <<touches, regs, map, listeners, calls, wanted, thrown>>
  BY DEF Emit, emitterVars, histVars
<1>2. listeners[name] \in Seq(Entries) /\ map \in 0..map /\ Len(listeners[name]) \in Nat
  BY EventsAssumption DEF EventsTypeOK
<1>3. /\ f \in Emits(map) /\ f.name = name /\ f.map = map /\ f.snap = listeners[name]
      /\ f.next = 1 /\ ~f.calling /\ Len(f.remaining) = 0 /\ DOMAIN f.remaining = {}
  BY <1>2 DEF Emits
<1> HIDE DEF f
<1>4. /\ stack' \in Seq(Emits(map)) /\ Len(stack') = n1 /\ DOMAIN stack' = 1..n1
      /\ stack'[n1] = f /\ n1 \in 1..n1 /\ Len(stack) \in Nat
      /\ \A i \in 1..n1 : i = n1 \/ (i \in 1..Len(stack) /\ stack'[i] = stack[i])
      /\ \A i \in 1..Len(stack) : i \in 1..n1 /\ stack'[i] = stack[i]
      /\ DOMAIN stack = 1..Len(stack)
  <2>1. stack \in Seq(Emits(map)) /\ Len(stack) \in Nat /\ DOMAIN stack = 1..Len(stack)
    BY StackFacts
  <2> HIDE DEF EventsIInv
  <2> QED BY <1>1, <1>3, <2>1
<1> HIDE DEF n1
<1>5. EventsTypeOK'
  <2>1. \A i \in 1..Len(stack') : /\ stack'[i].next <= Len(stack'[i].snap) + 1
                                  /\ Len(stack'[i].remaining) < stack'[i].next
    <3>1. f.next <= Len(f.snap) + 1 /\ Len(f.remaining) < f.next
      BY <1>2, <1>3
    <3> QED BY <1>4, <3>1 DEF EventsTypeOK
  <2> QED BY <1>1, <1>4, <2>1 DEF EventsTypeOK, Emits
<1>6. Emitting' = Emitting \cup {name} /\ (~touches => name \notin Emitting)
  <2>1. ~touches => name \notin Emitting
    BY <1>1 DEF MayUse
  <2>2. \A x : x \in Emitting' => x \in Emitting \/ x = name
    BY <1>3, <1>4 DEF Emitting
  <2>3. \A x : x \in Emitting => x \in Emitting'
    BY <1>4 DEF Emitting
  <2>4. name \in Emitting'
    BY <1>3, <1>4 DEF Emitting
  <2> QED BY <2>1, <2>2, <2>3, <2>4
<1>7. OnceOnce'
  BY <1>1, <1>6 DEF OnceOnce
<1>8. ClearIsFinal'
  BY <1>1 DEF ClearIsFinal
<1>9. ListenersExact'
  BY <1>1, <1>6 DEF ListenersExact
<1>10. In(f.remaining) = {} /\ In(f.snap) = In(listeners[name])
  BY <1>3 DEF In
<1>11. Registered'
  <2>1. ASSUME NEW n \in Names, NEW e, e \in Known(n)' PROVE e \in Known(n)
    <3>1. CASE e \in In(listeners[n]) \/ e \in In(wanted[n])
      BY <3>1 DEF Known
    <3>2. ASSUME NEW i \in 1..n1, stack'[i].name = n,
                 e \in In(stack'[i].snap) \cup In(stack'[i].remaining)
          PROVE  e \in Known(n)
      <4>1. CASE i = n1
        BY <1>3, <1>4, <1>10, <3>2, <4>1 DEF Known
      <4>2. CASE i \in 1..Len(stack) /\ stack'[i] = stack[i]
        BY <1>4, <3>2, <4>2 DEF Known
      <4> QED BY <1>4, <4>1, <4>2
    <3> QED BY <1>1, <1>4, <2>1, <3>1, <3>2 DEF Known
  <2>2. \A n \in Names : \A i, k \in DOMAIN wanted'[n] : wanted'[n][i].id = wanted'[n][k].id => i = k
    BY <1>1 DEF Registered
  <2>3. \A n \in Names : Known(n)' \subseteq Known(n)
    BY <2>1
  <2> QED BY <1>1, <2>2, <2>3, NothingNew
<1>12. Snapshots'
  <2>1. \A e \in In(f.snap) \cup In(f.remaining) : e.map = f.map
    <3>1. DOMAIN listeners[name] = 1..Len(listeners[name])
      BY <1>2
    <3>2. \A e \in In(listeners[name]) : e.map = map
      BY <3>1 DEF ClearIsFinal, In
    <3> QED BY <1>3, <1>10, <3>2
  <2> QED BY <1>3, <1>4, <1>10, <2>1 DEF Snapshots
<1>13. Undisturbed'
  <2> SUFFICES ASSUME ~touches
               PROVE  /\ \A i, k \in DOMAIN stack' : stack'[i].name = stack'[k].name => i = k
                      /\ \A i \in DOMAIN stack' :
                           IF stack'[i].map = map
                             THEN stack'[i].name \notin thrown
                                    => AsWanted(stack'[i], wanted[stack'[i].name])
                             ELSE listeners[stack'[i].name] = <<>> /\ wanted[stack'[i].name] = <<>>
    BY <1>1 DEF Undisturbed
  <2>1. \A i \in 1..Len(stack) : stack[i].name # name
    BY <1>6 DEF Emitting
  <2>2. \A i, k \in DOMAIN stack' : stack'[i].name = stack'[k].name => i = k
    BY <1>3, <1>4, <2>1 DEF Undisturbed
  <2>3. name \notin thrown => AsWanted(f, wanted[name])
    <3> SUFFICES ASSUME name \notin thrown PROVE AsWanted(f, listeners[name])
      BY <1>6 DEF ListenersExact
    <3>1. Len(listeners[name]) = 0 + Len(f.snap) + 1 - f.next
      BY <1>2, <1>3
    <3>2. \A i \in 1..0 : FALSE
      OBVIOUS
    <3>3. \A i \in f.next..Len(f.snap) : 0 + 1 + i - f.next = i
      BY <1>2, <1>3
    <3> QED BY <1>3, <3>1, <3>2, <3>3 DEF AsWanted
  <2> QED BY <1>3, <1>4, <2>2, <2>3 DEF Undisturbed
<1> QED BY <1>5, <1>7, <1>8, <1>9, <1>11, <1>12, <1>13

(* A listener is called: it is one of the event's own. *)
LEMMA CallStep == ASSUME EventsIInv, CallListener PROVE EventsIInv'
<1> USE DEF EventsIInv, EventsInv
<1> DEFINE m == Len(stack)
           f == Top
           entry == f.snap[f.next]
           g == [f EXCEPT !.calling = TRUE]
<1>1. /\ stack # <<>> /\ SnapLeft
      /\ calls' = [calls EXCEPT ![entry.id] = IF @ < 2 THEN @ + 1 ELSE @]
      /\ stack' = [stack EXCEPT ![m].calling = TRUE]
      /\ UNCHANGED <<touches, regs, map, listeners, wanted, thrown>>
  BY DEF CallListener, emitterVars
<1>2. /\ stack \in Seq(Emits(map)) /\ m \in Nat /\ DOMAIN stack = 1..m /\ m \in 1..m /\ f = stack[m]
      /\ f \in Emits(map) /\ f.next >= 1 /\ f.next \in Nat /\ f.name \in Names
      /\ f.next <= Len(f.snap) /\ f.snap \in Seq(Entries)
  BY <1>1, StackFacts, EmitFacts DEF SnapLeft
<1>3. entry \in Entries /\ entry \in In(f.snap)
  <2>1. f.next \in 1..Len(f.snap) /\ DOMAIN f.snap = 1..Len(f.snap)
    BY <1>2
  <2> QED BY <1>2, <2>1 DEF In
<1>4. /\ g \in Emits(map) /\ g.name = f.name /\ g.map = f.map /\ g.snap = f.snap
      /\ g.next = f.next /\ g.remaining = f.remaining
  BY <1>2 DEF Emits
<1>5. stack' = [stack EXCEPT ![m] = g]
  BY <1>1, <1>2
<1>6. entry.id \in Regs /\ entry \in Known(f.name)
  <2>1. entry.id \in Regs
    BY <1>3 DEF Entries
  <2> QED BY <1>2, <1>3, <2>1, KnownFacts
<1> HIDE DEF f, g, entry, m
<1>7. /\ stack' \in Seq(Emits(map)) /\ Len(stack') = Len(stack) /\ DOMAIN stack' = 1..m
      /\ stack'[m] = g /\ \A i \in 1..m : i # m => stack'[i] = stack[i]
  <2>1. Len(stack) = m
    BY DEF m
  <2> HIDE DEF EventsIInv
  <2> QED BY <1>2, <1>4, <1>5, <2>1
<1>8. \A i \in 1..m : /\ stack'[i].name = stack[i].name /\ stack'[i].map = stack[i].map
                      /\ stack'[i].snap = stack[i].snap /\ stack'[i].next = stack[i].next
                      /\ stack'[i].remaining = stack[i].remaining
                      /\ stack'[i].calling => stack[i].calling \/ stack[i].next <= Len(stack[i].snap)
  BY <1>2, <1>4, <1>7
<1>9. Len(stack) = m
  BY DEF m
<1>10. /\ calls' \in [Regs -> 0..2]
       /\ \A r \in Regs : r # entry.id => calls'[r] = calls[r]
  <2>1. \A x \in 0..2 : (IF x < 2 THEN x + 1 ELSE x) \in 0..2
    OBVIOUS
  <2> QED BY <1>1, <1>6, <2>1 DEF EventsTypeOK
<1>11. EventsTypeOK'
  <2>1. \A i \in 1..Len(stack') : /\ stack'[i].next <= Len(stack'[i].snap) + 1
                                  /\ Len(stack'[i].remaining) < stack'[i].next
    BY <1>7, <1>8, <1>9 DEF EventsTypeOK
  <2> QED BY <1>1, <1>7, <1>10, <2>1 DEF EventsTypeOK, Emits
<1>12. Emitting' = Emitting
  BY <1>7, <1>8, <1>9 DEF Emitting
<1>13. OnceOnce'
  <2> SUFFICES ASSUME ~touches, NEW n \in Names \ thrown, NEW i \in 1..Len(listeners[n]),
                      listeners[n][i].once, calls'[listeners[n][i].id] > 0
               PROVE  n \in Emitting
    BY <1>1, <1>12 DEF OnceOnce
  <2> DEFINE e == listeners[n][i]
  <2>1. e \in Entries /\ e \in In(listeners[n]) /\ e.id \in Regs
    <3>1. listeners[n] \in Seq(Entries)
      BY DEF EventsTypeOK
    <3>2. e \in Entries /\ e \in In(listeners[n])
      BY <3>1 DEF In
    <3> QED BY <3>2 DEF Entries
  <2>2. CASE e.id # entry.id
    BY <1>10, <2>1, <2>2 DEF OnceOnce
  <2>3. CASE e.id = entry.id
    <3>1. n = f.name
      BY <1>2, <1>6, <2>1, <2>3 DEF Registered, Known
    <3> QED BY <1>2, <1>9, <3>1 DEF Emitting
  <2> QED BY <2>2, <2>3
<1>14. ClearIsFinal' /\ ListenersExact'
  BY <1>1, <1>12 DEF ClearIsFinal, ListenersExact
<1>15. Registered'
  <2>1. \A n \in Names : Known(n)' \subseteq Known(n)
    BY <1>1, <1>2, <1>7, <1>8 DEF Known
  <2>2. \A r \in Regs : r > regs => calls'[r] = calls[r]
    <3>0. entry.id <= regs
      BY <1>2, <1>6 DEF Registered
    <3>1. entry.id \in Nat /\ regs \in Nat
      BY <1>6, EventsAssumption DEF EventsTypeOK, Regs
    <3>2. Regs \subseteq Nat
      BY DEF Regs
    <3> QED BY <1>10, <3>0, <3>1, <3>2
  <2>3. \A n \in Names : \A i, k \in DOMAIN wanted'[n] : wanted'[n][i].id = wanted'[n][k].id => i = k
    BY <1>1 DEF Registered
  <2> QED BY <1>1, <2>1, <2>2, <2>3, NothingNew
<1>16. Snapshots'
  BY <1>2, <1>7, <1>8 DEF Snapshots
<1>17. Undisturbed'
  <2> SUFFICES ASSUME ~touches
               PROVE  /\ \A i, k \in DOMAIN stack' : stack'[i].name = stack'[k].name => i = k
                      /\ \A i \in DOMAIN stack' :
                           IF stack'[i].map = map
                             THEN stack'[i].name \notin thrown
                                    => AsWanted(stack'[i], wanted[stack'[i].name])
                             ELSE listeners[stack'[i].name] = <<>> /\ wanted[stack'[i].name] = <<>>
    BY <1>1 DEF Undisturbed
  <2>1. \A i, k \in DOMAIN stack' : stack'[i].name = stack'[k].name => i = k
    BY <1>2, <1>7, <1>8 DEF Undisturbed
  <2>2. \A i \in 1..m : \A list : AsWanted(stack[i], list) <=> AsWanted(stack'[i], list)
    BY <1>8 DEF AsWanted
  <2> QED BY <1>2, <1>7, <1>8, <2>1, <2>2 DEF Undisturbed
<1> QED BY <1>11, <1>13, <1>14, <1>15, <1>16, <1>17

(* A listener returns: it was the next one wanted, and stays if it is no once
   listener. *)
LEMMA ListenerReturnStep == ASSUME EventsIInv, ListenerReturn PROVE EventsIInv'
<1> USE DEF EventsIInv, EventsInv
<1> DEFINE m == Len(stack)
           f == Top
           entry == f.snap[f.next]
           kept == IF Stays(entry) THEN Append(f.remaining, entry) ELSE f.remaining
           g == AfterCall(f, kept)
           list == wanted[f.name]
           hits == {i \in DOMAIN list : list[i].once /\ list[i].id = entry.id}
           left == Without(list, hits)
<1>1. /\ stack # <<>> /\ f.calling /\ stack' = Append(Below, g)
      /\ wanted' = [wanted EXCEPT ![f.name] = left]
      /\ UNCHANGED <<touches, regs, map, listeners, calls, thrown>>
  BY DEF ListenerReturn, emitterVars
<1>2. /\ stack \in Seq(Emits(map)) /\ m \in Nat /\ DOMAIN stack = 1..m /\ m \in 1..m /\ f = stack[m]
      /\ f \in Emits(map) /\ f.next >= 1 /\ f.next \in Nat /\ f.name \in Names
      /\ f.snap \in Seq(Entries) /\ f.remaining \in Seq(Entries) /\ Len(f.remaining) < f.next
  BY <1>1, StackFacts, EmitFacts
<1>3. f.next <= Len(f.snap)
  BY <1>1, <1>2 DEF Snapshots
<1>4. entry \in Entries /\ entry \in In(f.snap) /\ entry.map = f.map
  <2>1. f.next \in 1..Len(f.snap) /\ DOMAIN f.snap = 1..Len(f.snap)
    BY <1>2, <1>3
  <2>2. entry \in Entries /\ entry \in In(f.snap)
    BY <1>2, <2>1 DEF In
  <2> QED BY <1>2, <2>2 DEF Snapshots
<1>5. list \in Seq(Entries) /\ DOMAIN list = 1..Len(list) /\ Len(list) \in Nat
      /\ hits \in SUBSET (1..Len(list))
  <2>1. list \in Seq(Entries)
    BY <1>2 DEF EventsTypeOK
  <2> QED BY <2>1
<1> HIDE DEF f, entry, list
<1>61. kept = IF entry.once THEN f.remaining ELSE Append(f.remaining, entry)
  BY DEF Stays
<1> HIDE DEF kept
<1>6. /\ kept \in Seq(Entries) /\ Len(kept) \in Nat /\ Len(kept) <= Len(f.remaining) + 1
      /\ In(kept) \subseteq In(f.remaining) \cup {entry}
      /\ \A e \in In(kept) : e \in In(f.remaining) \/ (e = entry /\ ~entry.once)
  <2> HIDE DEF EventsIInv
  <2>1. CASE ~entry.once
    <3>1. kept = Append(f.remaining, entry)
      BY <1>61, <2>1
    <3>2. Len(kept) = Len(f.remaining) + 1 /\ Len(f.remaining) \in Nat
      BY <1>2, <3>1
    <3>3. kept \in Seq(Entries) /\ In(kept) = In(f.remaining) \cup {entry}
      BY <1>2, <1>4, <3>1, InFacts
    <3> QED BY <2>1, <3>2, <3>3
  <2>2. CASE entry.once
    <3>1. kept = f.remaining
      BY <1>61, <2>2
    <3>2. Len(f.remaining) \in Nat
      BY <1>2
    <3> QED BY <1>2, <3>1, <3>2
  <2> QED BY <2>1, <2>2
<1>7. /\ g \in Emits(map) /\ g.name = f.name /\ g.map = f.map /\ g.snap = f.snap
      /\ g.next = f.next + 1 /\ g.remaining = kept /\ ~g.calling
  <2> DEFINE g1 == [f EXCEPT !.calling = FALSE]
             g2 == [g1 EXCEPT !.remaining = kept]
  <2>1. g = [g2 EXCEPT !.next = g2.next + 1]
    BY DEF AfterCall
  <2>2. /\ g1 \in Emits(map) /\ g1.name = f.name /\ g1.map = f.map /\ g1.snap = f.snap
        /\ g1.next = f.next /\ ~g1.calling
    BY <1>2 DEF Emits
  <2> HIDE DEF g, g1
  <2>3. /\ g2 \in Emits(map) /\ g2.name = f.name /\ g2.map = f.map /\ g2.snap = f.snap
        /\ g2.next = f.next /\ ~g2.calling /\ g2.remaining = kept
    BY <1>6, <2>2 DEF Emits
  <2> HIDE DEF g2
  <2>4. g2.next + 1 \in Nat \ {0}
    BY <1>2, <2>3
  <2> QED BY <2>1, <2>3, <2>4 DEF Emits
<1>8. /\ left \in Seq(Entries) /\ In(left) \subseteq In(list)
      /\ \A i, k \in DOMAIN left : left[i].id = left[k].id => i = k
  <2>1. \A i, k \in DOMAIN list : list[i].id = list[k].id => i = k
    BY <1>2 DEF Registered, list
  <2> HIDE DEF hits
  <2> QED BY <1>5, <2>1, WithoutFacts, WithoutKnown
<1> HIDE DEF g, left, hits
<1>9. /\ stack' \in Seq(Emits(map)) /\ Len(stack') = m /\ DOMAIN stack' = 1..m
      /\ stack'[m] = g /\ \A i \in 1..m : i # m => stack'[i] = stack[i]
  <2> DEFINE n == m - 1
  <2>1. n \in 0..Len(stack) /\ m = n + 1 /\ n \in Nat
    BY <1>2
  <2> HIDE DEF n
  <2>2. Below = SubSeq(stack, 1, n)
    <3>1. n = Len(stack) - 1
      BY DEF n, m
    <3> QED BY <3>1 DEF Below
  <2>3. /\ Below \in Seq(Emits(map)) /\ Len(Below) = n /\ \A i \in 1..n : Below[i] = stack[i]
    BY <1>2, <2>1, <2>2, Front
  <2> HIDE DEF EventsIInv, m
  <2>4. \A i \in 1..m : i # m => i \in 1..n
    BY <2>1
  <2>5. /\ Append(Below, g) \in Seq(Emits(map)) /\ Len(Append(Below, g)) = n + 1
        /\ Append(Below, g)[n + 1] = g
        /\ \A i \in 1..n : Append(Below, g)[i] = stack[i]
    BY <1>7, <2>1, <2>3
  <2> QED BY <1>1, <2>1, <2>4, <2>5
<1>10. Len(stack) = m
  BY DEF m
<1> HIDE DEF m
<1>11. \A i \in 1..m : stack'[i].name = stack[i].name /\ stack'[i].map = stack[i].map
                       /\ stack'[i].snap = stack[i].snap
  BY <1>2, <1>7, <1>9
<1>12. /\ wanted' \in [Names -> Seq(Entries)] /\ wanted'[f.name] = left
       /\ \A n \in Names \ {f.name} : wanted'[n] = wanted[n]
  BY <1>1, <1>2, <1>8 DEF EventsTypeOK
<1>13. EventsTypeOK'
  <2>1. g.next <= Len(g.snap) + 1 /\ Len(g.remaining) < g.next
    <3>1. Len(f.snap) \in Nat /\ Len(f.remaining) \in Nat
      BY <1>2
    <3> QED BY <1>2, <1>3, <1>6, <1>7, <3>1
  <2>2. \A i \in 1..Len(stack') : /\ stack'[i].next <= Len(stack'[i].snap) + 1
                                  /\ Len(stack'[i].remaining) < stack'[i].next
    BY <1>9, <1>10, <2>1 DEF EventsTypeOK
  <2> QED BY <1>1, <1>9, <1>12, <2>2 DEF EventsTypeOK, Emits
<1>14. Emitting' = Emitting /\ f.name \in Emitting
  BY <1>2, <1>9, <1>10, <1>11 DEF Emitting
<1>15. OnceOnce' /\ ClearIsFinal'
  BY <1>1, <1>14 DEF OnceOnce, ClearIsFinal
<1>16. ListenersExact'
  BY <1>1, <1>12, <1>14 DEF ListenersExact
<1>17. Registered'
  <2>1. ASSUME NEW n \in Names, NEW e, e \in Known(n)' PROVE e \in Known(n)
    <3>1. CASE e \in In(listeners[n])
      BY <3>1 DEF Known
    <3>2. CASE e \in In(wanted'[n])
      BY <1>2, <1>8, <1>12, <3>2 DEF Known, list
    <3>3. ASSUME NEW i \in 1..m, stack'[i].name = n,
                 e \in In(stack'[i].snap) \cup In(stack'[i].remaining)
          PROVE  e \in Known(n)
      <4>1. CASE i = m
        BY <1>2, <1>4, <1>6, <1>7, <1>9, <3>3, <4>1 DEF Known
      <4>2. CASE i # m
        BY <1>2, <1>9, <3>3, <4>2 DEF Known
      <4> QED BY <4>1, <4>2
    <3> QED BY <1>1, <1>9, <2>1, <3>1, <3>2, <3>3 DEF Known
  <2>2. \A n \in Names : \A i, k \in DOMAIN wanted'[n] : wanted'[n][i].id = wanted'[n][k].id => i = k
    BY <1>8, <1>12 DEF Registered
  <2>3. \A n \in Names : Known(n)' \subseteq Known(n)
    BY <2>1
  <2> QED BY <1>1, <2>2, <2>3, NothingNew
<1>18. Snapshots'
  <2>1. /\ \A e \in In(g.snap) \cup In(g.remaining) : e.map = g.map
        /\ \A e \in In(g.remaining) : ~e.once
    BY <1>2, <1>4, <1>6, <1>7 DEF Snapshots
  <2> QED BY <1>2, <1>7, <1>9, <2>1 DEF Snapshots
<1>19. ASSUME AsWanted(f, list) PROVE AsWanted(g, left)
  <2> DEFINE r == Len(f.remaining)
             s == Len(f.snap)
             d == f.next
  <2>1. r \in Nat /\ s \in Nat /\ d \in Nat /\ d >= 1 /\ d <= s
    BY <1>2, <1>3
  <2>2. /\ Len(list) = r + s + 1 - d
        /\ \A i \in 1..r : list[i] = f.remaining[i]
        /\ \A i \in d..s : list[r + 1 + i - d] = f.snap[i]
    BY <1>19 DEF AsWanted
  <2>3. list[r + 1] = entry /\ r + 1 \in 1..Len(list)
    <3>1. d \in d..s /\ r + 1 + d - d = r + 1
      BY <2>1
    <3>2. list[r + 1] = f.snap[d]
      BY <2>2, <3>1
    <3> HIDE DEF r, s, d
    <3>3. r + 1 \in 1..Len(list)
      BY <2>1, <2>2
    <3> QED BY <3>2, <3>3 DEF entry, d
  <2>4. \A i \in 1..Len(list) : list[i].id = entry.id => i = r + 1
    BY <1>2, <1>5, <2>3 DEF Registered, list
  <2>5. CASE entry.once
    <3>1. hits = {r + 1} /\ kept = f.remaining
      BY <1>5, <1>61, <2>3, <2>4, <2>5 DEF hits
    <3> HIDE DEF r, s, d
    <3>6. \/ hits = {} /\ left = list
          \/ \E p \in hits : /\ Len(left) = Len(list) - 1
                             /\ \A i \in 1..(p - 1) : left[i] = list[i]
                             /\ \A i \in p..(Len(list) - 1) : left[i] = list[i + 1]
      BY <1>5, WithoutFacts DEF left
    <3>2. /\ Len(left) = Len(list) - 1
          /\ \A i \in 1..r : left[i] = list[i]
          /\ \A i \in (r + 1)..(Len(list) - 1) : left[i] = list[i + 1]
      <4>1. hits # {} /\ \A p \in hits : p = r + 1
        BY <3>1
      <4>2. PICK p \in hits : /\ Len(left) = Len(list) - 1
                              /\ \A i \in 1..(p - 1) : left[i] = list[i]
                              /\ \A i \in p..(Len(list) - 1) : left[i] = list[i + 1]
        BY <3>6, <4>1
      <4>3. p = r + 1
        BY <4>1
      <4>4. p - 1 = r
        BY <2>1, <4>3
      <4>5. 1..(p - 1) = 1..r /\ p..(Len(list) - 1) = (r + 1)..(Len(list) - 1)
        BY <4>3, <4>4
      <4> QED BY ONLY <4>2, <4>5
    <3>3. Len(left) = r + s + 1 - (d + 1)
      BY <2>1, <2>2, <3>2
    <3>4. \A i \in 1..r : left[i] = f.remaining[i]
      BY <2>1, <2>2, <3>2
    <3>5. ASSUME NEW i \in (d + 1)..s PROVE left[r + 1 + i - (d + 1)] = f.snap[i]
      <4> DEFINE j == r + 1 + i - (d + 1)
      <4>1. j \in (r + 1)..(Len(list) - 1) /\ j + 1 = r + 1 + i - d /\ i \in d..s
        BY <2>1, <2>2
      <4> HIDE DEF j
      <4>2. left[j] = list[j + 1]
        BY <3>2, <4>1
      <4>3. left[j] = f.snap[i]
        BY <2>2, <4>1, <4>2
      <4> QED BY <4>3 DEF j
    <3> QED BY <1>7, <3>1, <3>3, <3>4, <3>5 DEF AsWanted, r, s, d
  <2>6. CASE ~entry.once
    <3>1. hits = {} /\ kept = Append(f.remaining, entry)
      BY <1>5, <1>61, <2>3, <2>4, <2>6 DEF hits
    <3>2. left = list
      BY <3>1 DEF left, Without
    <3>3. /\ Len(kept) = r + 1 /\ kept[r + 1] = entry
          /\ \A i \in 1..r : kept[i] = f.remaining[i]
      BY <1>2, <1>4, <3>1
    <3> HIDE DEF r, s, d
    <3>4. Len(left) = (r + 1) + s + 1 - (d + 1)
      BY <2>1, <2>2, <3>2
    <3>5. \A i \in 1..(r + 1) : left[i] = kept[i]
      <4>1. \A i \in 1..(r + 1) : i = r + 1 \/ i \in 1..r
        BY <2>1
      <4> QED BY <2>2, <2>3, <3>2, <3>3, <4>1
    <3>6. \A i \in (d + 1)..s : left[(r + 1) + 1 + i - (d + 1)] = f.snap[i]
      <4>1. \A i \in (d + 1)..s : i \in d..s /\ (r + 1) + 1 + i - (d + 1) = r + 1 + i - d
        BY <2>1
      <4> QED BY <2>2, <3>2, <4>1
    <3> QED BY <1>7, <3>3, <3>4, <3>5, <3>6 DEF AsWanted, s, d
  <2> QED BY <2>5, <2>6
<1>20. ASSUME list = <<>> PROVE left = <<>>
  <2>1. hits = {}
    BY <1>20 DEF hits
  <2> QED BY <1>20, <2>1 DEF left, Without
<1>21. Undisturbed'
  <2> SUFFICES ASSUME ~touches
               PROVE  /\ \A i, k \in DOMAIN stack' : stack'[i].name = stack'[k].name => i = k
                      /\ \A i \in DOMAIN stack' :
                           IF stack'[i].map = map
                             THEN stack'[i].name \notin thrown
                                    => AsWanted(stack'[i], wanted'[stack'[i].name])
                             ELSE listeners[stack'[i].name] = <<>> /\ wanted'[stack'[i].name] = <<>>
    BY <1>1 DEF Undisturbed
  <2>1. \A i, k \in DOMAIN stack' : stack'[i].name = stack'[k].name => i = k
    BY <1>2, <1>9, <1>11 DEF Undisturbed
  <2>2. ASSUME NEW i \in 1..m
        PROVE  IF stack[i].map = map
                 THEN stack[i].name \notin thrown => AsWanted(stack'[i], wanted'[stack[i].name])
                 ELSE listeners[stack[i].name] = <<>> /\ wanted'[stack[i].name] = <<>>
    <3>0. IF stack[i].map = map
            THEN stack[i].name \notin thrown => AsWanted(stack[i], wanted[stack[i].name])
            ELSE listeners[stack[i].name] = <<>> /\ wanted[stack[i].name] = <<>>
      BY <1>2 DEF Undisturbed
    <3>1. CASE i = m
      BY <1>2, <1>9, <1>12, <1>19, <1>20, <3>0, <3>1 DEF list
    <3>2. CASE i # m
      <4>1. stack[i].name # f.name
        BY <1>2, <3>2 DEF Undisturbed
      <4>2. stack[i].name \in Names
        BY <1>10, EmitFacts
      <4> QED BY <1>9, <1>12, <3>0, <3>2, <4>1, <4>2
    <3> QED BY <3>1, <3>2
  <2> QED BY <1>9, <1>11, <2>1, <2>2
<1> QED BY <1>13, <1>15, <1>16, <1>17, <1>18, <1>21

(* emit returns: what it stores is what is wanted, or nothing if its map is an old
   one. *)
LEMMA EmitReturnStep == ASSUME EventsIInv, EmitReturn PROVE EventsIInv'
<1> USE DEF EventsIInv, EventsInv
<1> DEFINE m == Len(stack)
           n == m - 1
           f == Top
<1>1. /\ stack # <<>> /\ ~SnapLeft /\ stack' = Below
      /\ listeners' = IF f.map = map THEN [listeners EXCEPT ![f.name] = f.remaining] ELSE listeners
      /\ UNCHANGED <<touches, regs, map, calls, wanted, thrown>>
  BY DEF EmitReturn, histVars
<1>2. /\ stack \in Seq(Emits(map)) /\ m \in Nat /\ DOMAIN stack = 1..m /\ m \in 1..m /\ f = stack[m]
      /\ f \in Emits(map) /\ f.next \in Nat /\ f.name \in Names
      /\ f.snap \in Seq(Entries) /\ f.remaining \in Seq(Entries) /\ f.next <= Len(f.snap) + 1
  BY <1>1, StackFacts, EmitFacts
<1>3. f.next = Len(f.snap) + 1
  BY <1>1, <1>2 DEF SnapLeft
<1>4. n \in 0..Len(stack) /\ n \in Nat /\ m = n + 1
  BY <1>2
<1>5. Len(stack) = m /\ Below = SubSeq(stack, 1, n)
  BY DEF Below
<1> HIDE DEF f, n, m
<1>6. /\ stack' \in Seq(Emits(map)) /\ Len(stack') = n /\ DOMAIN stack' = 1..n
      /\ \A i \in 1..n : i \in 1..m /\ i # m /\ stack'[i] = stack[i]
      /\ \A i \in 1..m : i = m \/ i \in 1..n
  <2>1. /\ SubSeq(stack, 1, n) \in Seq(Emits(map)) /\ Len(SubSeq(stack, 1, n)) = n
        /\ \A i \in 1..n : SubSeq(stack, 1, n)[i] = stack[i]
    BY <1>2, <1>4, Front
  <2> HIDE DEF EventsIInv
  <2> QED BY <1>1, <1>4, <1>5, <2>1
<1>7. /\ listeners' \in [Names -> Seq(Entries)]
      /\ \A x \in Names \ {f.name} : listeners'[x] = listeners[x]
      /\ f.map = map => listeners'[f.name] = f.remaining
      /\ f.map # map => listeners'[f.name] = listeners[f.name]
  BY <1>1, <1>2 DEF EventsTypeOK
<1>8. EventsTypeOK'
  BY <1>1, <1>5, <1>6, <1>7 DEF EventsTypeOK, Emits
<1>9. Emitting = Emitting' \cup {f.name}
  <2>1. \A x : x \in Emitting => x \in Emitting' \/ x = f.name
    BY <1>2, <1>5, <1>6 DEF Emitting
  <2>2. \A x : x \in Emitting' \/ x = f.name => x \in Emitting
    BY <1>2, <1>5, <1>6 DEF Emitting
  <2> QED BY <2>1, <2>2
<1>10. \A x \in In(f.remaining) : ~x.once /\ x.map = f.map
  BY <1>2 DEF Snapshots
<1>11. \A i \in 1..Len(f.remaining) : f.remaining[i] \in In(f.remaining)
  BY <1>2 DEF In
<1>12. ClearIsFinal'
  <2> SUFFICES ASSUME NEW x \in Names, NEW i \in 1..Len(listeners'[x])
               PROVE  listeners'[x][i].map = map
    BY <1>1 DEF ClearIsFinal
  <2>1. CASE x = f.name /\ f.map = map
    BY <1>7, <1>10, <1>11, <2>1
  <2>2. CASE listeners'[x] = listeners[x]
    BY <2>2 DEF ClearIsFinal
  <2> QED BY <1>7, <2>1, <2>2
<1>13. ~touches => f.name \notin Emitting'
  BY <1>2, <1>5, <1>6 DEF Emitting, Undisturbed
<1>14. ~touches => IF f.map = map
                     THEN f.name \notin thrown => AsWanted(f, wanted[f.name])
                     ELSE listeners[f.name] = <<>> /\ wanted[f.name] = <<>>
  BY <1>2 DEF Undisturbed
<1>15. OnceOnce'
  <2> SUFFICES ASSUME ~touches, NEW x \in Names \ thrown, NEW i \in 1..Len(listeners'[x]),
                      listeners'[x][i].once, calls[listeners'[x][i].id] > 0
               PROVE  x \in Emitting'
    BY <1>1 DEF OnceOnce
  <2>1. CASE x # f.name
    BY <1>7, <1>9, <2>1 DEF OnceOnce
  <2>2. CASE x = f.name /\ f.map = map
    BY <1>7, <1>10, <1>11, <2>2
  <2>3. CASE x = f.name /\ f.map # map
    <3>1. listeners'[x] = <<>>
      BY <1>7, <1>14, <2>3
    <3> QED BY <3>1
  <2> QED BY <2>1, <2>2, <2>3
<1>16. ListenersExact'
  <2> SUFFICES ASSUME ~touches, NEW x \in Names \ (Emitting' \cup thrown)
               PROVE  listeners'[x] = wanted[x]
    BY <1>1 DEF ListenersExact
  <2>1. CASE x # f.name
    BY <1>7, <1>9, <2>1 DEF ListenersExact
  <2>2. CASE x = f.name /\ f.map = map
    <3> DEFINE w == wanted[x]
    <3>1. w \in Seq(Entries) /\ AsWanted(f, w)
      BY <1>14, <2>2 DEF EventsTypeOK
    <3> HIDE DEF w
    <3>2. Len(f.remaining) \in Nat /\ Len(f.snap) \in Nat /\ Len(w) \in Nat
      BY <1>2, <3>1
    <3>3. Len(w) = Len(f.remaining) /\ \A i \in 1..Len(w) : w[i] = f.remaining[i]
      <4>1. Len(w) = Len(f.remaining) + Len(f.snap) + 1 - f.next
            /\ \A i \in 1..Len(f.remaining) : w[i] = f.remaining[i]
        BY <3>1 DEF AsWanted
      <4>2. \A a, b \in Nat : a + b + 1 - (b + 1) = a
        OBVIOUS
      <4>3. Len(w) = Len(f.remaining) + Len(f.snap) + 1 - (Len(f.snap) + 1)
        BY <1>3, <4>1
      <4> HIDE DEF EventsIInv
      <4>4. Len(w) = Len(f.remaining)
        BY <3>2, <4>2, <4>3
      <4> QED BY <4>1, <4>4
    <3>4. w = f.remaining
      BY <1>2, <3>1, <3>3, SeqEqual
    <3> QED BY <1>7, <2>2, <3>4 DEF w
  <2>3. CASE x = f.name /\ f.map # map
    BY <1>7, <1>14, <2>3
  <2> QED BY <2>1, <2>2, <2>3
<1>17. Registered'
  <2>1. ASSUME NEW x \in Names, NEW e, e \in Known(x)' PROVE e \in Known(x)
    <3>1. CASE e \in In(wanted[x])
      BY <3>1 DEF Known
    <3>2. CASE e \in In(listeners'[x])
      BY <1>2, <1>7, <3>2 DEF Known
    <3>3. ASSUME NEW i \in 1..n, stack'[i].name = x,
                 e \in In(stack'[i].snap) \cup In(stack'[i].remaining)
          PROVE  e \in Known(x)
      BY <1>2, <1>6, <3>3 DEF Known
    <3> QED BY <1>1, <1>6, <2>1, <3>1, <3>2, <3>3 DEF Known
  <2>2. \A x \in Names : \A i, k \in DOMAIN wanted'[x] : wanted'[x][i].id = wanted'[x][k].id => i = k
    BY <1>1 DEF Registered
  <2>3. \A x \in Names : Known(x)' \subseteq Known(x)
    BY <2>1
  <2> QED BY <1>1, <2>2, <2>3, NothingNew
<1>18. Snapshots'
  BY <1>2, <1>6 DEF Snapshots
<1>19. Undisturbed'
  <2> SUFFICES ASSUME ~touches
               PROVE  /\ \A i, k \in DOMAIN stack' : stack'[i].name = stack'[k].name => i = k
                      /\ \A i \in DOMAIN stack' :
                           IF stack'[i].map = map
                             THEN stack'[i].name \notin thrown
                                    => AsWanted(stack'[i], wanted[stack'[i].name])
                             ELSE listeners'[stack'[i].name] = <<>> /\ wanted[stack'[i].name] = <<>>
    BY <1>1 DEF Undisturbed
  <2>1. \A i, k \in DOMAIN stack' : stack'[i].name = stack'[k].name => i = k
    BY <1>2, <1>6 DEF Undisturbed
  <2>2. \A i \in 1..n : stack[i].name # f.name /\ stack[i].name \in Names
    <3>1. \A i \in 1..n : stack[i].name # f.name
      BY <1>2, <1>6 DEF Undisturbed
    <3>2. \A i \in 1..n : stack[i].name \in Names
      BY <1>5, <1>6, EmitFacts
    <3> QED BY <3>1, <3>2
  <2>3. \A i \in 1..n : IF stack[i].map = map
                          THEN stack[i].name \notin thrown
                                 => AsWanted(stack[i], wanted[stack[i].name])
                          ELSE listeners[stack[i].name] = <<>> /\ wanted[stack[i].name] = <<>>
    BY <1>2, <1>6 DEF Undisturbed
  <2>4. \A i \in 1..n : listeners'[stack[i].name] = listeners[stack[i].name]
    BY <1>7, <2>2
  <2> QED BY <1>6, <2>1, <2>3, <2>4
<1> QED BY <1>8, <1>12, <1>15, <1>16, <1>17, <1>18, <1>19

(* Nobody listens: an error without listeners is thrown. *)
LEMMA EmitNothingStep ==
  ASSUME EventsIInv, NEW name \in Names, EmitNothing(name), ~UNCHANGED eventsVars PROVE EventsIInv'
<1>1. UNCHANGED <<touches, emitterVars, calls, wanted>>
  BY DEF EmitNothing
<1>2. name = Error
  BY <1>1 DEF EmitNothing, eventsVars, emitterVars, histVars
<1>3. PICK k \in 0..Len(stack) : Unwind(k)
  BY <1>2 DEF EmitNothing
<1> QED BY <1>1, <1>3, UnwindStep

(* A listener throws. *)
LEMMA ThrowStep == ASSUME EventsIInv, Throw PROVE EventsIInv'
<1>1. UNCHANGED <<touches, emitterVars, calls, wanted>>
  BY DEF Throw
<1>2. PICK k \in 0..(Len(stack) - 1) : Unwind(k)
  BY DEF Throw
<1>3. k \in 0..Len(stack)
  <2>1. Len(stack) \in Nat
    BY StackFacts DEF EventsIInv, EventsInv
  <2> QED BY <2>1
<1> QED BY <1>1, <1>2, <1>3, UnwindStep

-----------------------------------------------------------------------------
(* The theorems *)

(* it is kept if nothing happens, *)
LEMMA Unchanged == ASSUME EventsIInv, UNCHANGED eventsVars PROVE EventsIInv'
<1>1. /\ UNCHANGED <<touches, regs, map, listeners, stack, calls, wanted, thrown>>
      /\ EventsTypeOK /\ OnceOnce /\ ClearIsFinal /\ ListenersExact /\ Registered /\ Snapshots /\ Undisturbed
  BY DEF eventsVars, emitterVars, histVars, EventsIInv, EventsInv
<1>2. EventsTypeOK'
  BY <1>1 DEF EventsTypeOK
<1>3. OnceOnce' /\ ClearIsFinal' /\ ListenersExact'
  BY <1>1 DEF OnceOnce, ClearIsFinal, ListenersExact, Emitting
<1>4. Registered'
  BY <1>1 DEF Registered, Known
<1>5. Snapshots' /\ Undisturbed'
  BY <1>1 DEF Snapshots, Undisturbed
<1> QED BY <1>2, <1>3, <1>4, <1>5 DEF EventsIInv, EventsInv

(* by every step, *)
LEMMA InvStep == EventsIInv /\ [EventsNext]_eventsVars => EventsIInv'
<1> SUFFICES ASSUME EventsIInv, [EventsNext]_eventsVars PROVE EventsIInv'
  OBVIOUS
<1>1. CASE UNCHANGED eventsVars
  BY <1>1, Unchanged
<1>2. ASSUME NEW name \in Names, NEW fn \in Fns, NEW once \in BOOLEAN, NEW prepend \in BOOLEAN,
             AddListener(name, fn, once, prepend)
      PROVE  EventsIInv'
  BY <1>2, AddStep
<1>3. ASSUME NEW name \in Names, NEW fn \in Fns, RemoveListener(name, fn) PROVE EventsIInv'
  BY <1>3, RemoveStep
<1>4. ASSUME NEW name \in Names, RemoveAll(name) PROVE EventsIInv'
  BY <1>4, RemoveAllStep
<1>5. ASSUME NEW name \in Names, EmitNothing(name) PROVE EventsIInv'
  BY <1>1, <1>5, EmitNothingStep
<1>6. ASSUME NEW name \in Names, Emit(name) PROVE EventsIInv'
  BY <1>6, EmitStep
<1>7. CASE Clear
  BY <1>7, ClearStep
<1>8. CASE CallListener
  BY <1>8, CallStep
<1>9. CASE ListenerReturn
  BY <1>9, ListenerReturnStep
<1>10. CASE EmitReturn
  BY <1>10, EmitReturnStep
<1>11. CASE Throw
  BY <1>11, ThrowStep
<1> QED BY <1>1, <1>2, <1>3, <1>4, <1>5, <1>6, <1>7, <1>8, <1>9, <1>10, <1>11 DEF EventsNext

(* so it holds always. *)
LEMMA Always == EventsSpec => []EventsIInv
<1> QED BY InitEvents, InvStep, PTL DEF EventsSpec

(* What was used up or cleared does not come back, for any number of emits in each
   other. *)
THEOREM EmitterSafe == EventsSpec => []EventsInv
<1>1. EventsIInv => EventsInv
  BY DEF EventsIInv
<1> QED BY <1>1, Always, PTL

(* An event that no emit is busy with has exactly the listeners asked for. *)
THEOREM ListenersAlwaysExact == EventsSpec => []ListenersExact
<1>1. EventsIInv => ListenersExact
  BY DEF EventsIInv
<1> QED BY <1>1, Always, PTL

=============================================================================
