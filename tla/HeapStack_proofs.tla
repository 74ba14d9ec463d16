-------------------------- MODULE HeapStack_proofs --------------------------
(* Proofs about the two places where a program keeps its values: the heap and its
   collector (Heap), for any blocks, variables, texts and bounds; and the C stack
   that setjmp and longjmp cut (Exceptions), for any nesting of functions, try
   statements, callbacks and throws.  The two are proved apart, each for its own
   specification. *)
EXTENDS Heap, Exceptions, FiniteSetTheorems, SequenceTheorems, TLAPS

-----------------------------------------------------------------------------
(* Texts and the collector *)

(* A text is a sequence of letters that is not too long. *)
LEMMA TextsAre ==
  /\ \A t : t \in Texts <=> t \in Seq(Letters) /\ Len(t) <= MaxLen
  /\ <<>> \in Texts
<1>1. ASSUME NEW t \in Texts PROVE t \in Seq(Letters) /\ Len(t) <= MaxLen
  <2>1. PICK n \in 0 .. MaxLen : t \in [1 .. n -> Letters]
    BY DEF Texts
  <2>2. n \in Nat /\ n <= MaxLen
    BY HeapAssumption
  <2>3. t \in Seq(Letters) /\ Len(t) = n
    BY <2>1, <2>2
  <2> QED BY <2>2, <2>3
<1>2. ASSUME NEW t \in Seq(Letters), Len(t) <= MaxLen PROVE t \in Texts
  <2>1. Len(t) \in 0 .. MaxLen /\ t \in [1 .. Len(t) -> Letters]
    BY <1>2, HeapAssumption
  <2> QED BY <2>1 DEF Texts
<1>3. <<>> \in Seq(Letters) /\ Len(<<>>) <= MaxLen
  BY HeapAssumption
<1> QED BY <1>1, <1>2, <1>3

(* Texts joined. *)
LEMMA Joined ==
  ASSUME NEW s \in Seq(Letters), NEW u \in Seq(Letters)
  PROVE  /\ s \o u \in Seq(Letters)
         /\ s \o <<>> = s
         /\ \A c \in Letters : Append(s, c) = s \o <<c>> /\ Append(s, c) \in Seq(Letters)
  BY ConcatProperties, ConcatEmptySeq, AppendIsConcat, AppendProperties

Handles == ValuesOf(frame) \cup {array}

(* A collection of list h keeps a part of it, with everything of it that a variable
   points at, the program's array, and what that array holds. *)
LEMMA KeptFacts ==
  ASSUME TypeOK, NEW h \in SUBSET heap, NEW stale
  PROVE  /\ Kept(h, stale) \subseteq h
         /\ Handles \cap h \subseteq Kept(h, stale)
         /\ array \in h => ValuesOf(items[array]) \cap h \subseteq Kept(h, stale)
<1> DEFINE top == (Roots \cup stale) \cap h
<1>1. Kept(h, stale) = top \cup (h \cap UNION {ValuesOf(items[a]) : a \in top \cap Arrays})
  BY DEF Kept, Reach
<1>2. Handles \cap h \subseteq top
  BY DEF Roots, Handles
<1>3. ASSUME array \in h PROVE array \in top \cap Arrays
  BY <1>3, HeapAssumption DEF TypeOK, Blocks, Roots
<1> QED BY <1>1, <1>2, <1>3

(* Arithmetic of the counters: an allocation after a collection, and without one. *)
LEMMA FloorFacts ==
  ASSUME NEW n \in Nat
  PROVE  Floor(n) \in Nat /\ Floor(n) >= n /\ Floor(n) >= 1
  BY HeapAssumption DEF Floor

(* free_header's arithmetic is exact when it is right about the list before. *)
LEMMA FreedCount ==
  ASSUME IsFiniteSet(heap), AccountsExact, NEW now \in SUBSET heap
  PROVE  /\ Less(bytesLive, Cardinality(heap \ now)) = Cardinality(now)
         /\ IsFiniteSet(now) /\ Cardinality(now) \in Nat
         /\ Cardinality(now) <= Cardinality(heap) /\ Cardinality(heap) \in Nat
<1>1. /\ IsFiniteSet(now) /\ Cardinality(now) \in Nat
      /\ Cardinality(now) <= Cardinality(heap) /\ Cardinality(heap) \in Nat
  BY FS_Subset, FS_CardinalityType
<1>2. heap \cap now = now
  OBVIOUS
<1>3. Cardinality(heap \ now) = Cardinality(heap) - Cardinality(now)
  BY <1>2, FS_Difference
<1>4. Cardinality(heap \ now) \in Nat
  BY <1>1, <1>3
<1> QED BY <1>1, <1>3 DEF Less, AccountsExact

-----------------------------------------------------------------------------
(* What the three uses of the list do *)

Counted(n, s, t) == s <= t /\ 2 * n <= 2 * s + t

Allocated(its, h, kind, b, t, now) ==
  /\ Handles \cap h \subseteq now
  /\ array \in h => ValuesOf(items[array]) \cap h \subseteq now
  /\ b \in kind \ now
  /\ heap' = now \cup {b}
  /\ text' = [s \in Strings |-> IF s = b THEN t
                                ELSE IF s \in now THEN text[s] ELSE <<>>]
  /\ items' = [a \in Arrays |-> IF a \in now THEN its[a] ELSE <<>>]
  /\ IsFiniteSet(heap') /\ AccountsExact'
  /\ bytesLive' \in Nat /\ since' \in Nat /\ threshold' \in Nat
  /\ HeapBounded'

(* An allocation keeps a part of list h with all handles in it, adds a new block to it, and
   leaves the counters right. *)
LEMMA AllocFacts ==
  ASSUME HeapIInv, NEW h \in SUBSET heap, NEW its, NEW kind, NEW b, NEW t,
         AllocInto(its, h, kind, b, t)
  PROVE  \E now \in SUBSET h : Allocated(its, h, kind, b, t, now)
<1> USE DEF HeapIInv, HeapInv
<1>1. PICK stale \in IF Collecting(h, kind) THEN Stale(h) ELSE {{}} :
        LET now  == IF Collecting(h, kind) THEN Kept(h, stale) ELSE h
            left == Less(bytesLive, Cardinality(heap \ now))
        IN  /\ b \in kind \ now
            /\ heap' = now \cup {b}
            /\ text' = [s \in Strings |-> IF s = b THEN t
                                          ELSE IF s \in now THEN text[s] ELSE <<>>]
            /\ items' = [a \in Arrays |-> IF a \in now THEN its[a] ELSE <<>>]
            /\ bytesLive' = left + 1
            /\ since' = (IF Collecting(h, kind) THEN 0 ELSE since) + 1
            /\ threshold' = IF Collecting(h, kind) THEN Floor(2 * left) ELSE threshold
  BY DEF AllocInto
<1> DEFINE now == IF Collecting(h, kind) THEN Kept(h, stale) ELSE h
           n == Cardinality(now)
<1>2. /\ now \in SUBSET h
      /\ Handles \cap h \subseteq now
      /\ array \in h => ValuesOf(items[array]) \cap h \subseteq now
  <2>1. CASE Collecting(h, kind)
    BY <2>1, KeptFacts
  <2>2. CASE ~Collecting(h, kind)
    BY <2>2
  <2> QED BY <2>1, <2>2
<1>3. /\ b \in kind \ now
      /\ heap' = now \cup {b}
      /\ text' = [s \in Strings |-> IF s = b THEN t
                                    ELSE IF s \in now THEN text[s] ELSE <<>>]
      /\ items' = [a \in Arrays |-> IF a \in now THEN its[a] ELSE <<>>]
      /\ bytesLive' = Less(bytesLive, Cardinality(heap \ now)) + 1
      /\ since' = (IF Collecting(h, kind) THEN 0 ELSE since) + 1
      /\ threshold' = IF Collecting(h, kind)
                        THEN Floor(2 * Less(bytesLive, Cardinality(heap \ now)))
                        ELSE threshold
  BY <1>1, Zenon
<1> HIDE DEF now
<1>4. /\ bytesLive' = n + 1 /\ n \in Nat /\ IsFiniteSet(now)
      /\ n <= bytesLive
      /\ threshold' = IF Collecting(h, kind) THEN Floor(2 * n) ELSE threshold
  BY <1>2, <1>3, FreedCount DEF AccountsExact
<1>5. IsFiniteSet(heap') /\ Cardinality(heap') = n + 1
  <2>1. b \notin now
    BY <1>3
  <2> QED BY <1>3, <1>4, <2>1, FS_AddElement
<1>6. /\ bytesLive' \in Nat /\ since' \in Nat /\ threshold' \in Nat
      /\ since' <= threshold' /\ 2 * bytesLive' <= 2 * since' + threshold'
  <2> DEFINE m == n
  <2>1. m \in Nat /\ bytesLive' = m + 1 /\ m <= bytesLive
    BY <1>4
  <2>2. since \in Nat /\ threshold \in Nat /\ bytesLive \in Nat
        /\ 2 * bytesLive <= 2 * since + threshold
    BY DEF TypeOK, HeapBounded
  <2>3. CASE Collecting(h, kind)
    <3>1. threshold' = Floor(2 * m) /\ since' = 1
      BY <1>3, <1>4, <2>3
    <3>2. Floor(2 * m) \in Nat /\ Floor(2 * m) >= 2 * m /\ Floor(2 * m) >= 1
      BY <2>1, FloorFacts
    <3> HIDE DEF m
    <3> QED BY <2>1, <3>1, <3>2
  <2>4. CASE ~Collecting(h, kind)
    <3>1. threshold' = threshold /\ since' = since + 1
      BY <1>3, <1>4, <2>2, <2>4
    <3>2. since < threshold
      BY <2>2, <2>4 DEF Collecting
    <3> HIDE DEF m
    <3> QED BY <2>1, <2>2, <3>1, <3>2
  <2> QED BY <2>3, <2>4
<1>7. AccountsExact' /\ HeapBounded'
  BY <1>4, <1>5, <1>6 DEF AccountsExact, HeapBounded
<1> QED BY <1>2, <1>3, <1>5, <1>6, <1>7 DEF Allocated

(* The same for a statement that ends with a collection or with frees. *)
Left(h, now) ==
  /\ Handles \cap h \subseteq now
  /\ array \in h => ValuesOf(items[array]) \cap h \subseteq now
  /\ heap' = now
  /\ Wiped(now)
  /\ IsFiniteSet(heap') /\ AccountsExact'
  /\ bytesLive' \in Nat /\ since' \in Nat /\ threshold' \in Nat
  /\ HeapBounded'

(* ts_gc_collect keeps a part of what the statement left, *)
LEMMA CollectFacts ==
  ASSUME HeapIInv, NEW h \in SUBSET heap, Collect(h)
  PROVE  \E now \in SUBSET h : Left(h, now)
<1> USE DEF HeapIInv, HeapInv
<1>1. PICK stale \in Stale(h) :
        LET now == Kept(h, stale)
        IN  /\ heap' = now
            /\ Wiped(now)
            /\ bytesLive' = Less(bytesLive, Cardinality(heap \ now))
            /\ since' = 0
            /\ threshold' = Floor(2 * bytesLive')
  BY DEF Collect
<1> DEFINE now == Kept(h, stale)
           n == Cardinality(now)
<1>2. /\ now \in SUBSET h
      /\ Handles \cap h \subseteq now
      /\ array \in h => ValuesOf(items[array]) \cap h \subseteq now
  BY KeptFacts
<1>3. /\ heap' = now
      /\ Wiped(now)
      /\ bytesLive' = Less(bytesLive, Cardinality(heap \ now))
      /\ since' = 0
      /\ threshold' = Floor(2 * bytesLive')
  BY <1>1, Zenon
<1> HIDE DEF now
<1>4. bytesLive' = n /\ n \in Nat /\ IsFiniteSet(now)
  BY <1>2, <1>3, FreedCount
<1>5. /\ since' \in Nat /\ threshold' \in Nat /\ HeapBounded'
  <2>1. Floor(2 * bytesLive') \in Nat /\ Floor(2 * bytesLive') >= 2 * bytesLive'
    BY <1>4, FloorFacts
  <2> QED BY <1>3, <1>4, <2>1 DEF HeapBounded
<1> QED BY <1>2, <1>3, <1>4, <1>5 DEF AccountsExact, Left

(* and ts_string_free all but what it is given. *)
LEMMA ReleaseFacts ==
  ASSUME HeapIInv, NEW gone, Release(gone)
  PROVE  Left(heap \ gone, heap \ gone)
<1> USE DEF HeapIInv, HeapInv
<1> DEFINE now == heap \ gone
<1>1. heap \ now = heap \cap gone /\ now \in SUBSET heap
  OBVIOUS
<1>2. /\ Less(bytesLive, Cardinality(heap \ now)) = Cardinality(now)
      /\ IsFiniteSet(now) /\ Cardinality(now) \in Nat
      /\ Cardinality(now) <= bytesLive
  BY <1>1, FreedCount DEF AccountsExact
<1>3. /\ heap' = now /\ Wiped(now) /\ bytesLive' = Cardinality(now)
      /\ since' = since /\ threshold' = threshold
  BY <1>1, <1>2 DEF Release
<1>4. HeapBounded' /\ bytesLive' \in Nat /\ since' \in Nat /\ threshold' \in Nat
  BY <1>2, <1>3 DEF HeapBounded, TypeOK
<1>5. Handles \cap now \subseteq now /\ (array \in now => ValuesOf(items[array]) \cap now \subseteq now)
  OBVIOUS
<1> HIDE DEF now
<1>6. IsFiniteSet(heap') /\ AccountsExact'
  BY <1>2, <1>3 DEF AccountsExact
<1>7. Left(now, now)
  BY <1>3, <1>4, <1>5, <1>6 DEF Left
<1> QED BY <1>7 DEF now

-----------------------------------------------------------------------------
(* The statements.  What a step does to programs that are not plain is a matter *)
(* of types and counters only.                                                  *)

(* A block that is held is on the list: by a variable, by the array, or it is the
   array. *)
LEMMA HeldFacts ==
  ASSUME HeapIInv, plain
  PROVE  /\ \A u \in Slots : frame[u] \in heap \cup {Null}
         /\ array \in heap \cup {Null}
         /\ array \in heap => \A i \in DOMAIN items[array] : items[array][i] \in heap
         /\ Null \notin heap
  BY HeapAssumption DEF HeapIInv, HeapInv, TypeOK, HandlesLive, ValuesOf, HasArray, Blocks

(* Of the blocks in use, list h leaves out at most the one variable v points at. *)
Spares(h, v) ==
  plain => /\ \A u \in Slots \ {v} : frame[u] \in h \cup {Null}
           /\ array \in h \cup {Null}
           /\ array \in heap => \A i \in DOMAIN items[array] : items[array][i] \in h

(* A new string is assigned to v: literals, concatenations, and appends that
   replace v's block. *)
LEMMA AssignNew ==
  ASSUME HeapIInv, NEW h \in SUBSET heap, NEW v \in Slots, NEW b, NEW t \in Texts, NEW wanted,
         Alloc(h, Strings, b, t), Assign(v, b, wanted),
         Spares(h, v), plain => wanted = t
  PROVE  HeapIInv'
<1> USE DEF HeapIInv, HeapInv
<1>0. PICK now \in SUBSET h : Allocated(items, h, Strings, b, t, now)
  BY AllocFacts DEF Alloc
<1>1. /\ Handles \cap h \subseteq now
      /\ array \in h => ValuesOf(items[array]) \cap h \subseteq now
      /\ b \in Strings \ now
      /\ heap' = now \cup {b}
      /\ text' = [s \in Strings |-> IF s = b THEN t
                                    ELSE IF s \in now THEN text[s] ELSE <<>>]
      /\ items' = [a \in Arrays |-> IF a \in now THEN items[a] ELSE <<>>]
      /\ IsFiniteSet(heap') /\ AccountsExact'
      /\ bytesLive' \in Nat /\ since' \in Nat /\ threshold' \in Nat
      /\ HeapBounded'
  BY <1>0 DEF Allocated
<1>2. /\ frame' = [frame EXCEPT ![v] = b]
      /\ want' = [want EXCEPT ![v] = IF plain THEN wanted ELSE Unset]
      /\ plain' = plain /\ array' = array /\ wantItems' = wantItems
  BY DEF Assign
<1>3. TypeOK'
  <2>1. heap' \subseteq Blocks
    BY <1>1 DEF TypeOK, Blocks
  <2>2. text' \in [Strings -> Texts]
    BY <1>1, TextsAre DEF TypeOK
  <2>3. items' \in [Arrays -> Seq(Strings)]
    <3>1. <<>> \in Seq(Strings)
      OBVIOUS
    <3> QED BY <1>1, <3>1 DEF TypeOK
  <2>4. frame' \in [Slots -> Strings \cup {Null}]
    BY <1>1, <1>2 DEF TypeOK
  <2>5. want' \in [Slots -> Texts \cup {Unset}]
    BY <1>2 DEF TypeOK
  <2> QED BY <1>1, <1>2, <2>1, <2>2, <2>3, <2>4, <2>5 DEF TypeOK
<1>4. ASSUME plain
      PROVE  /\ \A u \in Slots \ {v} : frame'[u] = frame[u] /\ frame[u] \in now \cup {Null}
             /\ frame'[v] = b
             /\ array \in now \cup {Null}
             /\ array \in heap' => /\ array \in now /\ items'[array] = items[array]
                                   /\ \A i \in DOMAIN items[array] : items[array][i] \in now
  <2>1. \A u \in Slots \ {v} : frame'[u] = frame[u] /\ frame[u] \in now \cup {Null}
    BY <1>1, <1>2, <1>4 DEF Spares, TypeOK, Handles, ValuesOf
  <2>2. frame'[v] = b
    BY <1>2 DEF TypeOK
  <2>3. array \in now \cup {Null}
    BY <1>1, <1>4 DEF Spares, Handles
  <2>4. ASSUME array \in heap'
        PROVE  array \in now /\ array \in Arrays
    BY <1>1, <2>3, <2>4, HeapAssumption DEF TypeOK, Blocks
  <2>5. ASSUME array \in heap'
        PROVE  /\ items'[array] = items[array]
               /\ \A i \in DOMAIN items[array] : items[array][i] \in now
    BY <1>1, <1>4, <2>4, <2>5 DEF Spares, ValuesOf
  <2> QED BY <2>1, <2>2, <2>3, <2>4, <2>5
<1>5. HandlesLive'
  <2> SUFFICES ASSUME plain PROVE /\ \A u \in Slots : frame'[u] \in heap' \cup {Null}
                                  /\ array \in heap' \cup {Null}
                                  /\ array \in heap' => \A i \in DOMAIN items'[array] : items'[array][i] \in heap'
    BY <1>2, <1>3 DEF HandlesLive, TypeOK, ValuesOf, HasArray
  <2> QED BY <1>1, <1>4
<1>6. OneHolder'
  <2> SUFFICES ASSUME plain
               PROVE  /\ \A u, w \in Slots : u # w /\ frame'[u] = frame'[w] => frame'[u] = Null
                      /\ array \in heap' =>
                          /\ \A i, j \in DOMAIN items'[array] : i # j => items'[array][i] # items'[array][j]
                          /\ \A i \in DOMAIN items'[array], u \in Slots : items'[array][i] # frame'[u]
    BY <1>2, <1>3 DEF OneHolder, TypeOK, ValuesOf, HasArray
  <2>1. b # Null /\ b \notin now /\ (array \in now => array \in heap)
    BY <1>1, HeapAssumption
  <2>2. ASSUME NEW u \in Slots, NEW w \in Slots, u # w, frame'[u] = frame'[w]
        PROVE  frame'[u] = Null
    BY <1>1, <1>4, <2>1, <2>2, HeapAssumption DEF OneHolder
  <2>3. ASSUME array \in heap'
        PROVE  /\ \A i, j \in DOMAIN items'[array] : i # j => items'[array][i] # items'[array][j]
               /\ \A i \in DOMAIN items'[array], u \in Slots : items'[array][i] # frame'[u]
    <3>1. array \in heap /\ items'[array] = items[array]
          /\ \A i \in DOMAIN items[array] : items[array][i] # b
      BY <1>4, <2>1, <2>3
    <3>2. /\ \A i, j \in DOMAIN items[array] : i # j => items[array][i] # items[array][j]
          /\ \A i \in DOMAIN items[array], u \in Slots : items[array][i] # frame[u]
      <4>1. /\ \A i, j \in DOMAIN items[array] : i # j => items[array][i] # items[array][j]
            /\ ValuesOf(items[array]) \cap ValuesOf(frame) = {}
        BY <3>1, SMT DEF OneHolder, HasArray
      <4>2. \A i \in DOMAIN items[array], u \in Slots :
              items[array][i] \in ValuesOf(items[array]) /\ frame[u] \in ValuesOf(frame)
        BY DEF ValuesOf, TypeOK
      <4> QED BY <4>1, <4>2
    <3> QED BY <1>4, <3>1, <3>2
  <2> QED BY <2>2, <2>3
<1>7. ValuesAsWritten'
  <2> SUFFICES ASSUME plain
               PROVE  /\ \A u \in Slots : frame'[u] # Null => text'[frame'[u]] = want'[u]
                      /\ array \in heap' =>
                           /\ DOMAIN items'[array] = DOMAIN wantItems
                           /\ \A i \in DOMAIN wantItems : text'[items'[array][i]] = wantItems[i]
    BY <1>2 DEF ValuesAsWritten, HasArray
  <2>1. \A s \in now \cap Strings : text'[s] = text[s]
    BY <1>1
  <2>2. text'[b] = t /\ want'[v] = t
    BY <1>1, <1>2 DEF TypeOK
  <2>3. ASSUME NEW u \in Slots \ {v}, frame'[u] # Null
        PROVE  text'[frame'[u]] = want'[u]
    <3>1. frame[u] \in now \cap Strings
      BY <1>4, <2>3 DEF TypeOK
    <3>2. want'[u] = want[u]
      BY <1>2 DEF TypeOK
    <3> QED BY <1>4, <2>1, <2>3, <3>1, <3>2 DEF ValuesAsWritten
  <2>4. ASSUME array \in heap'
        PROVE  /\ DOMAIN items'[array] = DOMAIN wantItems
               /\ \A i \in DOMAIN wantItems : text'[items'[array][i]] = wantItems[i]
    <3>1. array \in heap /\ array \in Arrays
      BY <1>4, <2>4, HeapAssumption DEF TypeOK, Blocks
    <3>2. \A i \in DOMAIN items[array] : items[array][i] \in now \cap Strings
      BY <1>4, <2>4, <3>1 DEF TypeOK
    <3> QED BY <1>4, <2>1, <2>4, <3>1, <3>2 DEF ValuesAsWritten, HasArray
  <2> QED BY <1>4, <2>2, <2>3, <2>4
<1> QED BY <1>1, <1>3, <1>5, <1>6, <1>7

(* A step that frees blocks and sets variables to Null at most: a collection, and
   the end of a loop body. *)
LEMMA Fewer ==
  ASSUME HeapIInv, NEW h \in SUBSET heap, NEW now \in SUBSET h, Left(h, now),
         frame' \in [Slots -> Strings \cup {Null}],
         want' \in [Slots -> Texts \cup {Unset}],
         \A u \in Slots : \/ frame'[u] = Null
                          \/ frame'[u] = frame[u] /\ want'[u] = want[u],
         plain' = plain, array' = array, wantItems' = wantItems,
         plain => /\ \A u \in Slots : frame'[u] \in h \cup {Null}
                  /\ array \in h \cup {Null}
                  /\ array \in heap => \A i \in DOMAIN items[array] : items[array][i] \in h
  PROVE  HeapIInv'
<1> USE DEF HeapIInv, HeapInv
<1>1. /\ Handles \cap h \subseteq now
      /\ array \in h => ValuesOf(items[array]) \cap h \subseteq now
      /\ heap' = now
      /\ text' = [s \in Strings |-> IF s \in now THEN text[s] ELSE <<>>]
      /\ items' = [a \in Arrays |-> IF a \in now THEN items[a] ELSE <<>>]
      /\ IsFiniteSet(heap') /\ AccountsExact'
      /\ bytesLive' \in Nat /\ since' \in Nat /\ threshold' \in Nat
      /\ HeapBounded'
  BY DEF Left, Wiped
<1>2. TypeOK'
  <2>1. heap' \subseteq Blocks
    BY <1>1 DEF TypeOK
  <2>2. text' \in [Strings -> Texts]
    BY <1>1, TextsAre DEF TypeOK
  <2>3. items' \in [Arrays -> Seq(Strings)]
    <3>1. <<>> \in Seq(Strings)
      OBVIOUS
    <3> QED BY <1>1, <3>1 DEF TypeOK
  <2> QED BY <1>1, <2>1, <2>2, <2>3 DEF TypeOK
<1>3. ASSUME plain
      PROVE  /\ \A u \in Slots : frame'[u] \in now \cup {Null}
             /\ array \in now \cup {Null}
             /\ array \in now => /\ items'[array] = items[array]
                                 /\ \A i \in DOMAIN items[array] : items[array][i] \in now
  <2>1. \A u \in Slots : frame[u] \in Handles
    BY DEF Handles, ValuesOf, TypeOK
  <2>2. \A u \in Slots : frame'[u] \in now \cup {Null}
    BY <1>1, <1>3, <2>1
  <2>3. array \in now \cup {Null}
    BY <1>1, <1>3 DEF Handles
  <2>4. ASSUME array \in now
        PROVE  /\ items'[array] = items[array]
               /\ \A i \in DOMAIN items[array] : items[array][i] \in now
    <3>1. array \in Arrays /\ array \in heap /\ array \in h
      BY <2>4, HeapAssumption DEF TypeOK, Blocks
    <3> QED BY <1>1, <1>3, <2>4, <3>1 DEF ValuesOf
  <2> QED BY <2>2, <2>3, <2>4
<1>4. HandlesLive'
  <2> SUFFICES ASSUME plain PROVE /\ \A u \in Slots : frame'[u] \in heap' \cup {Null}
                                  /\ array \in heap' \cup {Null}
                                  /\ array \in heap' => \A i \in DOMAIN items'[array] : items'[array][i] \in heap'
    BY <1>2 DEF HandlesLive, TypeOK, ValuesOf, HasArray
  <2> QED BY <1>1, <1>3
<1>5. ASSUME plain, array \in heap'
      PROVE  /\ array \in heap /\ items'[array] = items[array]
             /\ \A i \in DOMAIN items[array] : items[array][i] \in now \cap Strings
  <2>1. array \in heap /\ array \in Arrays
    BY <1>1, <1>5, HeapAssumption DEF TypeOK, Blocks
  <2> QED BY <1>1, <1>3, <1>5, <2>1 DEF TypeOK
<1>6. OneHolder'
  <2> SUFFICES ASSUME plain
               PROVE  /\ \A u, w \in Slots : u # w /\ frame'[u] = frame'[w] => frame'[u] = Null
                      /\ array \in heap' =>
                          /\ \A i, j \in DOMAIN items'[array] : i # j => items'[array][i] # items'[array][j]
                          /\ \A i \in DOMAIN items'[array], u \in Slots : items'[array][i] # frame'[u]
    BY <1>2 DEF OneHolder, TypeOK, ValuesOf, HasArray
  <2>1. \A u, w \in Slots : u # w /\ frame'[u] = frame'[w] => frame'[u] = Null
    BY Zenon DEF OneHolder
  <2>2. ASSUME array \in heap'
        PROVE  /\ \A i, j \in DOMAIN items[array] : i # j => items[array][i] # items[array][j]
               /\ \A i \in DOMAIN items[array], u \in Slots : items[array][i] # frame'[u]
    <3>1. /\ \A i, j \in DOMAIN items[array] : i # j => items[array][i] # items[array][j]
          /\ ValuesOf(items[array]) \cap ValuesOf(frame) = {}
      BY <1>5, <2>2, Zenon DEF OneHolder, HasArray
    <3>2. \A i \in DOMAIN items[array], u \in Slots :
            items[array][i] \in ValuesOf(items[array]) /\ frame[u] \in ValuesOf(frame)
      BY DEF ValuesOf, TypeOK
    <3>3. \A i \in DOMAIN items[array] : items[array][i] # Null
      BY <1>5, <2>2, HeapAssumption
    <3> QED BY <3>1, <3>2, <3>3
  <2> QED BY <1>5, <2>1, <2>2
<1>7. ValuesAsWritten'
  <2> SUFFICES ASSUME plain
               PROVE  /\ \A u \in Slots : frame'[u] # Null => text'[frame'[u]] = want'[u]
                      /\ array \in heap' =>
                           /\ DOMAIN items'[array] = DOMAIN wantItems
                           /\ \A i \in DOMAIN wantItems : text'[items'[array][i]] = wantItems[i]
    BY DEF ValuesAsWritten, HasArray
  <2>1. \A s \in now \cap Strings : text'[s] = text[s]
    BY <1>1
  <2>2. ASSUME NEW u \in Slots, frame'[u] # Null
        PROVE  text'[frame'[u]] = want'[u]
    <3>1. frame'[u] = frame[u] /\ want'[u] = want[u]
      BY <2>2
    <3>2. frame[u] \in now \cap Strings
      BY <1>3, <2>2, <3>1 DEF TypeOK
    <3> QED BY <2>1, <2>2, <3>1, <3>2 DEF ValuesAsWritten
  <2>3. ASSUME array \in heap'
        PROVE  /\ DOMAIN items'[array] = DOMAIN wantItems
               /\ \A i \in DOMAIN wantItems : text'[items'[array][i]] = wantItems[i]
    BY <1>5, <2>1, <2>3 DEF ValuesAsWritten, HasArray
  <2> QED BY <2>2, <2>3
<1> QED BY <1>1, <1>2, <1>4, <1>6, <1>7

(* A string that grows in place is the one of its one holder, v. *)
LEMMA Grows ==
  ASSUME HeapIInv, NEW v \in Slots, NEW a \in heap \cap Strings, NEW grown \in SUBSET Seq(Letters),
          NEW wanted,
         GrowInPlace(v, a, grown, wanted),
         plain => frame[v] = a /\ \A t \in grown : wanted = t
  PROVE  HeapIInv'
<1> USE DEF HeapIInv, HeapInv
<1>1. PICK t \in grown : Len(t) <= MaxLen /\ text' = [text EXCEPT ![a] = t]
  BY DEF GrowInPlace
<1>2. t \in Texts
  BY <1>1, TextsAre
<1>3. /\ frame' = [frame EXCEPT ![v] = a]
      /\ want' = [want EXCEPT ![v] = IF plain THEN wanted ELSE Unset]
      /\ UNCHANGED <<plain, array, wantItems, heap, items, bytesLive, since, threshold>>
  BY DEF GrowInPlace, Assign, counts
<1>4. TypeOK'
  BY <1>1, <1>2, <1>3 DEF TypeOK
<1>5. IsFiniteSet(heap') /\ AccountsExact' /\ HeapBounded'
  BY <1>3 DEF AccountsExact, HeapBounded
<1>6. CASE ~plain
  BY <1>3, <1>4, <1>5, <1>6 DEF OneHolder, HandlesLive, ValuesAsWritten
<1>7. CASE plain
  <2>1. frame' = frame
    BY <1>3, <1>7 DEF TypeOK
  <2>2. HandlesLive' /\ OneHolder'
    <3>1. UNCHANGED <<plain, array, heap, items, frame>>
      BY <1>3, <2>1
    <3>2. HandlesLive'
      BY <3>1 DEF HandlesLive, HasArray
    <3>3. OneHolder'
      BY <3>1, SMT DEF OneHolder, HasArray
    <3> QED BY <3>2, <3>3
  <2>3. ASSUME NEW u \in Slots, frame[u] # Null
        PROVE  text'[frame[u]] = want'[u]
    <3>1. frame[u] \in Strings
      BY <2>3 DEF TypeOK
    <3>2. CASE u = v
      BY <1>1, <1>3, <1>7, <3>2 DEF TypeOK
    <3>3. CASE u # v
      <4>1. frame[u] # a
        BY <1>7, <2>3, <3>3 DEF OneHolder
      <4> QED BY <1>1, <1>3, <1>7, <2>3, <3>1, <3>3, <4>1 DEF TypeOK, ValuesAsWritten
    <3> QED BY <3>2, <3>3
  <2>4. ASSUME HasArray
        PROVE  /\ DOMAIN items[array] = DOMAIN wantItems
               /\ \A i \in DOMAIN wantItems : text'[items[array][i]] = wantItems[i]
    <3>1. array \in Arrays
      BY <2>4, HeapAssumption DEF TypeOK, HasArray, Blocks
    <3>2. /\ DOMAIN items[array] = DOMAIN wantItems
          /\ \A i \in DOMAIN wantItems : text[items[array][i]] = wantItems[i]
      BY <1>7, <2>4 DEF ValuesAsWritten
    <3>3. ValuesOf(items[array]) \cap ValuesOf(frame) = {}
      BY <1>7, <2>4, Zenon DEF OneHolder
    <3>4. a \in ValuesOf(frame) /\ \A i \in DOMAIN items[array] : items[array][i] \in ValuesOf(items[array])
      BY <1>7 DEF ValuesOf, TypeOK
    <3>5. \A i \in DOMAIN items[array] : items[array][i] \in Strings /\ items[array][i] # a
      BY <3>1, <3>3, <3>4 DEF TypeOK
    <3> QED BY <1>1, <3>2, <3>5 DEF TypeOK
  <2>5. ValuesAsWritten'
    BY <1>3, <2>1, <2>3, <2>4 DEF ValuesAsWritten, HasArray
  <2> QED BY <1>4, <1>5, <2>2, <2>5
<1> QED BY <1>6, <1>7

(* Programs that are not plain have types and counters to keep. *)
LEMMA NotPlain ==
  ASSUME HeapIInv, ~plain, plain' = plain, TypeOK',
         IsFiniteSet(heap') /\ AccountsExact' /\ HeapBounded'
  PROVE  HeapIInv'
  BY DEF HeapIInv, HeapInv, OneHolder, HandlesLive, ValuesAsWritten

(* A step that allocates and frees nothing. *)
LEMMA CountersKept ==
  ASSUME HeapIInv, UNCHANGED <<heap, bytesLive, since, threshold>>
  PROVE  IsFiniteSet(heap') /\ AccountsExact' /\ HeapBounded'
  BY DEF HeapIInv, HeapInv, AccountsExact, HeapBounded

-----------------------------------------------------------------------------
(* One lemma for each statement *)

(* v = "...", a new block, *)
LEMMA LiteralStep ==
  ASSUME HeapIInv, NEW v \in Slots, Literal(v)
  PROVE  HeapIInv'
<1>1. PICK t \in Texts, b \in Strings : Alloc(heap, Strings, b, t) /\ Assign(v, b, t)
  BY DEF Literal
<1>2. Spares(heap, v)
  BY HeldFacts DEF Spares
<1> QED BY <1>1, <1>2, AssignNew

(* v = w, which shares or copies, *)
LEMMA CopyStep ==
  ASSUME HeapIInv, NEW v \in Slots, NEW w \in Slots, Copy(v, w)
  PROVE  HeapIInv'
<1>1. /\ ~plain
      /\ frame' = [frame EXCEPT ![v] = frame[w]]
      /\ want' = [want EXCEPT ![v] = Unset]
      /\ UNCHANGED <<plain, array, wantItems, heap, text, items, bytesLive, since, threshold>>
  BY DEF Copy, Assign, counts
<1>2. TypeOK'
  BY <1>1 DEF HeapIInv, HeapInv, TypeOK
<1> QED BY <1>1, <1>2, NotPlain, CountersKept

(* v = a[i], *)
LEMMA ReadItemStep ==
  ASSUME HeapIInv, NEW v \in Slots, ReadItem(v)
  PROVE  HeapIInv'
<1>1. PICK i \in DOMAIN items[array] : items[array][i] \in heap /\ Assign(v, items[array][i], Unset)
  BY DEF ReadItem
<1>2. /\ ~plain /\ array \in heap
      /\ frame' = [frame EXCEPT ![v] = items[array][i]]
      /\ want' = [want EXCEPT ![v] = Unset]
      /\ UNCHANGED <<plain, array, wantItems, heap, text, items, bytesLive, since, threshold>>
  BY <1>1 DEF ReadItem, Assign, counts, HasArray
<1>3. array \in Arrays
  BY <1>2, HeapAssumption DEF HeapIInv, HeapInv, TypeOK, Blocks
<1>4. items[array][i] \in Strings
  BY <1>3 DEF HeapIInv, HeapInv, TypeOK
<1>5. TypeOK'
  BY <1>2, <1>4 DEF HeapIInv, HeapInv, TypeOK
<1> QED BY <1>2, <1>5, NotPlain, CountersKept

(* a.push(v), *)
LEMMA PushVariableStep ==
  ASSUME HeapIInv, NEW v \in Slots, PushVariable(v)
  PROVE  HeapIInv'
<1>1. /\ ~plain /\ array \in heap /\ frame[v] \in heap
      /\ items' = [items EXCEPT ![array] = Append(@, frame[v])]
      /\ UNCHANGED <<plain, want, wantItems, heap, text, frame, array, bytesLive, since, threshold>>
  BY DEF PushVariable, HasArray, Alive, counts, program
<1>2. array \in Arrays /\ frame[v] \in Strings
  BY <1>1, HeapAssumption DEF HeapIInv, HeapInv, TypeOK, Blocks
<1>3. items' \in [Arrays -> Seq(Strings)]
  BY <1>1, <1>2 DEF HeapIInv, HeapInv, TypeOK
<1>4. TypeOK'
  BY <1>1, <1>3 DEF HeapIInv, HeapInv, TypeOK
<1> QED BY <1>1, <1>4, NotPlain, CountersKept

(* What a variable holds in a plain program is a text. *)
LEMMA WantIsText ==
  ASSUME HeapIInv, NEW v \in Slots, frame[v] \in heap
  PROVE  /\ frame[v] \in Strings /\ text[frame[v]] \in Texts
         /\ text[frame[v]] \in Seq(Letters)
         /\ plain => want[v] = text[frame[v]]
<1>1. frame[v] \in Strings /\ frame[v] # Null
  BY HeapAssumption DEF HeapIInv, HeapInv, TypeOK, Blocks
<1> QED BY <1>1, TextsAre DEF HeapIInv, HeapInv, TypeOK, ValuesAsWritten

(* v = w + x, *)
LEMMA ConcatStep ==
  ASSUME HeapIInv, NEW v \in Slots, NEW w \in Slots, NEW x \in Slots, Concat(v, w, x)
  PROVE  HeapIInv'
<1> DEFINE t == text[frame[w]] \o text[frame[x]]
<1>1. /\ frame[w] \in heap /\ frame[x] \in heap /\ Len(t) <= MaxLen
      /\ \E b \in Strings : Alloc(heap, Strings, b, t) /\ Assign(v, b, want[w] \o want[x])
  BY DEF Concat, Alive
<1>2. t \in Texts /\ (plain => want[w] \o want[x] = t)
  <2>1. t \in Seq(Letters)
    BY <1>1, WantIsText, Joined
  <2>2. plain => want[w] = text[frame[w]] /\ want[x] = text[frame[x]]
    BY <1>1, WantIsText
  <2> QED BY <1>1, <2>1, <2>2, TextsAre
<1>3. Spares(heap, v)
  BY HeldFacts DEF Spares
<1> HIDE DEF t
<1>4. PICK b \in Strings : Alloc(heap, Strings, b, t) /\ Assign(v, b, want[w] \o want[x])
  BY <1>1
<1> QED BY <1>2, <1>3, <1>4, AssignNew

(* In a plain program the replaced block is v's alone. *)
LEMMA ReplaceStep ==
  ASSUME HeapIInv, NEW v \in Slots, NEW a \in heap, NEW t \in Texts, NEW wanted,
         Replace(v, a, t, wanted), plain => a = frame[v] /\ wanted = t
  PROVE  HeapIInv'
<1>1. PICK b \in Strings : Alloc(heap \ {a}, Strings, b, t) /\ Assign(v, b, wanted)
  BY DEF Replace
<1>2. Spares(heap \ {a}, v)
  <2> SUFFICES ASSUME plain
               PROVE  /\ \A u \in Slots \ {v} : frame[u] \in (heap \ {a}) \cup {Null}
                      /\ array \in (heap \ {a}) \cup {Null}
                      /\ array \in heap => \A i \in DOMAIN items[array] : items[array][i] \in heap \ {a}
    BY DEF Spares
  <2>1. a = frame[v] /\ a \in Strings /\ a # Null
    BY HeapAssumption DEF HeapIInv, HeapInv, TypeOK, Blocks
  <2>2. \A u \in Slots \ {v} : frame[u] # a
    BY <2>1 DEF HeapIInv, HeapInv, OneHolder
  <2>3. array # a
    BY <2>1, HeapAssumption DEF HeapIInv, HeapInv, TypeOK
  <2>4. ASSUME array \in heap, NEW i \in DOMAIN items[array]
        PROVE  items[array][i] # a
    <3>1. ValuesOf(items[array]) \cap ValuesOf(frame) = {}
      BY <2>4, Zenon DEF HeapIInv, HeapInv, OneHolder, HasArray
    <3>2. a \in ValuesOf(frame) /\ items[array][i] \in ValuesOf(items[array])
      BY <2>1 DEF HeapIInv, HeapInv, TypeOK, ValuesOf
    <3> QED BY <3>1, <3>2
  <2> QED BY <2>2, <2>3, <2>4, HeldFacts
<1>3. heap \ {a} \in SUBSET heap
  OBVIOUS
<1> QED BY <1>1, <1>2, <1>3, AssignNew

(* v += w, *)
LEMMA AppendStringStep ==
  ASSUME HeapIInv, NEW v \in Slots, NEW w \in Slots, AppendString(v, w)
  PROVE  HeapIInv'
<1> DEFINE a == frame[v]
           b == frame[w]
           wanted == want[v] \o want[w]
<1>1. /\ a \in heap /\ b \in heap /\ (plain => v # w)
      /\ \/ /\ text[b] = <<>>
            /\ Assign(v, a, wanted)
            /\ UNCHANGED <<heap, text, items, counts>>
         \/ GrowInPlace(v, a, Grown(a, b), wanted)
         \/ Replace(v, a, text[a] \o text[b], wanted)
  BY DEF AppendString, Alive
<1>2. /\ a \in Strings /\ text[a] \in Seq(Letters) /\ (plain => want[v] = text[a])
      /\ b \in Strings /\ text[b] \in Seq(Letters) /\ (plain => want[w] = text[b])
      /\ text[a] \in Texts
  BY <1>1, WantIsText
<1>3. plain => wanted = text[a] \o text[b]
  BY <1>2
<1>4. plain => a # b
  BY <1>1, HeapAssumption DEF HeapIInv, HeapInv, TypeOK, OneHolder, Blocks
<1>5. CASE text[b] = <<>> /\ Assign(v, a, wanted) /\ UNCHANGED <<heap, text, items, counts>>
  <2>1. plain => wanted = want[v]
    BY <1>2, <1>3, <1>5, Joined
  <2>2. frame' = frame
    BY <1>5 DEF Assign, HeapIInv, HeapInv, TypeOK
  <2>3. /\ want' = [want EXCEPT ![v] = IF plain THEN wanted ELSE Unset]
        /\ UNCHANGED <<plain, array, wantItems, heap, text, items, bytesLive, since, threshold>>
    BY <1>5 DEF Assign, counts
  <2>4. CASE plain
    <3>1. want' = want
      BY <2>1, <2>3, <2>4 DEF HeapIInv, HeapInv, TypeOK
    <3>2. UNCHANGED <<plain, heap, text, frame, array, items, want, wantItems, bytesLive, since,
            threshold>>
      BY <2>2, <2>3, <3>1
    <3>3. OneHolder'
      BY <3>2, SMT DEF HeapIInv, HeapInv, OneHolder, HasArray
    <3>4. TypeOK' /\ HandlesLive' /\ ValuesAsWritten'
      BY <3>2 DEF HeapIInv, HeapInv, TypeOK, HandlesLive, ValuesAsWritten, HasArray
    <3>5. AccountsExact' /\ HeapBounded' /\ IsFiniteSet(heap)'
      BY <3>2 DEF HeapIInv, HeapInv, AccountsExact, HeapBounded
    <3> QED BY <3>3, <3>4, <3>5 DEF HeapIInv, HeapInv
  <2>5. CASE ~plain
    <3>1. TypeOK'
      BY <2>2, <2>3, <2>5 DEF HeapIInv, HeapInv, TypeOK
    <3> QED BY <2>3, <2>5, <3>1, NotPlain, CountersKept
  <2> QED BY <2>4, <2>5
<1>6. CASE GrowInPlace(v, a, Grown(a, b), wanted)
  <2>1. Grown(a, b) \in SUBSET Seq(Letters)
    <3>1. \A t \in Texts : t \in Seq(Letters)
      BY TextsAre
    <3>2. \A t \in Seq(Letters) : text[a] \o t \in Seq(Letters)
      BY <1>2, Joined
    <3> QED BY <1>2, <3>1, <3>2 DEF Grown
  <2>2. plain => \A t \in Grown(a, b) : wanted = t
    BY <1>3, <1>4 DEF Grown
  <2> QED BY <1>1, <1>2, <1>6, <2>1, <2>2, Grows
<1>7. CASE Replace(v, a, text[a] \o text[b], wanted)
  <2>1. text[a] \o text[b] \in Texts
    <3>1. text[a] \o text[b] \in Seq(Letters) /\ Len(text[a] \o text[b]) <= MaxLen
      BY <1>2, <1>7, Joined DEF Replace
    <3> QED BY <3>1, TextsAre
  <2> QED BY <1>1, <1>3, <1>7, <2>1, ReplaceStep
<1> QED BY <1>1, <1>5, <1>6, <1>7

(* v += w.charAt(i), *)
LEMMA AppendCharStep ==
  ASSUME HeapIInv, NEW v \in Slots, NEW w \in Slots, AppendChar(v, w)
  PROVE  HeapIInv'
<1> DEFINE a == frame[w]
           t(c) == Append(text[a], c)
           wanted(c) == want[w] \o <<c>>
<1>1. a \in heap /\ (plain => v = w)
  BY DEF AppendChar, Alive
<1>2. PICK c \in Letters : GrowInPlace(v, a, {t(c)}, wanted(c)) \/ Replace(v, a, t(c), wanted(c))
  BY DEF AppendChar
<1>3. a \in Strings /\ text[a] \in Seq(Letters) /\ (plain => want[w] = text[a])
  BY <1>1, WantIsText
<1>4. t(c) \in Seq(Letters) /\ (plain => wanted(c) = t(c))
  BY <1>3, Joined
<1>5. CASE GrowInPlace(v, a, {t(c)}, wanted(c))
  <2> HIDE DEF a, t, wanted
  <2>1. {t(c)} \in SUBSET Seq(Letters)
    BY <1>4
  <2>2. plain => frame[v] = a /\ \A s \in {t(c)} : wanted(c) = s
    BY <1>1, <1>4 DEF a
  <2> QED BY <1>1, <1>3, <1>5, <2>1, <2>2, Grows
<1>6. CASE Replace(v, a, t(c), wanted(c))
  <2>1. t(c) \in Texts
    BY <1>4, <1>6, TextsAre DEF Replace
  <2> HIDE DEF t, wanted
  <2> QED BY <1>1, <1>4, <1>6, <2>1, ReplaceStep
<1> QED BY <1>2, <1>5, <1>6

(* an array is made, *)
LEMMA NewArrayStep ==
  ASSUME HeapIInv, NewArray
  PROVE  HeapIInv'
<1> USE DEF HeapIInv, HeapInv
<1>1. PICK b \in Arrays : Alloc(heap, Arrays, b, <<>>) /\ array' = b
  BY DEF NewArray
<1>2. PICK now \in SUBSET heap : Allocated(items, heap, Arrays, b, <<>>, now)
  BY <1>1, AllocFacts DEF Alloc
<1>3. /\ Handles \cap heap \subseteq now
      /\ b \in Arrays \ now
      /\ heap' = now \cup {b}
      /\ text' = [s \in Strings |-> IF s = b THEN <<>>
                                    ELSE IF s \in now THEN text[s] ELSE <<>>]
      /\ items' = [a \in Arrays |-> IF a \in now THEN items[a] ELSE <<>>]
      /\ IsFiniteSet(heap') /\ AccountsExact'
      /\ bytesLive' \in Nat /\ since' \in Nat /\ threshold' \in Nat
      /\ HeapBounded'
  BY <1>2 DEF Allocated
<1>4. plain' = plain /\ frame' = frame /\ want' = want /\ wantItems' = <<>> /\ array' = b
  BY <1>1 DEF NewArray
<1>5. TypeOK'
  <2>1. heap' \subseteq Blocks
    BY <1>3 DEF TypeOK, Blocks
  <2>2. text' \in [Strings -> Texts]
    BY <1>3, TextsAre DEF TypeOK
  <2>3. items' \in [Arrays -> Seq(Strings)]
    <3>1. <<>> \in Seq(Strings)
      OBVIOUS
    <3> QED BY <1>3, <3>1 DEF TypeOK
  <2>4. wantItems' \in Seq(Texts)
    BY <1>4
  <2> QED BY <1>3, <1>4, <2>1, <2>2, <2>3, <2>4 DEF TypeOK
<1>6. items'[b] = <<>> /\ DOMAIN <<>> = {}
  BY <1>3
<1>7. ASSUME plain, NEW u \in Slots
      PROVE  frame[u] \in now \cup {Null}
  <2>1. frame[u] \in Handles
    BY DEF Handles, ValuesOf, TypeOK
  <2> QED BY <1>3, <1>7, <2>1, HeldFacts
<1>8. HandlesLive'
  BY <1>3, <1>4, <1>6, <1>7 DEF HandlesLive, TypeOK, ValuesOf, HasArray
<1>9. OneHolder'
  BY <1>4, <1>6 DEF OneHolder, ValuesOf, HasArray
<1>10. ValuesAsWritten'
  <2>1. ASSUME plain, NEW u \in Slots, frame[u] # Null
        PROVE  text'[frame[u]] = want[u]
    <3>1. frame[u] \in now \cap Strings /\ frame[u] # b
      BY <1>3, <1>7, <2>1 DEF TypeOK
    <3>2. text'[frame[u]] = text[frame[u]]
      BY <1>3, <3>1
    <3> QED BY <2>1, <3>2 DEF ValuesAsWritten
  <2> QED BY <1>4, <1>6, <2>1 DEF ValuesAsWritten, HasArray
<1> QED BY <1>3, <1>5, <1>8, <1>9, <1>10

(* a.push("..."), *)
LEMMA PushLiteralStep ==
  ASSUME HeapIInv, PushLiteral
  PROVE  HeapIInv'
<1> USE DEF HeapIInv, HeapInv
<1> DEFINE its(b) == [items EXCEPT ![array] = Append(@, b)]
<1>1. array \in heap /\ array \in Arrays
  BY HeapAssumption DEF PushLiteral, HasArray, TypeOK, Blocks
<1>2. PICK t \in Texts, b \in Strings :
        /\ AllocInto(its(b), heap, Strings, b, t)
        /\ wantItems' = IF plain THEN Append(wantItems, t) ELSE wantItems
  BY DEF PushLiteral
<1>3. PICK now \in SUBSET heap : Allocated(its(b), heap, Strings, b, t, now)
  BY <1>2, AllocFacts
<1>4. /\ Handles \cap heap \subseteq now
      /\ ValuesOf(items[array]) \cap heap \subseteq now
      /\ b \in Strings \ now
      /\ heap' = now \cup {b}
      /\ text' = [s \in Strings |-> IF s = b THEN t
                                    ELSE IF s \in now THEN text[s] ELSE <<>>]
      /\ items' = [a \in Arrays |-> IF a \in now THEN its(b)[a] ELSE <<>>]
      /\ IsFiniteSet(heap') /\ AccountsExact'
      /\ bytesLive' \in Nat /\ since' \in Nat /\ threshold' \in Nat
      /\ HeapBounded'
  BY <1>1, <1>3 DEF Allocated
<1>5. plain' = plain /\ frame' = frame /\ want' = want /\ array' = array
  BY DEF PushLiteral
<1>6. its(b) \in [Arrays -> Seq(Strings)] /\ its(b)[array] = Append(items[array], b)
  BY <1>1 DEF TypeOK
<1>7. array \in now
  BY <1>1, <1>4 DEF Handles
<1>8. items'[array] = Append(items[array], b) /\ items[array] \in Seq(Strings)
  BY <1>1, <1>4, <1>6, <1>7 DEF TypeOK
<1>9. TypeOK'
  <2>1. heap' \subseteq Blocks
    BY <1>4 DEF TypeOK, Blocks
  <2>2. text' \in [Strings -> Texts]
    BY <1>4, TextsAre DEF TypeOK
  <2>3. items' \in [Arrays -> Seq(Strings)]
    <3>1. <<>> \in Seq(Strings)
      OBVIOUS
    <3> HIDE DEF its
    <3> QED BY <1>4, <1>6, <3>1
  <2>4. wantItems' \in Seq(Texts)
    BY <1>2 DEF TypeOK
  <2> QED BY <1>4, <1>5, <2>1, <2>2, <2>3, <2>4 DEF TypeOK
<1> HIDE DEF its
<1> DEFINE n == Len(items[array])
<1>10. /\ n \in Nat /\ DOMAIN items[array] = 1 .. n /\ DOMAIN items'[array] = 1 .. n + 1
       /\ items'[array][n + 1] = b
       /\ \A i \in 1 .. n : items'[array][i] = items[array][i]
  BY <1>8
<1>11. ASSUME plain
       PROVE  /\ \A u \in Slots : frame[u] \in now \cup {Null}
              /\ \A i \in 1 .. n : items[array][i] \in now \cap Strings
              /\ \A i \in 1 .. n + 1 : items'[array][i] \in heap'
  <2>1. \A u \in Slots : frame[u] \in Handles
    BY DEF Handles, ValuesOf, TypeOK
  <2>2. \A u \in Slots : frame[u] \in now \cup {Null}
    BY <1>4, <1>11, <2>1, HeldFacts
  <2>3. ASSUME NEW i \in 1 .. n PROVE items[array][i] \in now \cap Strings
    <3>1. items[array][i] \in heap
      BY <1>1, <1>10, <1>11, HeldFacts
    <3>2. items[array][i] \in ValuesOf(items[array])
      BY <1>10 DEF ValuesOf
    <3> QED BY <1>4, <1>8, <3>1, <3>2
  <2>4. ASSUME NEW i \in 1 .. n + 1 PROVE items'[array][i] \in heap'
    <3>1. i \in 1 .. n \/ i = n + 1
      BY <1>10
    <3>2. CASE i \in 1 .. n
      <4>1. items'[array][i] = items[array][i]
        BY <1>10, <3>2
      <4>2. items[array][i] \in now
        BY <2>3, <3>2
      <4> QED BY <1>4, <4>1, <4>2
    <3>3. CASE i = n + 1
      BY <1>4, <1>10, <3>3
    <3> QED BY <3>1, <3>2, <3>3
  <2> QED BY <2>2, <2>3, <2>4
<1> HIDE DEF n
<1>12. HandlesLive'
  <2> SUFFICES ASSUME plain PROVE /\ \A u \in Slots : frame[u] \in heap' \cup {Null}
                                  /\ array \in heap' \cup {Null}
                                  /\ \A i \in DOMAIN items'[array] : items'[array][i] \in heap'
    BY <1>5, <1>9 DEF HandlesLive, TypeOK, ValuesOf, HasArray
  <2> QED BY <1>4, <1>7, <1>10, <1>11
<1>13. OneHolder'
  <2> SUFFICES ASSUME plain
               PROVE  /\ \A u, w \in Slots : u # w /\ frame[u] = frame[w] => frame[u] = Null
                      /\ \A i, j \in DOMAIN items'[array] : i # j => items'[array][i] # items'[array][j]
                      /\ ValuesOf(items'[array]) \cap ValuesOf(frame) = {}
    BY <1>5, Zenon DEF OneHolder, HasArray
  <2>1. \A u, w \in Slots : u # w /\ frame[u] = frame[w] => frame[u] = Null
    BY Zenon DEF OneHolder
  <2>2. /\ \A i, j \in 1 .. n : i # j => items[array][i] # items[array][j]
        /\ ValuesOf(items[array]) \cap ValuesOf(frame) = {}
    BY <1>1, <1>10, Zenon DEF OneHolder, HasArray
  <2>3. \A i \in 1 .. n, u \in Slots :
          items[array][i] \in ValuesOf(items[array]) /\ frame[u] \in ValuesOf(frame)
    BY <1>10 DEF ValuesOf, TypeOK
  <2>4. \A u \in Slots : frame[u] # b
    BY <1>4, <1>11, HeapAssumption
  <2>5. \A i \in 1 .. n + 1 : i \in 1 .. n \/ i = n + 1
    BY <1>10
  <2>6. \A i \in 1 .. n : items[array][i] # b
    BY <1>4, <1>11
  <2>7. \A i, j \in 1 .. n + 1 : i # j => items'[array][i] # items'[array][j]
    BY <1>10, <2>2, <2>5, <2>6
  <2>8. \A i \in 1 .. n + 1, u \in Slots : items'[array][i] # frame[u]
    BY <1>10, <2>2, <2>3, <2>4, <2>5
  <2>9. ValuesOf(items'[array]) \cap ValuesOf(frame) = {}
    BY <1>10, <2>8 DEF ValuesOf, TypeOK
  <2> QED BY <1>10, <2>1, <2>7, <2>9
<1>14. ValuesAsWritten'
  <2> SUFFICES ASSUME plain
               PROVE  /\ \A u \in Slots : frame[u] # Null => text'[frame[u]] = want[u]
                      /\ DOMAIN items'[array] = DOMAIN wantItems'
                      /\ \A i \in DOMAIN wantItems' : text'[items'[array][i]] = wantItems'[i]
    BY <1>5 DEF ValuesAsWritten, HasArray
  <2>1. \A s \in now \cap Strings : text'[s] = text[s]
    BY <1>4
  <2>2. text'[b] = t
    BY <1>4
  <2>3. ASSUME NEW u \in Slots, frame[u] # Null
        PROVE  text'[frame[u]] = want[u]
    <3>1. frame[u] \in now \cap Strings
      BY <1>11, <2>3 DEF TypeOK
    <3> QED BY <2>1, <2>3, <3>1 DEF ValuesAsWritten
  <2>4. /\ DOMAIN wantItems = 1 .. n
        /\ \A i \in 1 .. n : text[items[array][i]] = wantItems[i]
    BY <1>1, <1>10 DEF ValuesAsWritten, HasArray
  <2>5. wantItems \in Seq(Texts) /\ Len(wantItems) = n
    BY <1>10, <2>4 DEF TypeOK
  <2>6. wantItems' = Append(wantItems, t)
    BY <1>2
  <2>7. /\ DOMAIN wantItems' = 1 .. n + 1 /\ wantItems'[n + 1] = t
        /\ \A i \in 1 .. n : wantItems'[i] = wantItems[i]
    BY <1>10, <2>5, <2>6
  <2>8. ASSUME NEW i \in 1 .. n + 1 PROVE text'[items'[array][i]] = wantItems'[i]
    <3>1. i \in 1 .. n \/ i = n + 1
      BY <1>10
    <3> QED BY <1>10, <1>11, <2>1, <2>2, <2>4, <2>7, <3>1
  <2> QED BY <1>10, <2>3, <2>7, <2>8
<1> QED BY <1>4, <1>9, <1>12, <1>13, <1>14

(* the array as a string, *)
LEMMA ArrayToStringStep ==
  ASSUME HeapIInv, ArrayToString
  PROVE  HeapIInv'
<1> USE DEF HeapIInv, HeapInv
<1> DEFINE h == heap \ ValuesOf(items[array])
<1>1. PICK b \in Strings, t \in Texts : Alloc(h, Strings, b, t)
  BY DEF ArrayToString
<1>2. h \in SUBSET heap
  OBVIOUS
<1>3. PICK now \in SUBSET h : Allocated(items, h, Strings, b, t, now)
  BY <1>1, <1>2, AllocFacts DEF Alloc
<1>4. /\ heap' = now \cup {b}
      /\ text' = [s \in Strings |-> IF s = b THEN t
                                    ELSE IF s \in now THEN text[s] ELSE <<>>]
      /\ items' = [a \in Arrays |-> IF a \in now THEN items[a] ELSE <<>>]
      /\ IsFiniteSet(heap') /\ AccountsExact'
      /\ bytesLive' \in Nat /\ since' \in Nat /\ threshold' \in Nat
      /\ HeapBounded'
  BY <1>3 DEF Allocated
<1>5. ~plain /\ UNCHANGED <<plain, frame, array, want, wantItems>>
  BY DEF ArrayToString, program
<1>6. TypeOK'
  <2>1. heap' \subseteq Blocks
    BY <1>2, <1>4 DEF TypeOK, Blocks
  <2>2. text' \in [Strings -> Texts]
    BY <1>4, TextsAre DEF TypeOK
  <2>3. items' \in [Arrays -> Seq(Strings)]
    <3>1. <<>> \in Seq(Strings)
      OBVIOUS
    <3> QED BY <1>4, <3>1 DEF TypeOK
  <2> QED BY <1>4, <1>5, <2>1, <2>2, <2>3 DEF TypeOK
<1> QED BY <1>4, <1>5, <1>6, NotPlain

(* and the end of an iteration, which frees its strings. *)
LEMMA EndIterationStep ==
  ASSUME HeapIInv, EndIteration
  PROVE  HeapIInv'
<1> USE DEF HeapIInv, HeapInv
<1> DEFINE h == heap \ {frame[Local]}
<1>1. h \in SUBSET heap
  OBVIOUS
<1>2. PICK now \in SUBSET h : Left(h, now)
  <2>1. CASE Collect(h)
    BY <1>1, <2>1, CollectFacts
  <2>2. CASE Release({frame[Local]})
    BY <1>1, <2>2, ReleaseFacts
  <2> QED BY <2>1, <2>2 DEF EndIteration
<1>3. /\ frame' = [frame EXCEPT ![Local] = Null]
      /\ want' = [want EXCEPT ![Local] = Unset]
      /\ UNCHANGED <<plain, array, wantItems>>
  BY DEF EndIteration
<1>4. Local \in Slots /\ frame[Local] \in Strings \cup {Null}
  BY DEF Slots, TypeOK
<1>5. /\ frame' \in [Slots -> Strings \cup {Null}]
      /\ want' \in [Slots -> Texts \cup {Unset}]
      /\ frame'[Local] = Null
      /\ \A u \in Slots \ {Local} : frame'[u] = frame[u] /\ want'[u] = want[u]
  BY <1>3, <1>4 DEF TypeOK
<1>6. ASSUME plain
      PROVE  /\ \A u \in Slots : frame'[u] \in h \cup {Null}
             /\ array \in h \cup {Null}
             /\ array \in heap => \A i \in DOMAIN items[array] : items[array][i] \in h
  <2>1. \A u \in Slots \ {Local} : frame[u] # frame[Local] \/ frame[u] = Null
    BY <1>4, <1>6 DEF OneHolder
  <2>2. \A u \in Slots : frame'[u] \in h \cup {Null}
    BY <1>4, <1>5, <1>6, <2>1, HeldFacts
  <2>3. array \in h \cup {Null}
    BY <1>4, <1>6, HeldFacts, HeapAssumption DEF TypeOK
  <2>4. ASSUME array \in heap, NEW i \in DOMAIN items[array]
        PROVE  items[array][i] \in h
    <3>1. ValuesOf(items[array]) \cap ValuesOf(frame) = {}
      BY <1>6, <2>4, Zenon DEF OneHolder, HasArray
    <3>2. frame[Local] \in ValuesOf(frame) /\ items[array][i] \in ValuesOf(items[array])
      BY <1>4 DEF TypeOK, ValuesOf
    <3> QED BY <1>6, <2>4, <3>1, <3>2, HeldFacts
  <2> QED BY <2>2, <2>3, <2>4
<1> HIDE DEF h
<1>7. \A u \in Slots : frame'[u] = Null \/ (frame'[u] = frame[u] /\ want'[u] = want[u])
  BY <1>5
<1> HIDE DEF HeapIInv, HeapInv
<1> QED BY <1>1, <1>2, <1>3, <1>5, <1>6, <1>7, Fewer

(* ts_gc_maybe_collect_idle, while the loop waits. *)
LEMMA IdleStep ==
  ASSUME HeapIInv, Idle
  PROVE  HeapIInv'
<1>1. PICK now \in SUBSET heap : Left(heap, now)
  BY CollectFacts DEF Idle
<1>2. frame' = frame /\ want' = want /\ plain' = plain /\ array' = array /\ wantItems' = wantItems
  BY DEF Idle, program
<1>3. frame' \in [Slots -> Strings \cup {Null}] /\ want' \in [Slots -> Texts \cup {Unset}]
  BY <1>2 DEF HeapIInv, HeapInv, TypeOK
<1>4. plain => /\ \A u \in Slots : frame'[u] \in heap \cup {Null}
               /\ array \in heap \cup {Null}
               /\ array \in heap => \A i \in DOMAIN items[array] : items[array][i] \in heap
  BY <1>2, HeldFacts
<1>5. \A u \in Slots : frame'[u] = Null \/ (frame'[u] = frame[u] /\ want'[u] = want[u])
  BY <1>2
<1>6. heap \in SUBSET heap
  OBVIOUS
<1> QED BY <1>1, <1>2, <1>3, <1>4, <1>5, <1>6, Fewer

-----------------------------------------------------------------------------
(* The theorems *)

(* The invariant holds before the first statement, *)
LEMMA HeapInit == Init => HeapIInv
<1> SUFFICES ASSUME Init PROVE HeapIInv
  OBVIOUS
<1>1. TypeOK
  <2>1. <<>> \in Seq(Strings) /\ <<>> \in Seq(Texts)
    OBVIOUS
  <2>2. 4 * MinThreshold \in Nat
    BY HeapAssumption
  <2> QED BY <2>1, <2>2, TextsAre DEF Init, TypeOK
<1>2. IsFiniteSet(heap) /\ AccountsExact
  BY FS_EmptySet DEF Init, AccountsExact
<1>3. HeapBounded
  BY HeapAssumption DEF Init, HeapBounded
<1>4. ~HasArray
  BY DEF Init, HasArray
<1>5. OneHolder /\ HandlesLive /\ ValuesAsWritten
  BY <1>4 DEF Init, OneHolder, HandlesLive, ValuesAsWritten, ValuesOf
<1> QED BY <1>1, <1>2, <1>3, <1>5 DEF HeapIInv, HeapInv

(* every step keeps it, *)
LEMMA HeapStep ==
  ASSUME HeapIInv, [Next]_vars
  PROVE  HeapIInv'
<1>1. ASSUME NEW v \in Slots, Literal(v) \/ PushVariable(v) \/ ReadItem(v)
      PROVE  HeapIInv'
  BY <1>1, LiteralStep, PushVariableStep, ReadItemStep
<1>2. ASSUME NEW v \in Slots, NEW w \in Slots, Copy(v, w) \/ AppendString(v, w) \/ AppendChar(v, w)
      PROVE  HeapIInv'
  BY <1>2, CopyStep, AppendStringStep, AppendCharStep
<1>3. ASSUME NEW v \in Slots, NEW w \in Slots, NEW x \in Slots, Concat(v, w, x)
      PROVE  HeapIInv'
  BY <1>3, ConcatStep
<1>4. CASE NewArray \/ PushLiteral \/ ArrayToString \/ EndIteration \/ Idle
  BY <1>4, NewArrayStep, PushLiteralStep, ArrayToStringStep, EndIterationStep, IdleStep
<1>5. CASE UNCHANGED vars
  BY <1>5, SMT DEF vars, counts, program, HeapIInv, HeapInv, TypeOK, OneHolder, AccountsExact,
     HeapBounded, HandlesLive, ValuesAsWritten, HasArray
<1> QED BY <1>1, <1>2, <1>3, <1>4, <1>5 DEF Next

(* so it holds always. *)
LEMMA HeapIInvHolds == Spec => []HeapIInv
<1>1. HeapIInv /\ [Next]_vars => HeapIInv'
  BY HeapStep
<1> QED BY <1>1, HeapInit, PTL DEF Spec

(* gc.c and string_ops.c keep the heap as they need it: what g_bytes_live says is
   on the list is there, the collector's policy bounds the list, and in a program
   that hands no string to a second holder the block string_ops.c:46 writes into
   has no other holder. *)
THEOREM HeapSafe == Spec => []HeapInv
<1>1. HeapIInv => HeapInv
  BY DEF HeapIInv
<1> QED BY <1>1, HeapIInvHolds, PTL

(* No collection (gc.c:384), no free at the end of a loop body
   (statement-emitter.ts:521) and no append that replaces a block takes a block that
   a variable or the array of such a program points at. *)
THEOREM NothingReachableFreed == Spec => []HandlesLive
<1>1. HeapIInv => HandlesLive
  BY DEF HeapIInv
<1> QED BY <1>1, HeapIInvHolds, PTL

(* In such a program variables and elements read as TypeScript says, although
   strings are written in place and blocks are used again. *)
THEOREM StringsAsWritten == Spec => []ValuesAsWritten
<1>1. HeapIInv => ValuesAsWritten
  BY DEF HeapIInv
<1> QED BY <1>1, HeapIInvHolds, PTL

-----------------------------------------------------------------------------
(* The C stack *)

SameCall(f, g) == f.kind = g.kind /\ f.of = g.of /\ f.id = g.id
Owed == submitted \cup (OnStack \cap Jobs)

(* A frame is put on top. *)
LEMMA Appended ==
  ASSUME NEW S, NEW s \in Seq(S), NEW x \in S
  PROVE  /\ Append(s, x) \in Seq(S) /\ Append(s, x) # <<>> /\ Len(Append(s, x)) = Len(s) + 1
         /\ Append(s, x)[Len(s) + 1] = x
         /\ \A k \in 1..Len(s) : Append(s, x)[k] = s[k]
OBVIOUS

(* The stack is never empty, and its frames are frames. *)
LEMMA StackFacts ==
  ASSUME ThrowTypeOK
  PROVE  /\ stack \in Seq(Frames) /\ Depth \in Nat /\ Depth >= 1
         /\ Top \in Frames
         /\ \A i \in 1..Depth :
              /\ stack[i] \in Frames /\ stack[i].tries \in Seq(Tries)
              /\ stack[i].id \in Nat /\ stack[i].of \in Jobs \cup Messages \cup Thens \cup {Nothing}
              /\ stack[i].kind \in {"main", "fn", "job", "socket", "then"}
<1>1. stack \in Seq(Frames) /\ stack # <<>>
  BY DEF ThrowTypeOK
<1>2. Len(stack) \in Nat /\ Len(stack) >= 1 /\ \A i \in 1..Len(stack) : stack[i] \in Frames
  <2> HIDE DEF Frames
  <2> QED BY <1>1
<1> QED BY <1>1, <1>2 DEF Depth, Top, Frames

(* A new frame is in no try statement. *)
LEMMA FrameFacts ==
  ASSUME NEW kind \in {"main", "fn", "job", "socket", "then"},
         NEW of \in Jobs \cup Messages \cup Thens \cup {Nothing}, NEW id \in Nat
  PROVE  /\ Frame(kind, of, id) \in Frames /\ Frame(kind, of, id).kind = kind
         /\ Frame(kind, of, id).of = of /\ Frame(kind, of, id).id = id
         /\ Frame(kind, of, id).tries = <<>>
BY DEF Frame, Frames

(* A frame enters a try statement, leaves one, or catches. *)
LEMMA TriesFacts ==
  ASSUME NEW f \in Frames
  PROVE  /\ \A c \in BOOLEAN : LET g == WithTry(f, c) IN
              /\ g \in Frames /\ SameCall(g, f) /\ g.tries = Append(f.tries, [catches |-> c,
                      at |-> "body"])
              /\ g.tries \in Seq(Tries) \ {<<>>} /\ Last(g) = Len(f.tries) + 1
         /\ f.tries # <<>> =>
              /\ WithoutTry(f) \in Frames /\ SameCall(WithoutTry(f), f)
              /\ WithoutTry(f).tries = SubSeq(f.tries, 1, Len(f.tries) - 1)
              /\ Caught(f) \in Frames /\ SameCall(Caught(f), f)
              /\ \A n \in 1..Len(Caught(f).tries) :
                   /\ n \in 1..Len(f.tries)
                   /\ Caught(f).tries[n].at = "body" => n < Len(f.tries) /\ f.tries[n].at = "body"
<1>1. f.tries \in Seq(Tries)
  BY DEF Frames
<1>2. ASSUME NEW c \in BOOLEAN
      PROVE  LET g == WithTry(f, c) IN
              /\ g \in Frames /\ SameCall(g, f) /\ g.tries = Append(f.tries, [catches |-> c,
                      at |-> "body"])
              /\ g.tries \in Seq(Tries) \ {<<>>} /\ Last(g) = Len(f.tries) + 1
  <2>1. [catches |-> c, at |-> "body"] \in Tries
    BY DEF Tries
  <2>2. Append(f.tries, [catches |-> c, at |-> "body"]) \in Seq(Tries) \ {<<>>}
        /\ Len(Append(f.tries, [catches |-> c, at |-> "body"])) = Len(f.tries) + 1
    <3> HIDE DEF Tries
    <3> QED BY <1>1, <2>1
  <2> QED BY <2>2 DEF WithTry, Frames, SameCall, Last
<1>3. ASSUME f.tries # <<>>
      PROVE  /\ WithoutTry(f) \in Frames /\ SameCall(WithoutTry(f), f)
             /\ WithoutTry(f).tries = SubSeq(f.tries, 1, Len(f.tries) - 1)
             /\ Caught(f) \in Frames /\ SameCall(Caught(f), f)
             /\ \A n \in 1..Len(Caught(f).tries) :
                   /\ n \in 1..Len(f.tries)
                   /\ Caught(f).tries[n].at = "body" => n < Len(f.tries) /\ f.tries[n].at = "body"
  <2> DEFINE t == f.tries
             k == Len(t)
             s == SubSeq(t, 1, k - 1)
  <2>1. /\ k \in Nat /\ k >= 1 /\ s \in Seq(Tries) /\ Len(s) = k - 1
        /\ \A n \in 1..k - 1 : s[n] = t[n] /\ t[n] \in Tries
        /\ t[k] \in Tries
    <3> HIDE DEF Tries
    <3> QED BY <1>1, <1>3
  <2>2. WithoutTry(f) \in Frames /\ SameCall(WithoutTry(f), f) /\ WithoutTry(f).tries = s
    BY <2>1 DEF WithoutTry, Frames, SameCall
  <2> DEFINE u == [t EXCEPT ![k].at = "catch"]
             g == [f EXCEPT !.tries[Last(f)].at = "catch"]
  <2>3. u \in Seq(Tries) /\ Len(u) = k /\ u[k].at = "catch" /\ \A n \in 1..k - 1 : u[n] = t[n]
    BY <1>1, <2>1 DEF Tries
  <2>4. g \in Frames /\ SameCall(g, f) /\ g.tries = u
    BY <2>3 DEF Frames, SameCall, Last
  <2>5. Caught(f) = g \/ Caught(f) = WithoutTry(f)
    BY DEF Caught
  <2> HIDE DEF g, u, s, Frames, SameCall
  <2>6. CASE Caught(f) = g
    BY <2>1, <2>3, <2>4, <2>6, <2>2
  <2>7. CASE Caught(f) = WithoutTry(f)
    BY <2>1, <2>2, <2>7
  <2> QED BY <2>2, <2>5, <2>6, <2>7 DEF s
<1> QED BY <1>2, <1>3

(* The try blocks that run. *)
LEMMA BodiesAre ==
  /\ \A i, n : <<i, n>> \in Bodies
        <=> i \in 1..Depth /\ n \in DOMAIN stack[i].tries /\ stack[i].tries[n].at = "body"
  /\ \A p \in Bodies : p = <<p[1], p[2]>>
BY DEF Bodies

-----------------------------------------------------------------------------
(* The stack *)

(* A step that puts no frame on the stack keeps Skeleton. *)
LEMMA NoneAdded ==
  ASSUME ThrowTypeOK, ThrowTypeOK', Skeleton, Len(stack') <= Len(stack), frames' >= frames,
         \A i \in 1..Len(stack') : SameCall(stack'[i], stack[i]),
         UNCHANGED <<submitted, called, unsent, resolved>>
  PROVE  /\ Skeleton'
         /\ Callbacks' = Callbacks \cap 1..Len(stack')
         /\ OnStack' \subseteq OnStack
         /\ Len(stack') = Len(stack) => OnStack' = OnStack
<1>1. /\ Len(stack) \in Nat /\ Len(stack') \in Nat /\ Len(stack') >= 1
      /\ \A i \in 1..Len(stack') : i \in 1..Len(stack)
  <2>1. stack' \in Seq(Frames) /\ stack' # <<>>
    BY DEF ThrowTypeOK
  <2>2. Len(stack') \in Nat /\ Len(stack') >= 1
    <3> HIDE DEF Frames
    <3> QED BY <2>1
  <2> QED BY <2>2, StackFacts DEF Depth
<1>2. \A i \in 1..Len(stack') : /\ stack'[i].kind = stack[i].kind
                                /\ stack'[i].of = stack[i].of /\ stack'[i].id = stack[i].id
  BY DEF SameCall
<1>3. Callbacks' = Callbacks \cap 1..Len(stack')
  BY <1>1, <1>2 DEF Callbacks, Depth
<1>4. OnStack' \subseteq OnStack
  BY <1>2, <1>3 DEF OnStack, Callbacks, Depth
<1>5. Len(stack') = Len(stack) => OnStack' = OnStack
  BY <1>2, <1>3 DEF OnStack, Callbacks, Depth
<1>6. \A i \in 1..Len(stack') : stack'[i].id <= frames'
  <2>1. frames \in Nat /\ frames' \in Nat
    BY DEF ThrowTypeOK
  <2>2. \A i \in 1..Len(stack) : stack[i].id \in Nat /\ stack[i].id <= frames
    BY StackFacts DEF Skeleton, Depth
  <2> QED BY <1>1, <1>2, <2>1, <2>2
<1>7. ASSUME NEW i \in 1..Len(stack')
      PROVE  /\ stack'[i].kind = "job" => stack'[i].of \in called'
             /\ stack'[i].kind = "socket" => i = 2 /\ stack'[i].of \in Messages \ unsent'
             /\ stack'[i].kind = "then" => stack'[i].of \in resolved'
  BY <1>1, <1>2, <1>7 DEF Skeleton, Depth
<1>8. \A i, j \in 1..Len(stack') : i < j => stack'[i].id < stack'[j].id
  BY <1>1, <1>2 DEF Skeleton, Depth
<1>9. \A i, j \in Callbacks' : stack'[i].of = stack'[j].of => i = j
  BY <1>2, <1>3 DEF Skeleton
<1>10. stack'[1].kind = "main" /\ stack'[1].id = 0
  BY <1>1, <1>2 DEF Skeleton
<1>11. Skeleton'
  BY <1>6, <1>7, <1>8, <1>9, <1>10 DEF Skeleton, Depth
<1> QED BY <1>3, <1>4, <1>5, <1>11

(* What has a callback on the stack was called, received or resolved. *)
LEMMA OnStackIs ==
  ASSUME ThrowTypeOK, Skeleton
  PROVE  /\ OnStack \cap Jobs \subseteq called
         /\ OnStack \cap Messages \subseteq Messages \ unsent
         /\ OnStack \cap Thens \subseteq resolved
         /\ OnStack \subseteq Jobs \cup Messages \cup Thens
<1>1. ASSUME NEW x \in OnStack
      PROVE  (x \in Jobs /\ x \in called) \/ (x \in Messages \ unsent) \/ (x \in Thens /\ x \in resolved)
  <2>1. PICK i \in 1..Depth : x = stack[i].of /\ stack[i].kind \in {"job", "socket", "then"}
    BY DEF OnStack, Callbacks
  <2> QED BY <2>1 DEF Skeleton, ThrowTypeOK
<1> QED BY <1>1, ExceptionsAssumption

(* A call keeps Skeleton. *)
LEMMA PushedFrame ==
  ASSUME ThrowTypeOK, ThrowTypeOK', Skeleton,
         NEW s \in Seq(Frames), NEW kind \in {"fn", "job", "socket", "then"}, NEW of,
         Len(s) = Len(stack), \A i \in 1..Len(stack) : SameCall(s[i], stack[i]),
         Push(s, kind, of),
         kind = "fn" => of = Nothing,
         kind = "job" => of \in called' \ called /\ of \in Jobs,
         kind = "socket" => Len(stack) = 1 /\ of \in unsent \ unsent',
         kind = "then" => of \in resolved' \ resolved,
         called \subseteq called', unsent' \subseteq unsent, resolved \subseteq resolved',
         submitted' \cap called' = {}
  PROVE  /\ Skeleton'
         /\ OnStack' = OnStack \cup (IF kind = "fn" THEN {} ELSE {of})
         /\ Len(stack') = Len(stack) + 1
         /\ \A i \in 1..Len(stack) : stack'[i] = s[i]
         /\ stack'[Len(stack) + 1].tries = <<>>
<1> DEFINE d == Len(stack)
           f == Frame(kind, of, frames + 1)
<1>1. /\ d \in Nat /\ d >= 1 /\ frames \in Nat /\ frames' = frames + 1
      /\ stack' = Append(s, f)
  BY StackFacts DEF Depth, ThrowTypeOK, Push
<1>2. of \in Jobs \cup Messages \cup Thens \cup {Nothing}
  BY DEF ThrowTypeOK
<1>3. f \in Frames /\ f.kind = kind /\ f.of = of /\ f.id = frames + 1 /\ f.tries = <<>>
  <2>1. frames + 1 \in Nat
    BY <1>1
  <2> QED BY <2>1, <1>2 DEF Frame, Frames
<1>4. /\ Len(stack') = d + 1 /\ stack'[d + 1] = f
      /\ \A i \in 1..d : stack'[i] = s[i]
  <2> HIDE DEF Frames, f
  <2> QED BY <1>1, <1>3
<1> HIDE DEF f
<1>5. \A i \in 1..d : /\ stack'[i].kind = stack[i].kind
                      /\ stack'[i].of = stack[i].of /\ stack'[i].id = stack[i].id
  BY <1>4 DEF SameCall
<1>6. Callbacks' = Callbacks \cup (IF kind = "fn" THEN {} ELSE {d + 1})
  BY <1>1, <1>3, <1>4, <1>5 DEF Callbacks, Depth
<1>7. \A i \in Callbacks : i \in 1..d
  BY DEF Callbacks, Depth
<1>8. OnStack' = OnStack \cup (IF kind = "fn" THEN {} ELSE {of})
  <2>1. \A i \in Callbacks : stack'[i].of = stack[i].of
    BY <1>5, <1>7
  <2> QED BY <1>3, <1>4, <1>6, <2>1 DEF OnStack
<1>9. kind # "fn" => of \notin OnStack
  BY OnStackIs, ExceptionsAssumption DEF ThrowTypeOK
<1>10. \A i, j \in Callbacks' : stack'[i].of = stack'[j].of => i = j
  BY <1>3, <1>4, <1>5, <1>6, <1>7, <1>9 DEF OnStack, Skeleton
<1>11. \A i, j \in 1..d + 1 : i < j => stack'[i].id < stack'[j].id
  <2> SUFFICES ASSUME NEW i \in 1..d + 1, NEW j \in 1..d + 1, i < j PROVE stack'[i].id < stack'[j].id
    OBVIOUS
  <2>1. i \in 1..d /\ stack'[i].id <= frames /\ stack'[i].id \in Nat
    <3>1. i \in 1..d
      BY <1>1
    <3>2. stack[i].id <= frames /\ stack[i].id \in Nat
      BY <3>1, StackFacts DEF Skeleton, Depth
    <3> QED BY <3>1, <3>2, <1>5
  <2>2. CASE j = d + 1
    BY <2>1, <2>2, <1>1, <1>3, <1>4
  <2>3. CASE j # d + 1
    <3>1. j \in 1..d
      BY <2>3, <1>1
    <3>2. stack[i].id < stack[j].id
      BY <2>1, <3>1 DEF Skeleton, Depth
    <3> QED BY <2>1, <3>1, <3>2, <1>5
  <2> QED BY <2>2, <2>3
<1>12. ASSUME NEW i \in 1..d + 1
       PROVE  /\ stack'[i].id <= frames'
              /\ stack'[i].kind = "job" => stack'[i].of \in called'
              /\ stack'[i].kind = "socket" => i = 2 /\ stack'[i].of \in Messages \ unsent'
              /\ stack'[i].kind = "then" => stack'[i].of \in resolved'
  <2>1. CASE i = d + 1
    <3>1. stack'[i].kind = kind /\ stack'[i].of = of /\ stack'[i].id = frames'
      BY <2>1, <1>1, <1>3, <1>4
    <3>2. frames' <= frames'
      BY <1>1
    <3>3. kind = "socket" => d = 1 /\ of \in unsent \ unsent'
      OBVIOUS
    <3>4. unsent \subseteq Messages
      BY DEF ThrowTypeOK
    <3>5. kind = "socket" => i = 2 /\ of \in Messages \ unsent'
      <4>1. d = 1 => d + 1 = 2
        OBVIOUS
      <4> QED BY <2>1, <3>3, <3>4, <4>1
    <3> QED BY <3>1, <3>2, <3>5
  <2>2. CASE i \in 1..d
    <3>1. /\ stack'[i].kind = stack[i].kind /\ stack'[i].of = stack[i].of
          /\ stack'[i].id = stack[i].id
      BY <2>2, <1>5
    <3>2. /\ stack[i].id <= frames
          /\ stack[i].kind = "job" => stack[i].of \in called
          /\ stack[i].kind = "socket" => i = 2 /\ stack[i].of \in Messages \ unsent
          /\ stack[i].kind = "then" => stack[i].of \in resolved
      BY <2>2 DEF Skeleton, Depth
    <3>3. stack[i].id \in Nat
      BY <2>2, StackFacts DEF Depth
    <3>4. stack[i].id <= frames'
      BY <3>2, <3>3, <1>1
    <3> QED BY <3>1, <3>2, <3>4
  <2> QED BY <2>1, <2>2, <1>1
<1>13. stack'[1].kind = "main" /\ stack'[1].id = 0
  BY <1>1, <1>5 DEF Skeleton
<1>14. Skeleton'
  BY <1>4, <1>10, <1>11, <1>12, <1>13 DEF Skeleton, Depth
<1> QED BY <1>3, <1>4, <1>8, <1>14

-----------------------------------------------------------------------------
(* The accounts of the runtime *)

Accounts == Skeleton /\ JobsCounted /\ NothingSkipped

(* The jobs whose callbacks have not returned are finitely many. *)
LEMMA OwedFacts ==
  ASSUME ThrowTypeOK
  PROVE  /\ IsFiniteSet(Owed) /\ Owed \subseteq Jobs /\ Cardinality(Owed) \in Nat
         /\ \A S \in SUBSET Owed : IsFiniteSet(S) /\ Cardinality(S) \in Nat /\ Cardinality(S) <= Cardinality(Owed)
<1>1. Owed \subseteq Jobs
  BY DEF Owed, ThrowTypeOK
<1>2. IsFiniteSet(Owed)
  BY <1>1, FS_Subset, ExceptionsAssumption
<1> QED BY <1>1, <1>2, FS_Subset, FS_CardinalityType

(* A step that calls nothing and returns from nothing keeps the accounts. *)
LEMMA SameShape ==
  ASSUME ThrowTypeOK, ThrowTypeOK', Accounts, Len(stack') = Len(stack), frames' >= frames,
         \A i \in 1..Len(stack') : SameCall(stack'[i], stack[i]),
         UNCHANGED <<rules, workVars>>
  PROVE  Accounts'
<1>1. /\ UNCHANGED <<rules, submitted, called, inflight, unsent, polling, resolved, derived>>
      /\ Len(stack') <= Len(stack)
  BY StackFacts DEF workVars, Depth
<1>2. Skeleton' /\ OnStack' = OnStack
  BY <1>1, NoneAdded DEF Accounts
<1> QED BY <1>1, <1>2 DEF Accounts, JobsCounted, NothingSkipped, Disciplined

(* One job more is owed, *)
LEMMA AddedJob ==
  ASSUME ThrowTypeOK, NEW j \in Jobs
  PROVE  j \notin Owed => Cardinality(Owed \cup {j}) = Cardinality(Owed) + 1
BY OwedFacts, FS_AddElement

(* or one less. *)
LEMMA RemovedJob ==
  ASSUME ThrowTypeOK, NEW j \in Owed
  PROVE  Cardinality(Owed \ {j}) = Cardinality(Owed) - 1 /\ Cardinality(Owed) >= 1
<1>1. Cardinality(Owed \ {j}) = Cardinality(Owed) - 1 
  BY OwedFacts, FS_RemoveElement
<1> QED BY <1>1, OwedFacts

(* The accounts, when a job is submitted, *)
LEMMA SubmitAccounts ==
  ASSUME ThrowTypeOK, Accounts, NEW j \in Jobs, SubmitJob(j)
  PROVE  ThrowTypeOK' /\ Accounts'
<1>1. /\ UNCHANGED <<rules, topTry, called, unsent, polling, resolved, derived,
                     at, stack, buffer, undefined, frames, tries, throws>>
      /\ submitted' = submitted \cup {j} /\ inflight' = inflight + 1
      /\ j \notin submitted \cup called
  BY DEF SubmitJob, jumpVars
<1>2. ThrowTypeOK'
  BY <1>1 DEF ThrowTypeOK
<1>3. Callbacks' = Callbacks /\ OnStack' = OnStack
  BY <1>1 DEF Callbacks, OnStack, Depth
<1>4. j \notin Owed
  BY <1>1, OnStackIs DEF Owed, Accounts
<1>5. Cardinality(Owed') = Cardinality(Owed) + 1
  <2>1. Owed' = Owed \cup {j}
    BY <1>1, <1>3 DEF Owed
  <2> QED BY <2>1, <1>4, AddedJob
<1>6. Skeleton'
  BY <1>1, <1>3 DEF Accounts, Skeleton, Depth
<1>7. JobsCounted'
  BY <1>1, <1>5, OwedFacts DEF Accounts, JobsCounted, Owed, ThrowTypeOK
<1>8. NothingSkipped'
  BY <1>1, <1>3, <1>5, OwedFacts DEF Accounts, NothingSkipped, Disciplined, Owed
<1> QED BY <1>2, <1>6, <1>7, <1>8 DEF Accounts

(* A call, whether the program's or the runtime's. *)
LEMMA PushType ==
  ASSUME ThrowTypeOK, NEW s \in Seq(Frames), NEW kind \in {"fn", "job", "socket", "then"},
         NEW of \in Jobs \cup Messages \cup Thens \cup {Nothing}, Push(s, kind, of)
  PROVE  stack' \in Seq(Frames) /\ stack' # <<>> /\ frames' \in Nat /\ frames' >= frames
<1>1. frames + 1 \in Nat /\ frames' = frames + 1 /\ stack' = Append(s, Frame(kind, of, frames + 1))
  BY DEF Push, ThrowTypeOK
<1>2. Frame(kind, of, frames + 1) \in Frames
  BY <1>1, FrameFacts
<1>3. stack' \in Seq(Frames) /\ stack' # <<>>
  <2> HIDE DEF Frames
  <2> QED BY <1>1, <1>2
<1> QED BY <1>1, <1>3 DEF ThrowTypeOK

(* a function is called, *)
LEMMA FunctionAccounts ==
  ASSUME ThrowTypeOK, ThrowTypeOK', Accounts, NEW s \in Seq(Frames), Len(s) = Len(stack),
         \A i \in 1..Len(stack) : SameCall(s[i], stack[i]),
         Push(s, "fn", Nothing), UNCHANGED <<rules, workVars>>
  PROVE  Accounts'
<1>1. UNCHANGED <<rules, submitted, called, inflight, unsent, polling, resolved, derived>>
  BY DEF workVars
<1>2. submitted' \cap called' = {} /\ called \subseteq called'
  BY <1>1 DEF Accounts, Skeleton
<1>3. Skeleton' /\ OnStack' = OnStack
  BY <1>1, <1>2, PushedFrame DEF Accounts
<1> QED BY <1>1, <1>3 DEF Accounts, JobsCounted, NothingSkipped, Disciplined

(* a job's callback is called, *)
LEMMA CompleteAccounts ==
  ASSUME ThrowTypeOK, Accounts, NEW j \in Jobs, Complete(j)
  PROVE  ThrowTypeOK' /\ Accounts'
<1>1. /\ UNCHANGED <<rules, topTry, inflight, unsent, polling, resolved, derived,
                     at, buffer, undefined, tries, throws>>
      /\ j \in submitted /\ submitted' = submitted \ {j} /\ called' = called \cup {j}
      /\ Push(stack, "job", j)
  BY DEF Complete
<1>2. ThrowTypeOK'
  <2>1. stack' \in Seq(Frames) /\ stack' # <<>> /\ frames' \in Nat
    BY <1>1, StackFacts, PushType
  <2> QED BY <1>1, <2>1 DEF ThrowTypeOK
<1>3. j \notin called /\ submitted' \cap called' = {}
  BY <1>1 DEF Accounts, Skeleton
<1>4. Skeleton' /\ OnStack' = OnStack \cup {j}
  <2>1. \A i \in 1..Len(stack) : SameCall(stack[i], stack[i])
    BY DEF SameCall
  <2>2. stack \in Seq(Frames)
    BY StackFacts
  <2> QED BY <1>1, <1>2, <1>3, <2>1, <2>2, PushedFrame DEF Accounts
<1>5. submitted' \cup (OnStack' \cap Jobs) = submitted \cup (OnStack \cap Jobs)
  BY <1>1, <1>4
<1>6. OnStack' \cap Messages = OnStack \cap Messages
  BY <1>4, ExceptionsAssumption
<1>7. resolved' \ OnStack' = resolved \ OnStack
  BY <1>1, <1>4, ExceptionsAssumption DEF ThrowTypeOK
<1> QED BY <1>1, <1>2, <1>4, <1>5, <1>6, <1>7 DEF Accounts, JobsCounted, NothingSkipped, Disciplined

(* a socket's, *)
LEMMA ReceiveAccounts ==
  ASSUME ThrowTypeOK, Accounts, NEW m \in Messages, Receive(m)
  PROVE  ThrowTypeOK' /\ Accounts'
<1>1. /\ UNCHANGED <<rules, topTry, submitted, called, inflight, resolved, derived,
                     at, buffer, undefined, tries, throws>>
      /\ m \in unsent /\ unsent' = unsent \ {m} /\ polling' = TRUE
      /\ Push(stack, "socket", m) /\ Len(stack) = 1
  BY DEF Receive, InMain, Depth
<1>2. ThrowTypeOK'
  <2>1. stack' \in Seq(Frames) /\ stack' # <<>> /\ frames' \in Nat
    BY <1>1, StackFacts, PushType
  <2> QED BY <1>1, <2>1 DEF ThrowTypeOK
<1>3. m \in unsent \ unsent' /\ submitted' \cap called' = {}
  BY <1>1 DEF Accounts, Skeleton
<1>4. Skeleton' /\ OnStack' = OnStack \cup {m}
  <2>1. \A i \in 1..Len(stack) : SameCall(stack[i], stack[i])
    BY DEF SameCall
  <2>2. stack \in Seq(Frames)
    BY StackFacts
  <2> QED BY <1>1, <1>2, <1>3, <2>1, <2>2, PushedFrame DEF Accounts
<1>5. submitted' \cup (OnStack' \cap Jobs) = submitted \cup (OnStack \cap Jobs)
  BY <1>1, <1>4, ExceptionsAssumption
<1>6. OnStack' \cap Messages # {}
  BY <1>4
<1>7. resolved' \ OnStack' = resolved \ OnStack
  BY <1>1, <1>4, ExceptionsAssumption DEF ThrowTypeOK
<1> QED BY <1>1, <1>2, <1>4, <1>5, <1>6, <1>7 DEF Accounts, JobsCounted, NothingSkipped, Disciplined

(* a reaction of a promise, *)
LEMMA ResolveAccounts ==
  ASSUME ThrowTypeOK, Accounts, NEW t \in Thens, Resolve(t)
  PROVE  ThrowTypeOK' /\ Accounts'
<1>1. /\ UNCHANGED <<rules, topTry, submitted, called, inflight, unsent, polling, derived,
                     at, buffer, undefined, tries, throws>>
      /\ t \notin resolved /\ resolved' = resolved \cup {t}
      /\ Push(stack, "then", t)
  BY DEF Resolve
<1>2. ThrowTypeOK'
  <2>1. stack' \in Seq(Frames) /\ stack' # <<>> /\ frames' \in Nat
    BY <1>1, StackFacts, PushType
  <2> QED BY <1>1, <2>1 DEF ThrowTypeOK
<1>3. t \in resolved' \ resolved /\ submitted' \cap called' = {}
  BY <1>1 DEF Accounts, Skeleton
<1>4. Skeleton' /\ OnStack' = OnStack \cup {t}
  <2>1. \A i \in 1..Len(stack) : SameCall(stack[i], stack[i])
    BY DEF SameCall
  <2>2. stack \in Seq(Frames)
    BY StackFacts
  <2> QED BY <1>1, <1>2, <1>3, <2>1, <2>2, PushedFrame DEF Accounts
<1>5. submitted' \cup (OnStack' \cap Jobs) = submitted \cup (OnStack \cap Jobs)
  BY <1>1, <1>4, ExceptionsAssumption
<1>6. OnStack' \cap Messages = OnStack \cap Messages
  BY <1>4, ExceptionsAssumption
<1>7. t \notin OnStack
  BY <1>1, OnStackIs DEF Accounts
<1>8. resolved' \ OnStack' = resolved \ OnStack
  BY <1>1, <1>4, <1>7
<1> QED BY <1>1, <1>2, <1>4, <1>5, <1>6, <1>8 DEF Accounts, JobsCounted, NothingSkipped, Disciplined

(* and when any of them returns. *)
LEMMA ReturnAccounts ==
  ASSUME ThrowTypeOK, Accounts, Return
  PROVE  ThrowTypeOK' /\ Accounts'
<1> DEFINE d == Len(stack)
           f == stack[d]
<1>1. /\ UNCHANGED <<rules, topTry, at, buffer, undefined, frames, tries, throws,
                     submitted, called, unsent, resolved>>
      /\ d \in Nat /\ d > 1 /\ stack' = SubSeq(stack, 1, d - 1)
      /\ AfterCallback(f)
      /\ f \in Frames
  BY StackFacts DEF Return, Depth, Top
<1>2. /\ stack' \in Seq(Frames) /\ Len(stack') = d - 1 /\ stack' # <<>>
      /\ \A i \in 1..d - 1 : stack'[i] = stack[i]
  <2> DEFINE k == d - 1
  <2>1. stack \in Seq(Frames) /\ k \in Nat /\ k >= 1 /\ k <= Len(stack) /\ stack' = SubSeq(stack, 1, k)
    BY <1>1 DEF ThrowTypeOK
  <2> HIDE DEF Frames, k
  <2>2. stack' \in Seq(Frames) /\ Len(stack') = k /\ \A i \in 1..k : stack'[i] = stack[i]
    BY <2>1
  <2>3. stack' # <<>>
    BY <2>1, <2>2
  <2> QED BY <2>2, <2>3 DEF k
<1>3. Callbacks = Callbacks \cap 1..d /\ \A i \in Callbacks : i \in 1..d
  BY DEF Callbacks, Depth
<1>4. d \in Callbacks => f.of \notin {stack[i].of : i \in Callbacks \cap 1..d - 1}
  BY <1>1, <1>3 DEF Accounts, Skeleton
<1>5. f.kind = "job" => d \in Callbacks /\ f.of \in called /\ f.of \in Jobs
  BY <1>1 DEF Callbacks, Depth, Accounts, Skeleton, ThrowTypeOK
<1>6. f.kind = "socket" => d \in Callbacks /\ f.of \in Messages /\ d = 2
  <2>1. d \in 1..d
    BY <1>1
  <2>2. f.kind = "socket" => f.of \in Messages /\ d = 2
    BY <2>1 DEF Accounts, Skeleton, Depth
  <2> QED BY <2>1, <2>2 DEF Callbacks, Depth
<1>7. f.kind = "then" => d \in Callbacks /\ f.of \in resolved /\ f.of \in Thens
  BY <1>1 DEF Callbacks, Depth, Accounts, Skeleton, ThrowTypeOK
<1>8. d \in Callbacks => f.kind \in {"job", "socket", "then"} /\ f.of \in OnStack
  BY DEF Callbacks, OnStack
<1>9. OnStack = IF d \in Callbacks THEN {stack[i].of : i \in Callbacks \cap 1..d - 1} \cup {f.of}
                ELSE {stack[i].of : i \in Callbacks \cap 1..d - 1}
  <2>1. Callbacks = (Callbacks \cap 1..d - 1) \cup (Callbacks \cap {d})
    BY <1>1, <1>3
  <2> QED BY <2>1 DEF OnStack
<1>10. Owed \in SUBSET Jobs /\ (f.kind = "job" => f.of \in Owed)
  BY <1>5, <1>8, OwedFacts DEF Owed
<1>11. inflight' \in Nat
  <2>1. CASE f.kind = "job"
    <3>1. Cardinality(Owed) >= 1 /\ inflight >= Cardinality(Owed)
      BY <1>10, <2>1, RemovedJob DEF Accounts, JobsCounted, Owed
    <3>2. inflight \in Nat /\ Cardinality(Owed) \in Nat /\ inflight' = inflight - 1
      BY <1>1, <2>1, OwedFacts DEF ThrowTypeOK, AfterCallback
    <3> QED BY <3>1, <3>2
  <2>2. CASE f.kind # "job"
    BY <1>1, <2>2 DEF AfterCallback, ThrowTypeOK
  <2> QED BY <2>1, <2>2
<1>12. derived' \subseteq resolved' /\ polling' \in BOOLEAN
  BY <1>1, <1>7 DEF AfterCallback, ThrowTypeOK
<1>13. ThrowTypeOK'
  BY <1>1, <1>2, <1>11, <1>12 DEF ThrowTypeOK
<1>14. /\ Skeleton' /\ Callbacks' = Callbacks \cap 1..d - 1
  <2>1. \A i \in 1..Len(stack') : SameCall(stack'[i], stack[i])
    BY <1>2 DEF SameCall
  <2>2. Len(stack') <= Len(stack) /\ frames' >= frames
    BY <1>1, <1>2 DEF ThrowTypeOK
  <2> QED BY <1>1, <1>2, <1>13, <2>1, <2>2, NoneAdded DEF Accounts
<1>15. OnStack' = {stack[i].of : i \in Callbacks \cap 1..d - 1}
  BY <1>2, <1>14 DEF OnStack
<1>16. OnStack' = IF d \in Callbacks THEN OnStack \ {f.of} ELSE OnStack
  BY <1>4, <1>9, <1>15
<1> HIDE DEF f
<1>17. Owed' = IF f.kind = "job" THEN Owed \ {f.of} ELSE Owed
  <2>1. CASE f.kind = "job"
    <3>1. f.of \notin submitted
      BY <1>5, <2>1 DEF Accounts, Skeleton
    <3> QED BY <1>1, <1>5, <1>16, <2>1, <3>1 DEF Owed
  <2>2. CASE f.kind # "job"
    BY <1>1, <1>6, <1>7, <1>8, <1>16, <2>2, ExceptionsAssumption DEF Owed
  <2> QED BY <2>1, <2>2
<1>18. /\ Cardinality(Owed) \in Nat
       /\ Cardinality(Owed') = IF f.kind = "job" THEN Cardinality(Owed) - 1 ELSE Cardinality(Owed)
       /\ inflight \in Nat /\ inflight' = IF f.kind = "job" THEN inflight - 1 ELSE inflight
  BY <1>1, <1>10, <1>17, OwedFacts, RemovedJob DEF AfterCallback, ThrowTypeOK
<1>19. JobsCounted'
  BY <1>18 DEF Accounts, JobsCounted, Owed
<1>20. ASSUME Disciplined, "contained" \in rules PROVE NothingSkipped'
  <2>1. inflight = Cardinality(Owed) /\ (polling <=> OnStack \cap Messages # {}) /\ derived = resolved \ OnStack
    BY <1>20 DEF Accounts, NothingSkipped, Owed
  <2>2. inflight' = Cardinality(Owed')
    BY <1>18, <2>1
  <2>3. polling' <=> OnStack' \cap Messages # {}
    <3>1. CASE f.kind = "socket"
      <4>1. Callbacks' \subseteq {1}
        <5>1. d - 1 = 1 /\ 1..1 = {1}
          BY <1>6, <3>1
        <5> QED BY <1>14, <5>1
      <4>2. Callbacks' = {}
        BY <4>1, <1>14, <1>1 DEF Accounts, Skeleton, Callbacks
      <4> QED BY <1>1, <3>1, <4>2 DEF AfterCallback, OnStack
    <3>2. CASE f.kind # "socket"
      <4>1. OnStack' \cap Messages = OnStack \cap Messages
        BY <1>5, <1>7, <1>8, <1>16, <3>2, ExceptionsAssumption
      <4> QED BY <1>1, <2>1, <3>2, <4>1 DEF AfterCallback, ThrowTypeOK
    <3> QED BY <3>1, <3>2
  <2>4. derived' = resolved' \ OnStack'
    <3>1. CASE f.kind = "then"
      BY <1>1, <1>7, <1>16, <2>1, <3>1 DEF AfterCallback
    <3>2. CASE f.kind # "then"
      <4>1. d \in Callbacks => f.of \notin Thens
        BY <1>5, <1>6, <1>8, <3>2, ExceptionsAssumption
      <4> QED BY <1>1, <1>16, <2>1, <3>2, <4>1 DEF AfterCallback, ThrowTypeOK
    <3> QED BY <3>1, <3>2
  <2> QED BY <2>2, <2>3, <2>4 DEF NothingSkipped, Owed
<1> QED BY <1>1, <1>13, <1>14, <1>19, <1>20 DEF Accounts, NothingSkipped, Disciplined

-----------------------------------------------------------------------------
(* Where the buffer points *)

Jumps == NoUndefinedJump /\ BufferNamesBody /\ MainsTry

(* A step that enters no try block keeps the buffer's. *)
LEMMA BodiesKept ==
  ASSUME BufferNamesBody, UNCHANGED <<rules, buffer>>,
         Disciplined => \A p \in Bodies' : /\ p \in Bodies
                                           /\ stack'[p[1]].id = stack[p[1]].id
                                           /\ stack'[p[1]].tries = stack[p[1]].tries
  PROVE  BufferNamesBody'
BY DEF BufferNamesBody, Disciplined, Last

(* A call puts a frame without try statements on the stack. *)
LEMMA PushBodies ==
  ASSUME ThrowTypeOK, NEW s \in Seq(Frames), s # <<>>, NEW kind, NEW of, NEW id, stack' = Append(s,
          Frame(kind, of, id))
  PROVE  /\ \A i, n : <<i, n>> \in Bodies' <=> /\ i \in 1..Len(s) /\ n \in DOMAIN s[i].tries
                                               /\ s[i].tries[n].at = "body"
         /\ \A i \in 1..Len(s) : stack'[i] = s[i]
         /\ stack'[1] = s[1]
<1> DEFINE f == Frame(kind, of, id)
           d == Len(s)
<1>1. f.tries = <<>>
  BY DEF Frame
<1> HIDE DEF f
<1>2. /\ d \in Nat /\ d >= 1 /\ Len(stack') = d + 1 /\ stack'[d + 1] = f
      /\ \A i \in 1..d : stack'[i] = s[i]
  <2> HIDE DEF Frames
  <2> QED BY DEF f
<1>3. ASSUME NEW i, NEW n
      PROVE  <<i, n>> \in Bodies' <=> i \in 1..d /\ n \in DOMAIN s[i].tries /\ s[i].tries[n].at = "body"
  <2>1. <<i, n>> \in Bodies'
          <=> i \in 1..d + 1 /\ n \in DOMAIN stack'[i].tries /\ stack'[i].tries[n].at = "body"
    BY <1>2 DEF Bodies, Depth
  <2>2. i = d + 1 => DOMAIN stack'[i].tries = {}
    BY <1>1, <1>2
  <2>3. i \in 1..d + 1 <=> i \in 1..d \/ i = d + 1
    BY <1>2
  <2> QED BY <1>2, <2>1, <2>2, <2>3
<1> QED BY <1>2, <1>3

(* A call leaves the try blocks as they are, *)
LEMMA PushJumps ==
  ASSUME ThrowTypeOK, Jumps, NEW kind, NEW of, Push(stack, kind, of),
         UNCHANGED <<rules, topTry, at, buffer, undefined>>
  PROVE  Jumps'
<1>1. stack \in Seq(Frames) /\ stack # <<>>
  BY DEF ThrowTypeOK
<1>2. /\ \A i, n : <<i, n>> \in Bodies' <=> /\ i \in 1..Len(stack) /\ n \in DOMAIN stack[i].tries
                                            /\ stack[i].tries[n].at = "body"
      /\ \A i \in 1..Len(stack) : stack'[i] = stack[i]
      /\ stack'[1] = stack[1]
  BY <1>1, PushBodies DEF Push
<1>3. \A p \in Bodies' : p \in Bodies /\ p[1] \in 1..Len(stack)
  <2>1. \A p \in Bodies' : p = <<p[1], p[2]>>
    BY DEF Bodies
  <2> QED BY <1>2, <2>1, BodiesAre DEF Depth
<1>4. BufferNamesBody'
  BY <1>2, <1>3, BodiesKept DEF Jumps
<1> QED BY <1>2, <1>4 DEF Jumps, NoUndefinedJump, MainsTry, Disciplined

(* and so does a step that moves no frame, *)
LEMMA SameStackJumps ==
  ASSUME Jumps, UNCHANGED <<rules, topTry, stack, buffer, undefined>>,
         at' = at \/ (at # "init" /\ at' # "init")
  PROVE  Jumps'
<1>1. Bodies' = Bodies
  BY DEF Bodies, Depth
<1>2. BufferNamesBody'
  BY <1>1, BodiesKept DEF Jumps
<1> QED BY <1>2 DEF Jumps, NoUndefinedJump, MainsTry, Disciplined

(* and a return, since no block outlives its function. *)
LEMMA ReturnJumps ==
  ASSUME ThrowTypeOK, Jumps, Return
  PROVE  Jumps'
<1>1. /\ UNCHANGED <<rules, topTry, at, buffer, undefined>>
      /\ Len(stack) \in Nat /\ Len(stack) > 1 /\ stack' = SubSeq(stack, 1, Len(stack) - 1)
      /\ stack \in Seq(Frames)
  BY StackFacts DEF Return, Depth
<1>2. /\ Len(stack') = Len(stack) - 1
      /\ \A i \in 1..Len(stack) - 1 : stack'[i] = stack[i] /\ i \in 1..Len(stack)
  <2> DEFINE k == Len(stack) - 1
  <2>1. k \in Nat /\ k >= 1 /\ k <= Len(stack) /\ stack' = SubSeq(stack, 1, k)
    BY <1>1
  <2> HIDE DEF Frames, k
  <2>2. Len(stack') = k /\ \A i \in 1..k : stack'[i] = stack[i] /\ i \in 1..Len(stack)
    BY <1>1, <2>1
  <2> QED BY <2>2 DEF k
<1>3. \A p \in Bodies' : p \in Bodies /\ stack'[p[1]] = stack[p[1]]
  BY <1>2 DEF Bodies, Depth
<1>4. BufferNamesBody'
  BY <1>1, <1>3, BodiesKept DEF Jumps
<1>5. stack'[1] = stack[1]
  BY <1>1, <1>2
<1> QED BY <1>1, <1>4, <1>5 DEF Jumps, NoUndefinedJump, MainsTry, Disciplined

-----------------------------------------------------------------------------
(* try statements *)

(* TS_TRY: the buffer is the new block's. *)
LEMMA EnterTryStep ==
  ASSUME ThrowTypeOK, Accounts, Jumps, NEW catches \in BOOLEAN, EnterTry(catches)
  PROVE  ThrowTypeOK' /\ Accounts' /\ Jumps'
<1> DEFINE d == Len(stack)
           g == WithTry(stack[d], catches)
<1>1. /\ UNCHANGED <<rules, topTry, workVars, at, undefined, frames, throws>>
      /\ tries' = tries + 1 /\ tries \in Nat /\ frames' >= frames
      /\ stack' = [stack EXCEPT ![d] = g]
      /\ buffer' = [frame |-> g.id, tries |-> g.tries]
      /\ "onlyTop" \notin rules
      /\ d \in Nat /\ d >= 1 /\ stack \in Seq(Frames) /\ stack[d] \in Frames
  BY StackFacts DEF EnterTry, Top, Depth, ThrowTypeOK
<1>2. /\ g \in Frames /\ SameCall(g, stack[d]) /\ g.tries = Append(stack[d].tries,
        [catches |-> catches, at |-> "body"])
      /\ g.tries \in Seq(Tries) \ {<<>>} /\ Last(g) = Len(stack[d].tries) + 1 /\ g.id \in Nat
      /\ stack[d].tries \in Seq(Tries)
  BY <1>1, TriesFacts DEF Frames
<1> HIDE DEF g
<1>3. /\ stack' \in Seq(Frames) /\ stack' # <<>> /\ Len(stack') = d
      /\ stack'[d] = g /\ \A i \in 1..d : i # d => stack'[i] = stack[i]
  <2> HIDE DEF Frames
  <2> QED BY <1>1, <1>2
<1>4. ThrowTypeOK'
  <2>1. buffer' \in Buffers
    BY <1>1, <1>2 DEF Buffers
  <2>2. tries' \in Nat
    BY <1>1
  <2> HIDE DEF Frames, Tries
  <2> QED BY <1>1, <1>3, <2>1, <2>2 DEF ThrowTypeOK, workVars
<1>5. Accounts'
  <2>1. \A i \in 1..Len(stack') : SameCall(stack'[i], stack[i])
    BY <1>2, <1>3 DEF SameCall
  <2> QED BY <1>1, <1>3, <1>4, <2>1, SameShape
<1>6. BufferNamesBody'
  <2> SUFFICES ASSUME Disciplined PROVE BufferNamesBody'
    BY <1>1 DEF BufferNamesBody, Disciplined
  <2>1. Bodies = {}
    BY DEF EnterTry, Disciplined
  <2>2. \A i \in 1..d : \A n \in DOMAIN stack[i].tries : stack[i].tries[n].at # "body"
    BY <2>1, BodiesAre DEF Depth
  <2> DEFINE k == Len(stack[d].tries)
  <2>3. /\ k \in Nat /\ DOMAIN g.tries = 1..k + 1 /\ DOMAIN stack[d].tries = 1..k
        /\ \A n \in 1..k : g.tries[n] = stack[d].tries[n]
    <3> DEFINE t == stack[d].tries
               x == [catches |-> catches, at |-> "body"]
    <3>1. t \in Seq(Tries) /\ x \in Tries /\ g.tries = Append(t, x)
      BY <1>2 DEF Tries
    <3> HIDE DEF Tries, t, x
    <3>2. /\ Len(t) \in Nat /\ DOMAIN g.tries = 1..Len(t) + 1 /\ DOMAIN t = 1..Len(t)
          /\ \A n \in 1..Len(t) : g.tries[n] = t[n]
      BY <3>1
    <3> QED BY <3>2 DEF t
  <2> HIDE DEF k
  <2>4. \A p \in Bodies' : p[1] = d /\ p[2] = Last(g)
    <3> SUFFICES ASSUME NEW p \in Bodies' PROVE p[1] = d /\ p[2] = Last(g)
      OBVIOUS
    <3>1. p[1] \in 1..d /\ p[2] \in DOMAIN stack'[p[1]].tries /\ stack'[p[1]].tries[p[2]].at = "body"
      BY <1>3 DEF Bodies, Depth
    <3>2. p[1] = d
      BY <3>1, <2>2, <1>3
    <3>3. p[2] \in 1..k + 1 /\ g.tries[p[2]].at = "body"
      BY <1>3, <2>3, <3>1, <3>2
    <3>4. p[2] \notin 1..k
      BY <1>1, <2>2, <2>3, <3>3
    <3> QED BY <3>2, <3>3, <3>4, <1>2, <2>3 DEF k
  <2>5. \A p \in Bodies' : p = <<p[1], p[2]>>
    BY DEF Bodies
  <2> QED BY <1>1, <1>3, <2>4, <2>5 DEF BufferNamesBody, Last
<1>7. MainsTry'
  <2>1. at = "init" => d # 1
    BY DEF EnterTry, UserCode, InCatch, Top, Depth, Jumps, MainsTry
  <2>2. at = "init" => stack'[1] = stack[1]
    <3>1. 1 \in 1..d
      BY <1>1
    <3> QED BY <1>3, <2>1, <3>1, Zenon
  <2> QED BY <1>1, <2>2 DEF MainsTry, Jumps
<1> QED BY <1>1, <1>4, <1>5, <1>6, <1>7 DEF Jumps, NoUndefinedJump, Disciplined

(* The end of a try statement. *)
LEMMA LeaveTryStep ==
  ASSUME ThrowTypeOK, Accounts, Jumps, LeaveTry
  PROVE  ThrowTypeOK' /\ Accounts' /\ Jumps'
<1> DEFINE d == Len(stack)
           g == WithoutTry(stack[d])
<1>1. /\ UNCHANGED <<rules, topTry, workVars, at, buffer, undefined, frames, tries, throws>>
      /\ frames' >= frames
      /\ stack' = [stack EXCEPT ![d] = g]
      /\ stack[d].tries # <<>>
      /\ d \in Nat /\ d >= 1 /\ stack \in Seq(Frames) /\ stack[d] \in Frames
  BY StackFacts DEF LeaveTry, Top, Depth, ThrowTypeOK
<1>2. /\ g \in Frames /\ SameCall(g, stack[d]) /\ stack[d].tries \in Seq(Tries)
      /\ g.tries = SubSeq(stack[d].tries, 1, Len(stack[d].tries) - 1)
  BY <1>1, TriesFacts DEF Frames
<1> HIDE DEF g
<1>3. /\ stack' \in Seq(Frames) /\ stack' # <<>> /\ Len(stack') = d
      /\ stack'[d] = g /\ \A i \in 1..d : i # d => stack'[i] = stack[i]
  <2> HIDE DEF Frames
  <2> QED BY <1>1, <1>2
<1>4. ThrowTypeOK'
  BY <1>1, <1>3 DEF ThrowTypeOK, workVars
<1>5. Accounts'
  <2>1. \A i \in 1..Len(stack') : SameCall(stack'[i], stack[i])
    BY <1>2, <1>3 DEF SameCall
  <2> QED BY <1>1, <1>3, <1>4, <2>1, SameShape
<1>6. BufferNamesBody'
  <2> DEFINE k == Len(stack[d].tries)
  <2>1. /\ k \in Nat /\ k >= 1 /\ DOMAIN g.tries = 1..k - 1 /\ DOMAIN stack[d].tries = 1..k
        /\ \A n \in 1..k - 1 : g.tries[n] = stack[d].tries[n] /\ n \in 1..k /\ n # k
    <3> HIDE DEF Tries
    <3> QED BY <1>1, <1>2
  <2>2. ASSUME Disciplined, NEW p \in Bodies' PROVE p \in Bodies /\ stack'[p[1]] = stack[p[1]]
    <3>1. /\ p[1] \in 1..d /\ p[2] \in DOMAIN stack'[p[1]].tries /\ stack'[p[1]].tries[p[2]].at = "body"
          /\ p = <<p[1], p[2]>>
      BY <1>3 DEF Bodies, Depth
    <3>2. ASSUME p[1] = d PROVE FALSE
      <4>1. p[2] \in 1..k - 1 /\ stack[d].tries[p[2]].at = "body"
        BY <1>3, <2>1, <3>1, <3>2
      <4>2. p \in Bodies /\ p[2] # k
        BY <1>1, <1>2, <2>1, <3>1, <3>2, <4>1, BodiesAre DEF Depth
      <4> QED BY <2>2, <3>2, <4>2 DEF Jumps, BufferNamesBody, Last
    <3>3. stack'[p[1]] = stack[p[1]]
      BY <1>3, <3>1, <3>2
    <3>4. p \in Bodies
      BY <3>1, <3>3, BodiesAre DEF Depth
    <3> QED BY <3>3, <3>4
  <2> QED BY <1>1, <2>2, BodiesKept DEF Jumps
<1>7. MainsTry'
  <2>1. at = "init" => d # 1
    BY DEF LeaveTry, UserCode, InCatch, Top, Depth, Jumps, MainsTry
  <2>2. at = "init" => stack'[1] = stack[1]
    <3>1. 1 \in 1..d
      BY <1>1
    <3> QED BY <1>3, <2>1, <3>1, Zenon
  <2> QED BY <1>1, <2>2 DEF MainsTry, Jumps
<1> QED BY <1>1, <1>4, <1>5, <1>6, <1>7 DEF Jumps, NoUndefinedJump, Disciplined

-----------------------------------------------------------------------------
(* throw *)

(* In a disciplined program the buffer's try statement is the innermost that is
   running, and its frame is on the stack. *)
LEMMA BufferFacts ==
  ASSUME ThrowTypeOK, Skeleton, BufferNamesBody, Disciplined, Bodies # {}
  PROVE  LET p == Innermost IN
         /\ Bodies = {p} /\ p = <<p[1], p[2]>> /\ p[1] \in 1..Depth
         /\ p[2] = Len(stack[p[1]].tries) /\ stack[p[1]].tries # <<>>
         /\ Live = {p[1]} /\ buffer # Nothing /\ buffer.tries = stack[p[1]].tries
<1>1. PICK q \in Bodies : TRUE
  OBVIOUS
<1>2. Bodies = {q}
  BY <1>1 DEF BufferNamesBody
<1>3. q = <<q[1], q[2]>> /\ q[1] \in 1..Depth /\ q[2] \in DOMAIN stack[q[1]].tries
  BY <1>1, BodiesAre
<1>4. Innermost = q
  <2>1. \A r \in Bodies : r[1] < q[1] \/ (r[1] = q[1] /\ r[2] <= q[2])
    <3>1. stack[q[1]].tries \in Seq(Tries) /\ Len(stack[q[1]].tries) \in Nat
          /\ DOMAIN stack[q[1]].tries = 1..Len(stack[q[1]].tries)
      BY <1>3, StackFacts
    <3>2. q[2] \in Nat
      BY <1>3, <3>1
    <3> QED BY <1>2, <3>2
  <2> QED BY <1>2, <2>1 DEF Innermost
<1>5. q[2] = Len(stack[q[1]].tries) /\ buffer = [frame |-> stack[q[1]].id, tries |-> stack[q[1]].tries]
  BY <1>1 DEF BufferNamesBody, Last
<1>6. stack[q[1]].tries # <<>>
  BY <1>3
<1>7. buffer # Nothing /\ Live = {q[1]}
  <2>1. buffer # Nothing
    <3>1. stack[q[1]].id \in Nat /\ stack[q[1]].tries \in Seq(Tries) \ {<<>>}
      BY <1>3, <1>6, StackFacts
    <3> QED BY <1>5, <3>1, ExceptionsAssumption DEF Buffers
  <2>2. \A i \in 1..Depth : stack[i].id = stack[q[1]].id => i = q[1]
    <3> SUFFICES ASSUME NEW i \in 1..Depth, i # q[1] PROVE stack[i].id # stack[q[1]].id
      OBVIOUS
    <3>1. Depth \in Nat /\ stack[i].id \in Nat /\ stack[q[1]].id \in Nat
      BY <1>3, StackFacts
    <3>2. i < q[1] \/ q[1] < i
      BY <1>3, <3>1
    <3> QED BY <1>3, <3>1, <3>2 DEF Skeleton
  <2> QED BY <1>3, <1>5, <2>1, <2>2 DEF Live
<1> QED BY <1>2, <1>3, <1>4, <1>5, <1>6, <1>7

(* The stack is cut at the frame of the setjmp. *)
LEMMA CutFacts ==
  ASSUME ThrowTypeOK, buffer # Nothing, NEW i \in 1..Depth,
         stack' = Append(SubSeq(stack, 1, i - 1), Caught([stack[i] EXCEPT !.tries = buffer.tries]))
  PROVE  /\ stack' \in Seq(Frames) /\ Len(stack') = i
         /\ \A k \in 1..i - 1 : stack'[k] = stack[k]
         /\ SameCall(stack'[i], stack[i])
         /\ \A n \in 1..Len(stack'[i].tries) :
              /\ n \in 1..Len(buffer.tries)
              /\ stack'[i].tries[n].at = "body" => n < Len(buffer.tries) /\ buffer.tries[n].at = "body"
<1> DEFINE f == [stack[i] EXCEPT !.tries = buffer.tries]
           g == Caught(f)
           t == SubSeq(stack, 1, i - 1)
<1>1. stack[i] \in Frames /\ i \in Nat /\ i >= 1 /\ i <= Len(stack) /\ stack \in Seq(Frames)
  BY StackFacts DEF Depth
<1>2. buffer.tries \in Seq(Tries) /\ buffer.tries # <<>>
  BY DEF ThrowTypeOK, Buffers
<1>3. f \in Frames /\ f.tries = buffer.tries /\ SameCall(f, stack[i])
  BY <1>1, <1>2 DEF Frames, SameCall
<1> HIDE DEF f
<1>4. /\ g \in Frames /\ SameCall(g, stack[i])
      /\ \A n \in 1..Len(g.tries) :
              /\ n \in 1..Len(buffer.tries)
              /\ g.tries[n].at = "body" => n < Len(buffer.tries) /\ buffer.tries[n].at = "body"
  BY <1>2, <1>3, TriesFacts DEF SameCall
<1> HIDE DEF g
<1>5. t \in Seq(Frames) /\ Len(t) = i - 1 /\ \A k \in 1..i - 1 : t[k] = stack[k]
  <2> DEFINE m == i - 1
  <2>1. m \in Nat /\ m <= Len(stack) /\ t = SubSeq(stack, 1, m)
    BY <1>1
  <2> HIDE DEF Frames, m
  <2>2. SubSeq(stack, 1, m) \in Seq(Frames) /\ Len(SubSeq(stack, 1, m)) = m
        /\ \A k \in 1..m : SubSeq(stack, 1, m)[k] = stack[k]
    BY <1>1, <2>1
  <2> QED BY <2>1, <2>2 DEF m
<1>6. stack' = Append(t, g)
  BY DEF f, g
<1> HIDE DEF t, Frames
<1>7. /\ stack' \in Seq(Frames) /\ Len(stack') = i /\ stack'[i] = g
      /\ \A k \in 1..i - 1 : stack'[k] = t[k]
  <2>1. Len(t) + 1 = i /\ g \in Frames
    BY <1>1, <1>4, <1>5
  <2>2. /\ stack' \in Seq(Frames) /\ Len(stack') = Len(t) + 1 /\ stack'[Len(t) + 1] = g
        /\ \A k \in 1..Len(t) : stack'[k] = t[k]
    <3>1. /\ Append(t, g) \in Seq(Frames) /\ Len(Append(t, g)) = Len(t) + 1
          /\ Append(t, g)[Len(t) + 1] = g /\ \A k \in 1..Len(t) : Append(t, g)[k] = t[k]
      BY <1>5, <2>1, Appended
    <3> QED BY <1>6, <3>1, Zenon
  <2> QED BY <1>5, <2>1, <2>2
<1> QED BY <1>4, <1>5, <1>7

(* throw: the frame the buffer names is live, or the jump is undefined. *)
LEMMA ThrowStep ==
  ASSUME ThrowTypeOK, Accounts, Jumps, Throw
  PROVE  ThrowTypeOK' /\ Accounts' /\ Jumps'
<1>1. /\ UNCHANGED <<rules, topTry, submitted, called, inflight, unsent, polling, resolved, derived,
                     buffer, frames, tries>>
      /\ throws' = throws + 1 /\ throws \in Nat /\ throws' \in Nat
      /\ ThrowAllowed /\ ~undefined /\ UserCode
  BY DEF Throw, workVars, ThrowTypeOK, UserCode, Running
<1>2. Disciplined => Bodies # {}
  BY <1>1 DEF ThrowAllowed, Disciplined
<1>3. CASE Live = {}
  <2>1. undefined' = TRUE /\ UNCHANGED <<at, stack>>
    BY <1>3 DEF Throw
  <2>2. ~Disciplined
    BY <1>2, <1>3, BufferFacts DEF Accounts, Jumps
  <2>3. ~(topTry /\ "onlyTop" \in rules)
    <3> SUFFICES ASSUME topTry, "onlyTop" \in rules PROVE FALSE
      OBVIOUS
    <3>1. buffer # Nothing /\ buffer.frame = 0
      BY <1>1 DEF ThrowAllowed, Jumps, MainsTry
    <3>2. 1 \in 1..Depth
      BY StackFacts
    <3>3. 1 \in Live
      BY <3>1, <3>2 DEF Live, Accounts, Skeleton
    <3> QED BY <1>3, <3>3
  <2>4. ThrowTypeOK'
    BY <1>1, <2>1 DEF ThrowTypeOK
  <2>5. Accounts'
    <3>1. \A k \in 1..Len(stack') : SameCall(stack'[k], stack[k])
      BY <2>1 DEF SameCall
    <3> QED BY <1>1, <2>1, <2>4, <3>1, SameShape DEF workVars, ThrowTypeOK
  <2>6. Jumps'
    <3>1. BufferNamesBody'
      BY <1>1, <2>2 DEF BufferNamesBody, Disciplined
    <3> QED BY <1>1, <2>1, <2>2, <2>3, <3>1 DEF Jumps, NoUndefinedJump, MainsTry, Disciplined
  <2> QED BY <2>4, <2>5, <2>6
<1>4. CASE Live # {}
  <2> DEFINE i == CHOOSE k \in Live : TRUE
  <2>1. /\ i \in Live
        /\ stack' = Append(SubSeq(stack, 1, i - 1), Caught([stack[i] EXCEPT !.tries = buffer.tries]))
        /\ at' = IF i = 1 THEN "entry" ELSE at
        /\ UNCHANGED undefined
    BY <1>4 DEF Throw
  <2> HIDE DEF i
  <2>2. i \in 1..Depth /\ buffer # Nothing
    BY <2>1 DEF Live
  <2>3. /\ stack' \in Seq(Frames) /\ Len(stack') = i
        /\ \A k \in 1..i - 1 : stack'[k] = stack[k]
        /\ SameCall(stack'[i], stack[i])
        /\ \A n \in 1..Len(stack'[i].tries) :
              /\ n \in 1..Len(buffer.tries)
              /\ stack'[i].tries[n].at = "body" => n < Len(buffer.tries) /\ buffer.tries[n].at = "body"
    BY <2>1, <2>2, CutFacts
  <2>4. i \in Nat /\ i >= 1 /\ i <= Len(stack) /\ Len(stack) \in Nat
    BY <2>2, StackFacts DEF Depth
  <2>5. ThrowTypeOK'
    <3>1. stack' # <<>>
      BY <2>3, <2>4
    <3>2. at' \in {"init", "entry", "loop", "exit"}
      BY <2>1 DEF ThrowTypeOK
    <3> HIDE DEF Frames
    <3> QED BY <1>1, <2>1, <2>3, <3>1, <3>2 DEF ThrowTypeOK
  <2>6. \A k \in 1..Len(stack') : SameCall(stack'[k], stack[k])
    <3>1. \A k \in 1..i : k = i \/ k \in 1..i - 1
      BY <2>4
    <3> QED BY <2>3, <3>1 DEF SameCall
  <2>7. Skeleton' /\ Callbacks' = Callbacks \cap 1..i /\ OnStack' \subseteq OnStack
    <3>1. Len(stack') <= Len(stack) /\ frames' >= frames
      BY <1>1, <2>3, <2>4 DEF ThrowTypeOK
    <3> QED BY <1>1, <2>3, <2>5, <2>6, <3>1, NoneAdded DEF Accounts
  <2>8. JobsCounted'
    <3>1. Owed' \subseteq Owed
      BY <1>1, <2>7 DEF Owed
    <3>2. Cardinality(Owed') \in Nat /\ Cardinality(Owed') <= Cardinality(Owed) /\ Cardinality(Owed) \in Nat
      BY <3>1, OwedFacts
    <3> QED BY <1>1, <3>2 DEF Accounts, JobsCounted, Owed, ThrowTypeOK
  <2>9. ASSUME Disciplined, "contained" \in rules PROVE OnStack' = OnStack
    <3>1. Innermost[1] = i
      BY <1>2, <2>1, <2>9, BufferFacts DEF Accounts, Jumps
    <3>2. Callbacks \subseteq 1..i
      <4> SUFFICES ASSUME NEW k \in Callbacks PROVE k \in 1..i
        OBVIOUS
      <4>1. k \in 1..Len(stack) /\ k <= i
        BY <1>1, <2>9, <3>1 DEF ThrowAllowed, Callbacks, Depth
      <4> QED BY <2>4, <4>1
    <3>3. Callbacks' = Callbacks
      BY <2>7, <3>2
    <3>4. \A k \in Callbacks : stack'[k].of = stack[k].of
      BY <2>3, <2>6, <3>2 DEF SameCall
    <3> QED BY <3>3, <3>4 DEF OnStack
  <2>10. NothingSkipped'
    BY <1>1, <2>9 DEF Accounts, NothingSkipped, Disciplined
  <2>11. Disciplined => Bodies' = {}
    <3> SUFFICES ASSUME Disciplined, NEW p \in Bodies' PROVE FALSE
      BY <1>1 DEF Disciplined
    <3>1. p[1] \in 1..i /\ p[2] \in DOMAIN stack'[p[1]].tries /\ stack'[p[1]].tries[p[2]].at = "body"
      BY <2>3 DEF Bodies, Depth
    <3>2. /\ Bodies = {Innermost} /\ Innermost = <<i, Len(stack[i].tries)>>
          /\ buffer.tries = stack[i].tries /\ stack[i].tries \in Seq(Tries)
      <4>1. Innermost[1] = i
        BY <1>2, <2>1, BufferFacts DEF Accounts, Jumps
      <4> QED BY <4>1, <1>2, <2>2, BufferFacts, StackFacts DEF Accounts, Jumps
    <3>3. CASE p[1] = i
      <4>1. stack'[i].tries \in Seq(Tries) /\ DOMAIN stack'[i].tries = 1..Len(stack'[i].tries)
        <5>1. i \in 1..Len(stack')
          BY <2>3, <2>4
        <5>2. stack'[i] \in Frames
          <6> HIDE DEF Frames
          <6> QED BY <2>3, <5>1
        <5> QED BY <5>2 DEF Frames
      <4>2. p[2] \in 1..Len(stack'[i].tries)
        BY <3>1, <3>3, <4>1
      <4>3. p[2] \in 1..Len(stack[i].tries) /\ p[2] < Len(stack[i].tries) /\ stack[i].tries[p[2]].at = "body"
        BY <2>3, <3>1, <3>2, <3>3, <4>2
      <4>4. <<i, p[2]>> \in Bodies
        BY <2>2, <3>2, <4>3, BodiesAre
      <4> QED BY <3>2, <4>3, <4>4
    <3>4. CASE p[1] # i
      <4>1. p[1] \in 1..i - 1 /\ p[1] \in 1..Depth
        BY <2>4, <3>1, <3>4 DEF Depth
      <4>2. <<p[1], p[2]>> \in Bodies
        BY <2>3, <3>1, <4>1, BodiesAre
      <4> QED BY <3>2, <3>4, <4>2
    <3> QED BY <3>3, <3>4
  <2>12. BufferNamesBody'
    BY <1>1, <2>11 DEF BufferNamesBody, Disciplined
  <2>13. MainsTry'
    <3>1. at' = "init" => stack'[1] = stack[1] /\ at = "init"
      <4>1. i # 1 => 1 \in 1..i - 1
        BY <2>4
      <4> QED BY <2>1, <2>3, <4>1
    <3>2. topTry /\ "onlyTop" \in rules => at # "init"
      BY <1>1 DEF ThrowAllowed
    <3> QED BY <1>1, <3>1, <3>2 DEF Jumps, MainsTry
  <2> QED BY <1>1, <2>1, <2>5, <2>7, <2>8, <2>10, <2>12, <2>13 DEF Accounts, Jumps,
          NoUndefinedJump, Disciplined
<1> QED BY <1>3, <1>4

-----------------------------------------------------------------------------
(* main() *)

(* main() calls the entry function, with its own TS_TRY if it makes one. *)
LEMMA EnterStep ==
  ASSUME ThrowTypeOK, Accounts, Jumps, Enter
  PROVE  ThrowTypeOK' /\ Accounts' /\ Jumps'
<1> DEFINE f == stack[1]
           g == WithTry(f, TRUE)
<1>1. /\ UNCHANGED <<rules, topTry, workVars, undefined, throws>>
      /\ at = "init" /\ at' = "entry" /\ Len(stack) = 1 /\ f.tries = <<>>
      /\ f \in Frames /\ stack \in Seq(Frames) /\ stack = <<f>>
  <2>1. /\ Len(stack) = 1 /\ stack \in Seq(Frames) /\ f \in Frames
    BY StackFacts DEF Enter, InMain, Depth
  <2>2. stack = <<f>>
    <3> HIDE DEF Frames
    <3> QED BY <2>1
  <2> QED BY <2>1, <2>2 DEF Enter, Jumps, MainsTry
<1>2. CASE ~topTry
  <2>1. Push(stack, "fn", Nothing) /\ UNCHANGED <<buffer, tries>>
    BY <1>2 DEF Enter
  <2>2. stack' \in Seq(Frames) /\ stack' # <<>> /\ frames' \in Nat
    BY <1>1, <2>1, PushType
  <2>3. ThrowTypeOK'
    BY <1>1, <2>1, <2>2 DEF ThrowTypeOK, workVars
  <2>4. \A i \in 1..Len(stack) : SameCall(stack[i], stack[i])
    BY DEF SameCall
  <2>5. Accounts'
    BY <1>1, <2>1, <2>3, <2>4, FunctionAccounts
  <2>6. Bodies' = {}
    <3>1. ASSUME NEW p \in Bodies' PROVE FALSE
      <4>1. p = <<p[1], p[2]>>
        BY DEF Bodies
      <4>2. p[1] \in 1..1 /\ p[2] \in DOMAIN stack[p[1]].tries
        BY <1>1, <2>1, <4>1, PushBodies DEF Push
      <4> QED BY <1>1, <4>2
    <3> QED BY <3>1
  <2> QED BY <1>1, <1>2, <2>1, <2>3, <2>5, <2>6 DEF Jumps, NoUndefinedJump, BufferNamesBody,
          MainsTry, Disciplined
<1>3. CASE topTry
  <2>1. /\ Push(<<g>>, "fn", Nothing)
        /\ buffer' = [frame |-> g.id, tries |-> g.tries] /\ tries' = tries + 1
    BY <1>1, <1>3 DEF Enter, Top, Depth
  <2>2. /\ g \in Frames /\ SameCall(g, f) /\ g.tries \in Seq(Tries) \ {<<>>} /\ g.id \in Nat
        /\ Len(g.tries) = 1 /\ DOMAIN g.tries = 1..1
    <3>1. /\ g \in Frames /\ SameCall(g, f) /\ g.tries \in Seq(Tries) \ {<<>>} /\ Last(g) = Len(f.tries) + 1
      BY <1>1, TriesFacts
    <3> DEFINE t == g.tries
    <3>2. Len(t) = 1
      <4>1. Len(f.tries) = 0
        BY <1>1
      <4>2. Len(t) = Len(f.tries) + 1
        BY <3>1 DEF Last
      <4> HIDE DEF t
      <4> QED BY <4>1, <4>2
    <3>3. DOMAIN t = 1..1
      <4> HIDE DEF t, Tries
      <4>1. t \in Seq(Tries)
        BY <3>1 DEF t
      <4>2. DOMAIN t = 1..Len(t)
        BY <4>1
      <4> QED BY <3>2, <4>2
    <3> QED BY <3>1, <3>2, <3>3 DEF Frames
  <2> HIDE DEF g
  <2> DEFINE s == <<g>>
  <2>3. s \in Seq(Frames) /\ Len(s) = 1 /\ s[1] = g /\ s # <<>>
    <3> HIDE DEF Frames
    <3> QED BY <2>2
  <2>4. Push(s, "fn", Nothing) /\ stack' = Append(s, Frame("fn", Nothing, frames + 1))
    BY <2>1 DEF Push
  <2> HIDE DEF s
  <2>5. stack' \in Seq(Frames) /\ stack' # <<>> /\ frames' \in Nat
    BY <2>3, <2>4, PushType
  <2>6. ThrowTypeOK'
    <3>1. buffer' \in Buffers /\ tries' \in Nat
      BY <2>1, <2>2 DEF Buffers, ThrowTypeOK
    <3> HIDE DEF Frames, Buffers
    <3> QED BY <1>1, <2>5, <3>1 DEF ThrowTypeOK, workVars
  <2>7. Accounts'
    <3>1. \A i \in 1..Len(stack) : SameCall(s[i], stack[i])
      BY <1>1, <2>2, <2>3
    <3> QED BY <1>1, <2>3, <2>4, <2>6, <3>1, FunctionAccounts
  <2>8. \A p \in Bodies' : p = <<1, 1>>
    <3> SUFFICES ASSUME NEW p \in Bodies' PROVE p = <<1, 1>>
      OBVIOUS
    <3>1. p = <<p[1], p[2]>>
      BY DEF Bodies
    <3>2. p[1] \in 1..1 /\ p[2] \in DOMAIN s[p[1]].tries
      BY <2>3, <2>4, <3>1, PushBodies
    <3>3. p[1] = 1 /\ p[2] = 1
      BY <2>2, <2>3, <3>2
    <3> QED BY <3>1, <3>3
  <2>9. stack'[1] = g
    BY <2>3, <2>4, PushBodies
  <2>10. BufferNamesBody'
    BY <2>1, <2>2, <2>8, <2>9 DEF BufferNamesBody, Last
  <2>11. MainsTry'
    <3>1. g.id = 0
      BY <2>2 DEF SameCall, Accounts, Skeleton
    <3>2. buffer' # Nothing
      BY <2>1, <2>2, ExceptionsAssumption DEF Buffers
    <3> QED BY <1>1, <2>1, <3>1, <3>2 DEF MainsTry
  <2> QED BY <1>1, <2>6, <2>7, <2>10, <2>11 DEF Jumps, NoUndefinedJump, Disciplined
<1> QED BY <1>2, <1>3

(* The entry function returned, and main() starts its loop. *)
LEMMA StartLoopStep ==
  ASSUME ThrowTypeOK, Accounts, Jumps, StartLoop
  PROVE  ThrowTypeOK' /\ Accounts' /\ Jumps'
<1> DEFINE g == [stack[1] EXCEPT !.tries = <<>>]
<1>1. /\ UNCHANGED <<rules, topTry, workVars, buffer, undefined, frames, tries, throws>>
      /\ at = "entry" /\ at' = "loop" /\ Len(stack) = 1 /\ stack' = <<g>>
      /\ stack[1] \in Frames /\ frames' >= frames
  BY StackFacts DEF StartLoop, InMain, Depth, Top, ThrowTypeOK
<1>2. g \in Frames /\ SameCall(g, stack[1]) /\ g.tries = <<>>
  <2>1. <<>> \in Seq(Tries)
    BY DEF Tries
  <2> QED BY <1>1, <2>1 DEF Frames, SameCall
<1> HIDE DEF g
<1>3. stack' \in Seq(Frames) /\ stack' # <<>> /\ Len(stack') = 1 /\ stack'[1] = g
  <2> HIDE DEF Frames
  <2> QED BY <1>1, <1>2
<1>4. ThrowTypeOK'
  BY <1>1, <1>3 DEF ThrowTypeOK, workVars
<1>5. Accounts'
  <2>1. \A i \in 1..Len(stack') : SameCall(stack'[i], stack[i])
    BY <1>2, <1>3
  <2> QED BY <1>1, <1>3, <1>4, <2>1, SameShape
<1>6. Bodies' = {}
  BY <1>2, <1>3 DEF Bodies, Depth
<1> QED BY <1>1, <1>4, <1>5, <1>6 DEF Jumps, NoUndefinedJump, BufferNamesBody, MainsTry, Disciplined

(* A function is called. *)
LEMMA CallStep ==
  ASSUME ThrowTypeOK, Accounts, Jumps, Call
  PROVE  ThrowTypeOK' /\ Accounts' /\ Jumps'
<1>1. /\ UNCHANGED <<rules, topTry, workVars, at, buffer, undefined, tries, throws>>
      /\ Push(stack, "fn", Nothing) /\ stack \in Seq(Frames)
  BY StackFacts DEF Call
<1>2. stack' \in Seq(Frames) /\ stack' # <<>> /\ frames' \in Nat
  BY <1>1, PushType
<1>3. ThrowTypeOK'
  BY <1>1, <1>2 DEF ThrowTypeOK, workVars
<1>4. \A i \in 1..Len(stack) : SameCall(stack[i], stack[i])
  BY DEF SameCall
<1>5. Accounts'
  BY <1>1, <1>3, <1>4, FunctionAccounts
<1> QED BY <1>1, <1>3, <1>5, PushJumps

(* Nothing happens but that the loop ends. *)
LEMMA StillStep ==
  ASSUME ThrowTypeOK, Accounts, Jumps, UNCHANGED <<rules, topTry, workVars, stack, buffer,
          undefined, frames, tries, throws>>,
         at' = at \/ (at = "loop" /\ at' = "exit")
  PROVE  ThrowTypeOK' /\ Accounts' /\ Jumps'
<1>1. ThrowTypeOK'
  BY DEF ThrowTypeOK, workVars
<1>2. \A i \in 1..Len(stack') : SameCall(stack'[i], stack[i])
  BY DEF SameCall
<1>3. Accounts'
  BY <1>1, <1>2, SameShape DEF ThrowTypeOK
<1> QED BY <1>1, <1>3, SameStackJumps

-----------------------------------------------------------------------------
(* The theorems *)

(* The invariant holds before the entry function, *)
LEMMA InitThrow == ThrowInit => ThrowIInv
<1> SUFFICES ASSUME ThrowInit PROVE ThrowIInv
  OBVIOUS
<1> DEFINE f == Frame("main", Nothing, 0)
           g == Frame("fn", Nothing, 1)
<1>1. /\ f \in Frames /\ f.kind = "main" /\ f.of = Nothing /\ f.id = 0 /\ f.tries = <<>>
      /\ g \in Frames /\ g.kind = "fn" /\ g.of = Nothing /\ g.id = 1 /\ g.tries = <<>>
  BY FrameFacts
<1> HIDE DEF f, g
<1>2. stack \in Seq(Frames) /\ stack # <<>> /\ Len(stack) = 2 /\ stack[1] = f /\ stack[2] = g
  <2> HIDE DEF Frames
  <2>1. stack = <<f, g>>
    BY DEF ThrowInit, f, g
  <2> QED BY <1>1, <2>1
<1>3. ThrowTypeOK
  <2>1. {frames, tries, throws, inflight} \subseteq Nat
    BY DEF ThrowInit
  <2>2. stack \in Seq(Frames) /\ stack # <<>>
    BY <1>2
  <2> HIDE DEF Frames
  <2> QED BY <2>1, <2>2, Zenon DEF ThrowInit, ThrowTypeOK
<1>4. \A i \in 1..Len(stack) : i = 1 \/ i = 2
  BY <1>2
<1>5. Callbacks = {} /\ Bodies = {}
  BY <1>1, <1>2, <1>4 DEF Callbacks, Bodies, Depth
<1>6. OnStack = {} /\ submitted \cup (OnStack \cap Jobs) = {}
  BY <1>5 DEF OnStack, ThrowInit
<1>7. inflight = Cardinality(submitted \cup (OnStack \cap Jobs))
  BY <1>6, FS_EmptySet DEF ThrowInit
<1>8. Skeleton
  BY <1>1, <1>2, <1>4, <1>5 DEF Skeleton, Depth, ThrowInit
<1>9. NothingSkipped /\ JobsCounted
  BY <1>6, <1>7 DEF NothingSkipped, JobsCounted, ThrowInit
<1>10. BufferNamesBody /\ MainsTry /\ NoUndefinedJump
  BY <1>1, <1>2, <1>5 DEF BufferNamesBody, MainsTry, NoUndefinedJump, ThrowInit
<1> QED BY <1>3, <1>8, <1>9, <1>10 DEF ThrowIInv, ThrowInv

(* every step keeps it, *)
LEMMA ThrowInvStep ==
  ASSUME ThrowIInv, [ThrowNext]_throwVars
  PROVE  ThrowIInv'
<1>1. ThrowTypeOK /\ Accounts /\ Jumps
  BY DEF ThrowIInv, ThrowInv, Accounts, Jumps
<1>2. CASE Code
  <2>1. ASSUME NEW j \in Jobs, SubmitJob(j) PROVE Jumps'
    BY <1>1, <2>1, SameStackJumps DEF SubmitJob, jumpVars
  <2>2. ASSUME NEW t \in Thens, Resolve(t) PROVE Jumps'
    BY <1>1, <2>2, PushJumps DEF Resolve
  <2>3. ThrowTypeOK' /\ Accounts' /\ Jumps'
    BY <1>1, <1>2, <2>1, <2>2, EnterTryStep, ThrowStep, CallStep, SubmitAccounts,
            ResolveAccounts DEF Code
  <2> QED BY <2>3 DEF ThrowIInv, ThrowInv, Accounts, Jumps
<1>3. CASE LeaveTry \/ Return
  BY <1>1, <1>3, LeaveTryStep, ReturnAccounts, ReturnJumps DEF ThrowIInv, ThrowInv, Accounts, Jumps
<1>4. CASE Callback
  <2>1. ASSUME NEW j \in Jobs, Complete(j) PROVE Jumps'
    BY <1>1, <2>1, PushJumps DEF Complete
  <2>2. ASSUME NEW m \in Messages, Receive(m) PROVE Jumps'
    BY <1>1, <2>2, PushJumps DEF Receive
  <2>3. ThrowTypeOK' /\ Accounts' /\ Jumps'
    BY <1>1, <1>4, <2>1, <2>2, CompleteAccounts, ReceiveAccounts DEF Callback
  <2> QED BY <2>3 DEF ThrowIInv, ThrowInv, Accounts, Jumps
<1>5. CASE MainStep
  <2>1. Exit => ThrowTypeOK' /\ Accounts' /\ Jumps'
    BY <1>1, StillStep DEF Exit
  <2>2. ThrowTypeOK' /\ Accounts' /\ Jumps'
    BY <1>1, <1>5, <2>1, EnterStep, StartLoopStep DEF MainStep
  <2> QED BY <2>2 DEF ThrowIInv, ThrowInv, Accounts, Jumps
<1>6. CASE Spin \/ UNCHANGED throwVars
  <2>1. ThrowTypeOK' /\ Accounts' /\ Jumps'
    BY <1>1, <1>6, StillStep DEF Spin, throwVars, jumpVars
  <2> QED BY <2>1 DEF ThrowIInv, ThrowInv, Accounts, Jumps
<1> QED BY <1>2, <1>3, <1>4, <1>5, <1>6 DEF ThrowNext

(* so it holds always. *)
LEMMA ThrowIInvHolds == ThrowSpec => []ThrowIInv
<1>1. ThrowIInv /\ [ThrowNext]_throwVars => ThrowIInv'
  BY ThrowInvStep
<1> QED BY <1>1, InitThrow, PTL DEF ThrowSpec

(* longjmp goes to a buffer whose function has not returned, and in programs that
   contain their throws no throw skips what the runtime does after a callback
   (ts_throw in runtime.h). *)
THEOREM ThrowsSafe == ThrowSpec => []ThrowInv
<1>1. ThrowIInv => ThrowInv
  BY DEF ThrowIInv
<1> QED BY <1>1, ThrowIInvHolds, PTL

(* A throw of a disciplined program goes to its innermost running try block. *)
LEMMA CatchStep ==
  ASSUME ThrowIInv, ThrowNext, throws' # throws, Disciplined
  PROVE  LET p == Innermost
         IN stack' = Append(SubSeq(stack, 1, p[1] - 1),
                            Caught([stack[p[1]] EXCEPT !.tries = SubSeq(@, 1, p[2])]))
<1>1. Throw
  <2>1. \A catches : ~EnterTry(catches)
    BY DEF EnterTry
  <2>2. ~Call /\ ~LeaveTry /\ ~Return /\ ~Spin
    BY DEF Call, LeaveTry, Return, Spin, throwVars, jumpVars
  <2>3. ~Callback
    BY DEF Callback, Complete, Receive
  <2>4. ~MainStep
    BY DEF MainStep, Enter, StartLoop, Exit
  <2>5. \A j : ~SubmitJob(j)
    BY DEF SubmitJob, jumpVars
  <2>6. \A t : ~Resolve(t)
    BY DEF Resolve
  <2> QED BY <2>1, <2>2, <2>3, <2>4, <2>5, <2>6 DEF ThrowNext, Code
<1>2. Bodies # {}
  BY <1>1 DEF Throw, ThrowAllowed, Disciplined
<1> DEFINE p == Innermost
           t == stack[p[1]].tries
<1>3. /\ p[1] \in 1..Depth /\ p[2] = Len(t) /\ Live = {p[1]} /\ buffer.tries = t
  BY <1>2, BufferFacts DEF ThrowIInv, ThrowInv
<1>4. SubSeq(t, 1, p[2]) = t
  <2>1. t \in Seq(Tries)
    BY <1>3, StackFacts DEF ThrowIInv, ThrowInv
  <2>2. SubSeq(t, 1, Len(t)) = t
    <3> HIDE DEF t
    <3> QED BY <2>1
  <2> QED BY <1>3, <2>2
<1>5. stack' = Append(SubSeq(stack, 1, p[1] - 1), Caught([stack[p[1]] EXCEPT !.tries = buffer.tries]))
  <2>1. \A k \in Live : k = p[1]
    BY <1>3
  <2>2. (CHOOSE k \in Live : TRUE) = p[1]
    BY <1>3
  <2> QED BY <1>1, <1>3, <2>2 DEF Throw
<1>6. [stack[p[1]] EXCEPT !.tries = buffer.tries] = [stack[p[1]] EXCEPT !.tries = SubSeq(@, 1, p[2])]
  BY <1>3, <1>4
<1> QED BY <1>5, <1>6

(* A throw continues in the innermost try statement whose block is running
   (_ts_current_error, which every TS_TRY overwrites). *)
THEOREM ThrowsCaughtInnermost == ThrowSpec => CatchesInnermost
<1>1. ThrowIInv /\ [ThrowNext]_throwVars =>
        [throws' # throws /\ Disciplined
           => LET p == Innermost
              IN stack' = Append(SubSeq(stack, 1, p[1] - 1),
                                 Caught([stack[p[1]] EXCEPT !.tries = SubSeq(@, 1, p[2])]))]_throwVars
  BY CatchStep
<1> QED BY <1>1, ThrowIInvHolds, PTL DEF ThrowSpec, CatchesInnermost
=============================================================================
