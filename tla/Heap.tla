-------------------------------- MODULE Heap --------------------------------
(* The heap a compiled program lives on: the strings and arrays that            *)
(* runtime/src/string_ops.c and array_ops.c allocate, the header list and the   *)
(* mark-sweep collector of gc.c, and the statements the emitters turn string    *)
(* expressions into (src/codegen/expression-emitter.ts and                      *)
(* statement-emitter.ts).  Every statement is one step, with the allocation it  *)
(* makes and the collection that allocation may start.                          *)
(*                                                                              *)
(* No code ever increments a refcount, so a block on the list has refcount 1    *)
(* until the one free that takes it off: "refcount == 1" is "on the list".      *)
(* A block's address may be handed out again as soon as it is off the list.     *)
EXTENDS Naturals, Sequences, FiniteSets

CONSTANTS
  Strings,        \* the blocks malloc has for TSString objects
  Arrays,         \* the blocks malloc has for TSArray objects
  Vars,           \* string variables of the program: stack or static slots
  Local,          \* a string variable declared in a loop body
  Null,           \* the null pointer
  Unset,          \* what a variable is worth before its first assignment
  Letters,        \* the characters strings are made of
  MaxLen,         \* bound: length of a string
  MaxItems,       \* bound: elements pushed on the array
  MinThreshold    \* the collector's 1 MiB floor, in blocks

ASSUME HeapAssumption ==
  /\ Null \notin Strings \cup Arrays /\ Strings \cap Arrays = {}
  /\ Local \notin Vars
  /\ MaxLen \in Nat /\ MaxItems \in Nat /\ MinThreshold \in Nat \ {0}

VARIABLES
  plain,      \* rigid: the program never hands a string to a second holder
  heap,       \* g_heap: the blocks on the header list
  text,       \* data of each TSString
  items,      \* items of each TSArray
  frame,      \* the string variables: stack or static memory, which mark scans
  array,      \* the program's array variable, scanned too
  bytesLive,  \* g_bytes_live, one unit a block
  since,      \* g_bytes_since_collect
  threshold,  \* g_threshold
  want,       \* what the source program says each variable is worth
  wantItems   \* what it says the array holds

program == <<want, wantItems>>
counts  == <<bytesLive, since, threshold>>
vars    == <<plain, heap, text, items, frame, array, counts, program>>

Slots  == Vars \cup {Local}
Blocks == Strings \cup Arrays
Texts  == UNION {[1 .. n -> Letters] : n \in 0 .. MaxLen}

ValuesOf(s) == {s[i] : i \in DOMAIN s}

-----------------------------------------------------------------------------
(* The collector *)

\* faulty: mark_object without the case for arrays
MarksNoItems(h, roots) == roots \cap h

\* mark_object: a block, and for an array what its length items point at
Reach(h, roots) ==
  LET top == roots \cap h
  IN  top \cup (h \cap UNION {ValuesOf(items[a]) : a \in top \cap Arrays})

\* the static data and the stack from here to main's frame
Roots == ValuesOf(frame) \cup {array}

\* ts_gc_collect on list h: everything found from the roots stays, and whatever
\* a stale word on the conservatively scanned stack still points at
Kept(h, stale) == Reach(h, Roots \cup stale)

Stale(h) == SUBSET (h \ Kept(h, {}))

Floor(n) == IF n < MinThreshold THEN MinThreshold ELSE n

\* free_header's arithmetic for n blocks
Less(bytes, n) == IF bytes >= n THEN bytes - n ELSE 0

\* the payloads once only the blocks of h are left: a freed payload is gone
Wiped(h) ==
  /\ text' = [s \in Strings |-> IF s \in h THEN text[s] ELSE <<>>]
  /\ items' = [a \in Arrays |-> IF a \in h THEN items[a] ELSE <<>>]

Full(h, kind) == kind \subseteq h

Collecting(h, kind) == since >= threshold \/ Full(h, kind)

\* ts_gc_alloc_kind after the statement freed all but h: it collects first when
\* the threshold is reached, or once when malloc has no block left.  its is what
\* the arrays hold once the statement is done
AllocInto(its, h, kind, b, t) ==
  \E stale \in IF Collecting(h, kind) THEN Stale(h) ELSE {{}} :
    LET now  == IF Collecting(h, kind) THEN Kept(h, stale) ELSE h
        left == Less(bytesLive, Cardinality(heap \ now))
    IN  /\ b \in kind \ now
        /\ heap' = now \cup {b}
        /\ text' = [s \in Strings |-> IF s = b THEN t
                                      ELSE IF s \in now THEN text[s] ELSE <<>>]
        /\ items' = [a \in Arrays |-> IF a \in now THEN its[a] ELSE <<>>]
        /\ bytesLive' = left + 1
        /\ since' = (IF Collecting(h, kind) THEN 0 ELSE since) + 1
        /\ threshold' = IF Collecting(h, kind) THEN Floor(2 * left) ELSE threshold

Alloc(h, kind, b, t) == AllocInto(items, h, kind, b, t)

\* ts_gc_collect where no allocation follows
Collect(h) ==
  \E stale \in Stale(h) :
    LET now == Kept(h, stale)
    IN  /\ heap' = now
        /\ Wiped(now)
        /\ bytesLive' = Less(bytesLive, Cardinality(heap \ now))
        /\ since' = 0
        /\ threshold' = Floor(2 * bytesLive')

\* ts_string_free of the blocks of gone and nothing else
Release(gone) ==
  /\ heap' = heap \ gone
  /\ Wiped(heap \ gone)
  /\ bytesLive' = Less(bytesLive, Cardinality(heap \cap gone))
  /\ UNCHANGED <<since, threshold>>

-----------------------------------------------------------------------------
(* The statements.  A statement reads a variable only while its block is on    *)
(* the list: what a read of freed memory gives is not modelled, the properties *)
(* see the dangling variable first.                                            *)

Alive(v) == frame[v] \in heap

\* want and wantItems are kept for plain programs, whose values are checked
Assign(v, b, t) ==
  /\ frame' = [frame EXCEPT ![v] = b]
  /\ want' = [want EXCEPT ![v] = IF plain THEN t ELSE Unset]
  /\ UNCHANGED <<plain, array, wantItems>>

\* v = "..."
Literal(v) ==
  \E t \in Texts, b \in Strings :
    Alloc(heap, Strings, b, t) /\ Assign(v, b, t)

\* v = w: the pointer is copied and no count is taken
Copy(v, w) ==
  /\ ~plain /\ v # w /\ Alive(w)
  /\ Assign(v, frame[w], Unset)
  /\ UNCHANGED <<heap, text, items, counts>>

\* what realloc leaves in a block that is appended to: its own text and the other
\* one, or anything in place of that when the two are one block that moved
Grown(a, b) ==
  IF a # b THEN {text[a] \o text[b]}
  ELSE {text[a] \o t : t \in {u \in Texts : Len(u) = Len(text[b])}}

\* ts_string_append and ts_string_append_char on a's block, its result stored in
\* v.  A non-empty a with refcount 1 is the "sole owner" and grows in place
GrowInPlace(v, a, grown, wanted) ==
  /\ text[a] # <<>>
  /\ \E t \in grown :
       /\ Len(t) <= MaxLen
       /\ text' = [text EXCEPT ![a] = t]
  /\ Assign(v, a, wanted)
  /\ UNCHANGED <<heap, items, counts>>

\* an empty a, or one realloc fails on, is freed and replaced by a new block
Replace(v, a, t, wanted) ==
  /\ Len(t) <= MaxLen
  /\ \E b \in Strings : Alloc(heap \ {a}, Strings, b, t) /\ Assign(v, b, wanted)

\* faulty: the copy that replaces a has only the appended text
AppendLosesLeft(v, w) ==
  /\ Alive(v) /\ Alive(w) /\ (plain => v # w)
  /\ text[frame[w]] # <<>>
  /\ Replace(v, frame[v], text[frame[w]], want[v] \o want[w])

\* faulty: w + x emitted as the append that is only right for w = w + x
ConcatAppends(v, w, x) ==
  /\ v # w /\ Alive(w) /\ Alive(x)
  /\ GrowInPlace(v, frame[w], Grown(frame[w], frame[x]), want[w] \o want[x])

\* v = w + x, emitted as ts_string_concat: both texts copied to a fresh block
Concat(v, w, x) ==
  /\ v # w /\ Alive(w) /\ Alive(x)
  /\ LET t == text[frame[w]] \o text[frame[x]] IN
     /\ Len(t) <= MaxLen
     /\ \E b \in Strings : Alloc(heap, Strings, b, t) /\ Assign(v, b, want[w] \o want[x])

\* v += w, or v = v + w: nothing to do for an empty w
AppendString(v, w) ==
  /\ Alive(v) /\ Alive(w) /\ (plain => v # w)
  /\ LET a == frame[v]
         b == frame[w]
         wanted == want[v] \o want[w]
     IN \/ /\ text[b] = <<>>
           /\ Assign(v, a, wanted)
           /\ UNCHANGED <<heap, text, items, counts>>
        \/ /\ text[b] # <<>>
           /\ \/ GrowInPlace(v, a, Grown(a, b), wanted)
              \/ Replace(v, a, text[a] \o text[b], wanted)

\* v = w + s.charAt(i): the emitter's ts_string_append_char, which takes w's
\* block whatever variable the result goes to
AppendChar(v, w) ==
  /\ Alive(w) /\ (plain => v = w)
  /\ \E c \in Letters :
       LET t == Append(text[frame[w]], c)
       IN  \/ GrowInPlace(v, frame[w], {t}, want[w] \o <<c>>)
           \/ Replace(v, frame[w], t, want[w] \o <<c>>)

HasArray == array \in heap

\* xs = []: the old array, if any, is left to the collector
NewArray ==
  /\ \E b \in Arrays : Alloc(heap, Arrays, b, <<>>) /\ array' = b
  /\ wantItems' = <<>>
  /\ UNCHANGED <<plain, frame, want>>

\* xs.push("...")
PushLiteral ==
  /\ HasArray /\ Len(items[array]) < MaxItems
  /\ \E t \in Texts, b \in Strings :
       /\ AllocInto([items EXCEPT ![array] = Append(@, b)], heap, Strings, b, t)
       /\ wantItems' = IF plain THEN Append(wantItems, t) ELSE wantItems
  /\ UNCHANGED <<plain, frame, array, want>>

\* xs.push(v): ts_array_push stores v's pointer
PushVariable(v) ==
  /\ ~plain /\ HasArray /\ Alive(v) /\ Len(items[array]) < MaxItems
  /\ items' = [items EXCEPT ![array] = Append(@, frame[v])]
  /\ UNCHANGED <<plain, heap, text, frame, array, counts, program>>

\* v = xs[i]: ts_to_string of a string is the string itself
ReadItem(v) ==
  /\ ~plain /\ HasArray
  /\ \E i \in DOMAIN items[array] :
       /\ items[array][i] \in heap
       /\ Assign(v, items[array][i], Unset)
  /\ UNCHANGED <<heap, text, items, counts>>

\* `${xs}`: ts_to_string of an array frees the string it got for each element,
\* which for a string element is the element; the result is a temporary
ArrayToString ==
  /\ ~plain /\ HasArray
  /\ ValuesOf(items[array]) \subseteq heap
  /\ \E b \in Strings, t \in Texts : Alloc(heap \ ValuesOf(items[array]), Strings, b, t)
  /\ UNCHANGED <<plain, frame, array, program>>

\* the end of a loop body: ts_string_free(local); local = NULL, and then
\* ts_gc_maybe_collect
EndIteration ==
  /\ frame[Local] \in heap \cup {Null}
  /\ frame' = [frame EXCEPT ![Local] = Null]
  /\ want' = [want EXCEPT ![Local] = Unset]
  /\ IF since >= threshold THEN Collect(heap \ {frame[Local]})
     ELSE Release({frame[Local]})
  /\ UNCHANGED <<plain, array, wantItems>>

\* ts_gc_maybe_collect_idle, while the event loop waits: a quarter of the
\* threshold, and a sixteenth of the floor, allocated since the last collection
Idle ==
  /\ since > 0 /\ 4 * since >= threshold
  /\ Collect(heap)
  /\ UNCHANGED <<plain, frame, array, program>>

-----------------------------------------------------------------------------
Init ==
  /\ plain \in BOOLEAN
  /\ heap = {}
  /\ text = [s \in Strings |-> <<>>]
  /\ items = [a \in Arrays |-> <<>>]
  /\ frame = [v \in Slots |-> Null]
  /\ array = Null
  /\ bytesLive = 0 /\ since = 0 /\ threshold = 4 * MinThreshold
  /\ want = [v \in Slots |-> Unset]
  /\ wantItems = <<>>

Next ==
  \/ \E v \in Slots : Literal(v) \/ PushVariable(v) \/ ReadItem(v)
  \/ \E v, w \in Slots :
       Copy(v, w) \/ AppendString(v, w) \/ AppendChar(v, w)
  \/ \E v, w, x \in Slots : Concat(v, w, x)
  \/ NewArray \/ PushLiteral \/ ArrayToString \/ EndIteration \/ Idle

Spec == Init /\ [][Next]_vars

-----------------------------------------------------------------------------
TypeOK ==
  /\ plain \in BOOLEAN
  /\ heap \subseteq Blocks
  /\ text \in [Strings -> Texts]
  /\ items \in [Arrays -> Seq(Strings)]
  /\ frame \in [Slots -> Strings \cup {Null}]
  /\ array \in Arrays \cup {Null}
  /\ bytesLive \in Nat /\ since \in Nat /\ threshold \in Nat
  /\ want \in [Slots -> Texts \cup {Unset}]
  /\ wantItems \in Seq(Texts)

(* Nothing the program can still reach has been freed: in a program that never   *)
(* hands a string to a second holder, every block a variable or the array points *)
(* at is on the list, whatever the collections, the frees at the end of a loop   *)
(* body (statement-emitter.ts:521-527) and the appends that replace a block      *)
(* (string_ops.c:37-65) did.                                                     *)
HandlesLive ==
  plain => /\ ValuesOf(frame) \cup {array} \subseteq heap \cup {Null}
           /\ HasArray => ValuesOf(items[array]) \subseteq heap

(* In such a program "refcount == 1" does mean sole owner (string_ops.c:46): no  *)
(* block has two holders among the variables and the array's items, also after   *)
(* blocks were freed and handed out again.                                       *)
OneHolder ==
  plain =>
    /\ \A v, w \in Slots : v # w /\ frame[v] = frame[w] => frame[v] = Null
    /\ HasArray =>
         /\ \A i, j \in DOMAIN items[array] :
              i # j => items[array][i] # items[array][j]
         /\ ValuesOf(items[array]) \cap ValuesOf(frame) = {}

(* And then strings are the values TypeScript says they are: a variable and an   *)
(* element always read as what was assigned, although += writes into the block   *)
(* (string_ops.c:46-54) and freed blocks are used again.                         *)
ValuesAsWritten ==
  plain =>
    /\ \A v \in Slots : frame[v] # Null => text[frame[v]] = want[v]
    /\ HasArray =>
         /\ DOMAIN items[array] = DOMAIN wantItems
         /\ \A i \in DOMAIN wantItems : text[items[array][i]] = wantItems[i]

(* g_bytes_live is exactly what is on the list (gc.c:247-250, 351): the clamp of *)
(* free_header never hides a double free, for any program.                       *)
AccountsExact == bytesLive = Cardinality(heap)

(* The collector's policy bounds the heap (gc.c:327, 458-464): since the last *)
(* collection no more was allocated than the threshold, and the list never holds *)
(* more than that and half the threshold, what that collection left.             *)
HeapBounded ==
  /\ since <= threshold
  /\ 2 * bytesLive <= 2 * since + threshold

(* The blocks of gc.c are counted, bounded, and have the one holder that
   string_ops.c takes for granted. *)
HeapInv == TypeOK /\ OneHolder /\ AccountsExact /\ HeapBounded

\* Each part needs the others: what a collection keeps is what the variables and
\* the array hold, a string grows in place for its one holder only, and a block
\* handed out is none that is held.
HeapIInv == HeapInv /\ HandlesLive /\ ValuesAsWritten /\ IsFiniteSet(heap)

=============================================================================
