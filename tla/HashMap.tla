------------------------------- MODULE HashMap -------------------------------
(***************************************************************************)
(* TSHashMap (runtime/src/hashmap.c), the table behind every object of a    *)
(* compiled program: open addressing, linear probing, doubled when it is    *)
(* three quarters full.                                                     *)
(*                                                                          *)
(* The table keeps the string it was given as the key and not a copy.       *)
(* ts_string_append changes a string in place when it has one reference,    *)
(* and the table takes no reference, so `o[k] = v; k += "x"` changes a key  *)
(* inside the table.  keysFixed says whether the program ever does that.    *)
(***************************************************************************)
EXTENDS Integers, FiniteSets

CONSTANTS Strings,    \* string objects
          Contents,   \* what they can hold
          Values,
          Hash(_),    \* hash_string
          None,       \* no string, no value
          HASHMAP_INITIAL_CAPACITY,
          MaxCapacity, \* bound: the table does not grow beyond it
          MaxAppends   \* bound: strings changed in place

ASSUME HashMapAssumption ==
  /\ HASHMAP_INITIAL_CAPACITY \in Nat /\ HASHMAP_INITIAL_CAPACITY >= 2
  /\ \A c \in Contents : Hash(c) \in Nat
  /\ None \notin Strings \cup Values
  /\ MaxCapacity \in Nat /\ MaxCapacity >= HASHMAP_INITIAL_CAPACITY
  /\ MaxAppends \in Nat

VARIABLES
  appends,   \* how often the program may still change a string in place
  keysFixed, \* the program never does that to a key (rigid)
  holds,     \* the content of each string
  entries,   \* slot -> [key, value]; an unoccupied slot has no key
  size,
  old,       \* the table a resize is emptying
  at,        \* the slot of old it has reached
  wants      \* the association whose insertion waits for the resize

vars == <<appends, keysFixed, holds, entries, size, old, at, wants>>

Slots(n) == [0..n - 1 -> [key : Strings \cup {None}, value : Values \cup {None}]]
Capacity(table) == Cardinality(DOMAIN table)
\* calloc
EmptyTable(n) == [i \in 0..n - 1 |-> [key |-> None, value |-> None]]
NoTable == EmptyTable(0)

Occupied(table) == {i \in DOMAIN table : table[i].key # None}

Threshold(n) == (n * 3) \div 4

TypeOK ==
  /\ appends \in 0..MaxAppends
  /\ keysFixed \in BOOLEAN
  /\ holds \in [Strings -> Contents]
  /\ \E n \in HASHMAP_INITIAL_CAPACITY..MaxCapacity : entries \in Slots(n)
  /\ size \in 0..MaxCapacity
  /\ \E n \in 0..MaxCapacity : old \in Slots(n)
  /\ at \in 0..MaxCapacity
  /\ wants \in [key : Strings \cup {None}, value : Values \cup {None}]

Nothing == [key |-> None, value |-> None]

Init ==
  /\ appends = MaxAppends
  /\ keysFixed \in BOOLEAN
  /\ holds \in [Strings -> Contents]
  /\ entries = EmptyTable(HASHMAP_INITIAL_CAPACITY)
  /\ size = 0
  /\ old = NoTable /\ at = 0 /\ wants = Nothing

-----------------------------------------------------------------------------
(* Probing *)

Home(table, c) == Hash(c) % Capacity(table)

\* the d-th slot a probe for c looks at, and whether it stops there
Probe(table, c, d) == (Home(table, c) + d) % Capacity(table)
Stops(table, c, d) ==
  LET key == table[Probe(table, c, d)].key
  IN key = None \/ holds[key] = c

\* the slot where the loop of set, get and has stops
ProbeEnd(table, c) ==
  Probe(table, c, CHOOSE d \in 0..Capacity(table) - 1 :
                    /\ Stops(table, c, d)
                    /\ \A e \in 0..d - 1 : ~Stops(table, c, e))

Has(table, c) == table[ProbeEnd(table, c)].key # None
Get(table, c) == table[ProbeEnd(table, c)].value

\* ts_hashmap_count walks the slots
Count == Cardinality(Occupied(entries))

-----------------------------------------------------------------------------
(* ts_hashmap_set and ts_hashmap_resize *)

\* the part of set after the test of the load
Insert(s, v) ==
  LET i == ProbeEnd(entries, holds[s])
  IN /\ entries' = [entries EXCEPT ![i] = [key |-> s, value |-> v]]
     /\ size' = IF entries[i].key = None THEN size + 1 ELSE size

\* faulty: grows only when no slot is left
FullAtLast == size >= Capacity(entries)
Full == size >= Threshold(Capacity(entries))

Idle == wants = Nothing

SetInPlace(s, v) ==
  /\ Idle /\ ~Full
  /\ Insert(s, v)
  /\ UNCHANGED <<appends, keysFixed, holds, old, at, wants>>

\* set calls resize before it inserts
SetGrow(s, v) ==
  /\ Idle /\ Full
  /\ 2 * Capacity(entries) <= MaxCapacity
  /\ old' = entries /\ at' = 0
  /\ entries' = EmptyTable(2 * Capacity(entries))
  /\ size' = 0
  /\ wants' = [key |-> s, value |-> v]
  /\ UNCHANGED <<appends, keysFixed, holds>>

\* faulty: stops one slot short
MovedAllButLast == at = Capacity(old) - 1
MovedAll == at = Capacity(old)

\* resize inserts what it finds in the next slot, through set
Move ==
  /\ ~Idle /\ ~MovedAll
  /\ IF old[at].key = None
       THEN UNCHANGED <<entries, size>>
       ELSE Insert(old[at].key, old[at].value)
  /\ at' = at + 1
  /\ UNCHANGED <<appends, keysFixed, holds, old, wants>>

\* resize returns and set inserts
SetAfterGrow ==
  /\ ~Idle /\ MovedAll
  /\ Insert(wants.key, wants.value)
  /\ old' = NoTable /\ at' = 0 /\ wants' = Nothing
  /\ UNCHANGED <<appends, keysFixed, holds>>

-----------------------------------------------------------------------------
IsKey(s) == \E i \in DOMAIN entries : entries[i].key = s

\* ts_string_append, or a new string in the variable's place
StringAppend(s, c) ==
  /\ Idle
  /\ keysFixed => ~IsKey(s)
  /\ appends > 0
  /\ appends' = appends - 1
  /\ holds' = [holds EXCEPT ![s] = c]
  /\ UNCHANGED <<keysFixed, entries, size, old, at, wants>>

Next ==
  \/ \E s \in Strings, v \in Values : SetInPlace(s, v) \/ SetGrow(s, v)
  \/ Move
  \/ SetAfterGrow
  \/ \E s \in Strings, c \in Contents : StringAppend(s, c)

Spec == Init /\ [][Next]_vars

-----------------------------------------------------------------------------
(* Properties *)

(* The probing loops of hashmap.c end only at a free slot or at the key: there
   is a free slot in the table at every call, in the table being filled by a
   resize too, whatever the hashes and even if keys change in place. *)
FreeSlotLeft == Occupied(entries) # DOMAIN entries

(* resize inserts through set, which may call resize: the load of the doubled
   table never asks for that, so the pointer to the old table is not lost. *)
ResizeDoesNotNest == ~Idle => ~Full

(* size, which decides when the table grows, is the number of occupied slots
   that ts_hashmap_count finds, through updates, growth and changed keys. *)
SizeIsCount == size = Count

(* What hashmap.c needs of its table so that every probe and every growth ends
   well, also half way through a growth. *)
TableInv == TypeOK /\ FreeSlotLeft /\ SizeIsCount /\ ResizeDoesNotNest

\* Why the table never fills up: a growth doubles it and moves at most one
\* association for each slot it has left behind.
Load ==
  IF Idle
    THEN size <= Threshold(Capacity(entries))
    ELSE /\ Capacity(entries) = 2 * Capacity(old)
         /\ Capacity(old) >= HASHMAP_INITIAL_CAPACITY
         /\ size <= at /\ at <= Capacity(old)
         /\ wants \in [key : Strings, value : Values]

TableIInv == TypeOK /\ SizeIsCount /\ Load

Answer(table, c) == IF Has(table, c) THEN Get(table, c) ELSE None

\* Why: a key is where the probe for its content ends; and the new table has what
\* the slots of the old one that are done had, and nothing else.
Located(table) ==
  \A i \in Occupied(table) : ProbeEnd(table, holds[table[i].key]) = i
MovedSoFar ==
  \A c \in Contents :
    Answer(entries, c) = IF ProbeEnd(old, c) < at THEN Answer(old, c) ELSE None

MapIInv ==
  /\ TableIInv
  /\ keysFixed => Located(entries)
  /\ ~Idle => Occupied(old) # DOMAIN old
  /\ keysFixed /\ ~Idle => Located(old) /\ MovedSoFar

(* Over any sequence of sets, growths included, the table answers like a finite
   map of contents: no association is lost, doubled or brought back by the move
   to a larger table. *)
Answers ==
  LET table == IF Idle THEN entries ELSE old
  IN [c \in Contents |-> IF keysFixed THEN Answer(table, c) ELSE None]

Map == INSTANCE FiniteMap WITH assoc <- Answers, Absent <- None

ImplementsMap == Map!Spec
=============================================================================
