-------------------------- MODULE ModuleGraph_proofs --------------------------
(* Proofs about ModuleGraph, for any modules and programs. *)
EXTENDS ModuleGraph, FiniteSetTheorems, SequenceTheorems, WellFoundedInduction, TLAPS

-----------------------------------------------------------------------------
(* Sequences *)

(* The elements of a sequence. *)
LEMMA Elements ==
  ASSUME NEW S, NEW s \in Seq(S)
  PROVE  /\ ToSet(s) = {s[i] : i \in 1..Len(s)}
         /\ ToSet(s) \subseteq S
         /\ ToSet(s) = First(s, Len(s))
         /\ \A k \in Nat : k <= Len(s) => First(s, k) \subseteq ToSet(s)
         /\ s = <<>> => ToSet(s) = {}
         /\ IsInjective(s) <=> \A i, j \in 1..Len(s) : s[i] = s[j] => i = j
<1>1. DOMAIN s = 1..Len(s) /\ Len(s) \in Nat /\ \A i \in 1..Len(s) : s[i] \in S
  OBVIOUS
<1> QED BY <1>1 DEF ToSet, First, IsInjective

(* An element at the end. *)
LEMMA AtEnd ==
  ASSUME NEW S, NEW s \in Seq(S), NEW e \in S
  PROVE  /\ Append(s, e) \in Seq(S)
         /\ Len(Append(s, e)) = Len(s) + 1
         /\ \A i \in 1..Len(s) : Append(s, e)[i] = s[i]
         /\ Append(s, e)[Len(s) + 1] = e
         /\ ToSet(Append(s, e)) = ToSet(s) \cup {e}
         /\ Last(Append(s, e)) = e
         /\ IsInjective(s) /\ e \notin ToSet(s) => IsInjective(Append(s, e))
         /\ \A k \in Nat : k <= Len(s) => First(Append(s, e), k) = First(s, k)
         /\ First(Append(s, e), Len(s)) = ToSet(s)
<1> DEFINE a == Append(s, e)
<1>1. /\ a \in Seq(S) /\ Len(a) = Len(s) + 1 /\ Len(s) \in Nat
      /\ \A i \in 1..Len(s) : a[i] = s[i]
      /\ a[Len(s) + 1] = e
  BY AppendProperties
<1> HIDE DEF a
<1>2. \A i \in 1..Len(a) : i \in 1..Len(s) \/ i = Len(s) + 1
  BY <1>1
<1>3. ToSet(a) = ToSet(s) \cup {e}
  <2>1. ToSet(a) = {a[i] : i \in 1..Len(a)} /\ ToSet(s) = {s[i] : i \in 1..Len(s)}
    BY <1>1, Elements
  <2> QED BY <2>1, <1>1, <1>2
<1>4. ASSUME IsInjective(s), e \notin ToSet(s) PROVE IsInjective(a)
  <2>1. \A i, j \in 1..Len(s) : s[i] = s[j] => i = j
    BY <1>4, Elements
  <2>2. \A i \in 1..Len(s) : s[i] # e
    BY <1>4, Elements
  <2>3. \A i, j \in 1..Len(a) : a[i] = a[j] => i = j
    BY <2>1, <2>2, <1>1, <1>2
  <2> QED BY <2>3, <1>1, Elements
<1>5. ASSUME NEW k \in Nat, k <= Len(s) PROVE First(a, k) = First(s, k)
  BY <1>1, <1>5 DEF First
<1>6. First(a, Len(s)) = ToSet(s)
  BY <1>1, <1>5, Elements
<1>7. Last(a) = e
  BY <1>1 DEF Last
<1> QED BY <1>1, <1>3, <1>4, <1>5, <1>6, <1>7 DEF a

(* The first element and the rest. *)
LEMMA HeadAndTail ==
  ASSUME NEW S, NEW s \in Seq(S), s # <<>>
  PROVE  /\ Head(s) \in S /\ Tail(s) \in Seq(S) /\ Len(s) \in Nat \ {0}
         /\ Head(s) = s[1] /\ Len(Tail(s)) = Len(s) - 1
         /\ \A i \in 1..Len(s) - 1 : Tail(s)[i] = s[i + 1]
         /\ ToSet(s) = {Head(s)} \cup ToSet(Tail(s))
<1>1. /\ Tail(s) \in Seq(S) /\ Len(Tail(s)) = Len(s) - 1 /\ Head(s) \in S
      /\ Len(s) \in Nat \ {0} /\ Head(s) = s[1]
      /\ \A i \in 1..Len(s) - 1 : Tail(s)[i] = s[i + 1]
  BY HeadTailProperties
<1>2. ToSet(s) = {s[i] : i \in 1..Len(s)} /\ ToSet(Tail(s)) = {Tail(s)[i] : i \in 1..Len(Tail(s))}
  BY <1>1, Elements
<1>3. \A i \in 1..Len(s) : i = 1 \/ (i - 1 \in 1..Len(s) - 1 /\ Tail(s)[i - 1] = s[i])
  BY <1>1
<1> HIDE DEF ToSet
<1>4. ToSet(s) \subseteq {Head(s)} \cup ToSet(Tail(s))
  BY <1>1, <1>2, <1>3
<1>5. {Head(s)} \cup ToSet(Tail(s)) \subseteq ToSet(s)
  BY <1>1, <1>2
<1> QED BY <1>1, <1>4, <1>5

(* What is before the last element. *)
LEMMA Shorter ==
  ASSUME NEW S, NEW s \in Seq(S), s # <<>>
  PROVE  /\ Front(s) \in Seq(S) /\ Len(s) \in Nat \ {0}
         /\ Len(Front(s)) = Len(s) - 1
         /\ \A i \in 1..Len(s) - 1 : Front(s)[i] = s[i]
<1>1. Len(s) \in Nat \ {0} /\ \A i \in 1..Len(s) : s[i] \in S
  BY EmptySeq, ElementOfSeq
<1>2. 1 \in Int /\ Len(s) - 1 \in Int /\ \A i \in 1..Len(s) - 1 : s[i] \in S
  BY <1>1
<1>3. /\ SubSeq(s, 1, Len(s) - 1) \in Seq(S)
      /\ Len(SubSeq(s, 1, Len(s) - 1)) = IF 1 <= Len(s) - 1 THEN Len(s) - 1 - 1 + 1 ELSE 0
      /\ \A i \in 1..Len(s) - 1 - 1 + 1 : SubSeq(s, 1, Len(s) - 1)[i] = s[1 + i - 1]
  BY ONLY <1>2, SubSeqProperties
<1>4. Front(s) = SubSeq(s, 1, Len(s) - 1)
  BY DEF Front
<1>5. Front(s) \in Seq(S) /\ Len(Front(s)) = Len(s) - 1
  <2>1. Len(s) - 1 = IF 1 <= Len(s) - 1 THEN Len(s) - 1 - 1 + 1 ELSE 0
    <3>1. \A n \in Nat \ {0} : n - 1 = IF 1 <= n - 1 THEN n - 1 - 1 + 1 ELSE 0
      OBVIOUS
    <3> QED BY <1>1, <3>1, Zenon
  <2> QED BY ONLY <2>1, <1>3, <1>4, Zenon
<1>6. ASSUME NEW i \in 1..Len(s) - 1 PROVE Front(s)[i] = s[i]
  <2>1. i \in 1..Len(s) - 1 - 1 + 1 /\ 1 + i - 1 = i
    BY <1>1
  <2>2. SubSeq(s, 1, Len(s) - 1)[i] = s[1 + i - 1]
    BY ONLY <1>3, <2>1, Zenon
  <2> QED BY <2>1, <2>2, <1>4
<1> QED BY <1>1, <1>5, <1>6

(* The head of a rest goes to the end of what is before it. *)
LEMMA HeadMoves ==
  ASSUME NEW S, NEW s \in Seq(S), NEW t \in Seq(S), t # <<>>
  PROVE  Append(s, Head(t)) \o Tail(t) = s \o t
<1> DEFINE a == Append(s, Head(t)) b == Tail(t)
<1>1. /\ a \in Seq(S) /\ b \in Seq(S) /\ Len(a) = Len(s) + 1 /\ Len(b) = Len(t) - 1
      /\ Len(s) \in Nat /\ Len(t) \in Nat \ {0}
      /\ \A i \in 1..Len(s) : a[i] = s[i]
      /\ a[Len(s) + 1] = t[1]
      /\ \A i \in 1..Len(t) - 1 : b[i] = t[i + 1]
  BY AtEnd, HeadAndTail
<1> HIDE DEF a, b
<1>2. /\ a \o b \in Seq(S) /\ Len(a \o b) = Len(s) + Len(t)
      /\ \A i \in 1..Len(s) + Len(t) : (a \o b)[i] = IF i <= Len(s) + 1 THEN a[i] ELSE b[i - (Len(s) + 1)]
  <2>1. /\ a \o b \in Seq(S) /\ Len(a \o b) = Len(a) + Len(b)
        /\ \A i \in 1..Len(a) + Len(b) : (a \o b)[i] = IF i <= Len(a) THEN a[i] ELSE b[i - Len(a)]
    BY <1>1, ConcatProperties
  <2>2. Len(a) + Len(b) = Len(s) + Len(t)
    BY <1>1
  <2> QED BY <2>1, <2>2, <1>1
<1>3. /\ s \o t \in Seq(S) /\ Len(s \o t) = Len(s) + Len(t)
      /\ \A i \in 1..Len(s) + Len(t) : (s \o t)[i] = IF i <= Len(s) THEN s[i] ELSE t[i - Len(s)]
  BY ConcatProperties
<1>4. ASSUME NEW i \in 1..Len(s) + Len(t) PROVE (a \o b)[i] = (s \o t)[i]
  <2>1. CASE i <= Len(s)
    BY <2>1, <1>1, <1>2, <1>3
  <2>2. CASE i = Len(s) + 1
    BY <2>2, <1>1, <1>2, <1>3
  <2>3. CASE i > Len(s) + 1
    <3>1. i - (Len(s) + 1) \in 1..Len(t) - 1 /\ i - (Len(s) + 1) + 1 = i - Len(s)
      BY <2>3, <1>1
    <3>2. b[i - (Len(s) + 1)] = t[i - Len(s)]
      BY <3>1, <1>1
    <3> QED BY <3>2, <2>3, <1>1, <1>2, <1>3
  <2> QED BY <2>1, <2>2, <2>3, <1>1
<1>5. a \o b = s \o t
  BY <1>2, <1>3, <1>4, SeqEqual
<1> QED BY <1>5 DEF a, b

-----------------------------------------------------------------------------
(* Traversals *)

(* What modules name, and what they import, are modules. *)
LEMMA Lists ==
  ASSUME TypeOK, NEW m \in Modules
  PROVE  /\ names[m] \in Seq(Modules) /\ imports[m] \in Seq(Modules)
         /\ Leads(m) \in Seq(Modules)
         /\ ToSet(names[m]) \subseteq Modules /\ ToSet(Leads(m)) \subseteq Modules
<1>1. names[m] \in Seq(Modules) /\ imports[m] \in Seq(Modules)
  BY DEF TypeOK
<1>2. ToSet(names[m]) \subseteq Modules /\ ToSet(imports[m]) \subseteq Modules
  BY <1>1, Elements
<1> QED BY <1>1, <1>2 DEF Leads

(* The calls in progress. *)
LEMMA Stack ==
  ASSUME TypeOK
  PROVE  /\ calls \in Seq(Calls) /\ Len(calls) \in Nat
         /\ \A i \in 1..Len(calls) :
              /\ calls[i] \in Calls /\ calls[i].node \in Modules
              /\ calls[i].ahead \in Seq(Modules) /\ calls[i].node \in OnStack
         /\ OnStack \subseteq Modules
         /\ \A m \in OnStack : \E i \in 1..Len(calls) : calls[i].node = m
         /\ calls # <<>> => /\ Len(calls) \in 1..Len(calls)
                            /\ Top = calls[Len(calls)] /\ Top.node \in OnStack
         /\ calls = <<>> => OnStack = {}
<1>1. calls \in Seq(Calls) /\ Len(calls) \in Nat /\ \A i \in 1..Len(calls) : calls[i] \in Calls
  BY DEF TypeOK
<1>2. \A i \in 1..Len(calls) : calls[i].node \in Modules /\ calls[i].ahead \in Seq(Modules)
  BY <1>1 DEF Calls
<1>3. calls # <<>> => Len(calls) \in 1..Len(calls)
  BY <1>1
<1> QED BY <1>1, <1>2, <1>3 DEF OnStack, Top

\* the calls when the loop of the last is about to call dfs(m)
Opened(base, m) ==
  /\ base \in Seq(Calls) /\ Len(base) = Len(calls)
  /\ \A i \in 1..Len(calls) :
       /\ base[i].node = calls[i].node
       /\ ToSet(base[i].ahead) \subseteq ToSet(calls[i].ahead)
       /\ ToSet(calls[i].ahead) \subseteq ToSet(base[i].ahead) \cup {m}
       /\ i < Len(calls) => base[i] = calls[i]
  /\ calls # <<>> => m \in ToSet(Leads(Top.node))
  /\ m \in Modules

(* From the loop over the keys, *)
LEMMA OpensFromKeys ==
  ASSUME TypeOK, FromKeys
  PROVE  /\ Opened(calls, Head(todo)) /\ calls = <<>>
         /\ todo' \in Seq(Modules)
         /\ ToSet(todo) = {Head(todo)} \cup ToSet(todo')
<1>1. todo \in Seq(Modules) /\ todo # <<>> /\ calls = <<>> /\ todo' = Tail(todo)
  BY DEF TypeOK, FromKeys
<1>2. /\ Head(todo) \in Modules /\ todo' \in Seq(Modules)
      /\ ToSet(todo) = {Head(todo)} \cup ToSet(todo')
  BY <1>1, HeadAndTail
<1> QED BY <1>1, <1>2, Stack DEF Opened

(* or from a loop over imports. *)
LEMMA OpensFromImports ==
  ASSUME TypeOK, Path, FromImports
  PROVE  /\ Opened(Advanced, Head(Top.ahead)) /\ calls # <<>>
         /\ Head(Top.ahead) \in ToSet(Leads(Top.node))
         /\ todo' = todo
<1> DEFINE n == Len(calls) m == Head(Top.ahead)
<1>1. calls # <<>> /\ Top.ahead # <<>> /\ todo' = todo
  BY DEF FromImports, Advancing
<1>2. /\ n \in 1..n /\ n \in Nat /\ Top = calls[n] /\ calls \in Seq(Calls)
      /\ \A i \in 1..n : calls[i] \in Calls
      /\ Top.ahead \in Seq(Modules) /\ Top.node \in Modules
  BY <1>1, Stack
<1>3. /\ m \in Modules /\ Tail(Top.ahead) \in Seq(Modules)
      /\ ToSet(Top.ahead) = {m} \cup ToSet(Tail(Top.ahead))
  BY <1>1, <1>2, HeadAndTail
<1>4. m \in ToSet(Leads(Top.node))
  BY <1>2, <1>3 DEF Path
<1> DEFINE e == [Top EXCEPT !.ahead = Tail(Top.ahead)]
<1>5. e \in Calls /\ e.node = Top.node /\ e.ahead = Tail(Top.ahead)
  BY <1>2, <1>3 DEF Calls
<1>6. Advanced = [calls EXCEPT ![n] = e]
  BY <1>2 DEF Advanced
<1> HIDE DEF e
<1>7. /\ Advanced \in Seq(Calls) /\ Len(Advanced) = n
      /\ \A i \in 1..n : Advanced[i] = IF i = n THEN e ELSE calls[i]
  BY <1>2, <1>5, <1>6, ExceptSeq
<1>8. ASSUME NEW i \in 1..n
      PROVE  /\ Advanced[i].node = calls[i].node
             /\ ToSet(Advanced[i].ahead) \subseteq ToSet(calls[i].ahead)
             /\ ToSet(calls[i].ahead) \subseteq ToSet(Advanced[i].ahead) \cup {m}
             /\ i < n => Advanced[i] = calls[i]
  <2>1. CASE i = n
    BY <2>1, <1>2, <1>3, <1>5, <1>7
  <2>2. CASE i # n
    BY <2>2, <1>2, <1>7
  <2> QED BY <2>1, <2>2
<1> QED BY <1>1, <1>3, <1>4, <1>7, <1>8 DEF Opened

(* If the last call leads to a module on the path, the part of the path from that
   module on is a set of which every module leads to another. *)
LEMMA PathCloses ==
  ASSUME TypeOK, Path, calls # <<>>, NEW k \in 1..Len(calls),
         calls[k].node \in ToSet(Leads(Top.node))
  PROVE  \E t \in (SUBSET OnStack) \ {{}} :
           /\ t = {calls[i].node : i \in k..Len(calls)}
           /\ \A m \in t : ToSet(Leads(m)) \cap t # {}
<1> DEFINE n == Len(calls) t == {calls[i].node : i \in k..n}
<1>1. /\ n \in 1..n /\ n \in Nat /\ Top = calls[n] /\ k \in 1..n
      /\ \A i \in 1..n : calls[i].node \in OnStack
  BY Stack
<1>2. t \in SUBSET OnStack /\ calls[k].node \in t
  BY <1>1
<1>3. ASSUME NEW m \in t PROVE ToSet(Leads(m)) \cap t # {}
  <2>1. PICK i \in k..n : m = calls[i].node
    BY <1>3
  <2>2. CASE i = n
    BY <2>1, <2>2, <1>1, <1>2
  <2>3. CASE i < n
    <3>1. i \in 1..n /\ i + 1 \in k..n
      BY <2>3, <1>1
    <3>2. calls[i + 1].node \in ToSet(Leads(m)) /\ calls[i + 1].node \in t
      BY <3>1, <2>1, <2>3 DEF Path
    <3> QED BY <3>2
  <2> QED BY <2>2, <2>3, <1>1
<1>4. t \in (SUBSET OnStack) \ {{}}
  <2> HIDE DEF t
  <2> QED BY <1>2
<1> QED BY <1>3, <1>4

\* what stays during a traversal
Going ==
  /\ UNCHANGED <<names, imports, roots, phase>>
  /\ \A x, y \in Modules : Excused(x, y) => Excused(x, y)'

(* A dfs that returns at once. *)
LEMMA Skips ==
  ASSUME TypeOK, Path, Behind, Going, NEW base, NEW m, Opened(base, m),
         calls' = base, visited' = visited,
         NEW p, calls # <<>> => p = Top.node /\ (m \in Left \/ Excused(p, m)')
  PROVE  Path' /\ Behind' /\ Left' = Left /\ OnStack' = OnStack
<1> DEFINE n == Len(calls)
<1>1. /\ Len(calls') = n /\ n \in Nat
      /\ \A i \in 1..n : /\ calls'[i].node = calls[i].node /\ calls[i].node \in Modules
                         /\ ToSet(calls'[i].ahead) \subseteq ToSet(calls[i].ahead)
                         /\ ToSet(calls[i].ahead) \subseteq ToSet(calls'[i].ahead) \cup {m}
                         /\ i < n => calls'[i] = calls[i]
                         /\ calls # <<>>
  BY Stack DEF Opened
<1>2. \A x \in Modules : Leads(x)' = Leads(x)
  BY DEF Going, Leads
<1>3. OnStack' = OnStack /\ Left' = Left
  BY <1>1 DEF OnStack, Left
<1>4. Path'
  <2>1. \A i \in 1..n : i < n => i + 1 \in 1..n
    BY <1>1
  <2>2. ASSUME NEW i \in 1..n
        PROVE  /\ calls'[i].node \in visited'
               /\ ToSet(calls'[i].ahead) \subseteq ToSet(Leads(calls[i].node)')
               /\ i < n => calls'[i + 1].node \in ToSet(Leads(calls[i].node)')
    <3>1. /\ calls[i].node \in visited
          /\ ToSet(calls[i].ahead) \subseteq ToSet(Leads(calls[i].node))
          /\ i < n => calls[i + 1].node \in ToSet(Leads(calls[i].node))
      BY DEF Path
    <3> QED BY <3>1, <2>1, <1>1, <1>2
  <2>3. \A i, j \in 1..n : calls'[i].node = calls'[j].node => i = j
    BY <1>1 DEF Path
  <2> QED BY <2>2, <2>3, <1>1, <1>2 DEF Path
<1>5. Behind'
  <2>1. ASSUME NEW x \in Left', NEW y \in ToSet(Leads(x)') PROVE y \in Left' \/ Excused(x, y)'
    <3>1. x \in Left /\ x \in Modules
      BY <1>3 DEF Left, TypeOK
    <3>2. y \in ToSet(Leads(x)) /\ y \in Modules
      BY <3>1, <1>2, Lists
    <3>3. y \in Left \/ Excused(x, y)
      BY <3>1, <3>2 DEF Behind
    <3> QED BY <3>1, <3>2, <3>3, <1>3 DEF Going
  <2>2. ASSUME NEW i \in 1..n, NEW y \in ToSet(Leads(calls[i].node)')
        PROVE  \/ y \in ToSet(calls'[i].ahead) \cup Left'
               \/ i < n /\ y = calls'[i + 1].node
               \/ Excused(calls[i].node, y)'
    <3>1. y \in ToSet(Leads(calls[i].node)) /\ y \in Modules /\ calls[i].node \in Modules
      BY <1>1, <1>2, Lists
    <3>2. \/ y \in ToSet(calls[i].ahead) \cup Left
          \/ i < n /\ y = calls[i + 1].node
          \/ Excused(calls[i].node, y)
      BY <3>1 DEF Behind
    <3>3. CASE y \in ToSet(calls[i].ahead) /\ y \notin ToSet(calls'[i].ahead)
      <4>1. y = m /\ i = n /\ calls # <<>>
        BY <3>3, <1>1
      <4>2. calls'[i].node = p
        BY <4>1, <1>1 DEF Top
      <4> QED BY <4>1, <4>2, <1>3
    <3>4. CASE i < n /\ y = calls[i + 1].node
      <4>1. i + 1 \in 1..n
        BY <3>4, <1>1
      <4> QED BY <3>4, <4>1, <1>1
    <3>5. CASE Excused(calls[i].node, y)
      BY <3>1, <3>5, <1>1 DEF Going
    <3> QED BY <3>2, <3>3, <3>4, <3>5, <1>3
  <2> QED BY <2>1, <2>2, <1>1 DEF Behind
<1> QED BY <1>3, <1>4, <1>5

(* A dfs that enters a module. *)
LEMMA Enters ==
  ASSUME TypeOK, Path, Behind, Going, NEW base, NEW m, Opened(base, m), m \notin visited,
         Enter(base, m, Leads(m))
  PROVE  /\ Path' /\ Behind' /\ Left' = Left /\ OnStack' = OnStack \cup {m}
         /\ calls' \in Seq(Calls) /\ visited' = visited \cup {m} /\ visited' \subseteq Modules
         /\ Len(calls') = Len(calls) + 1 /\ calls'[Len(calls) + 1].node = m
         /\ \A i \in 1..Len(calls) : calls'[i].node = calls[i].node
<1> DEFINE n == Len(calls) e == Call(m, Leads(m))
<1>1. /\ Len(base) = n /\ n \in Nat /\ base \in Seq(Calls) /\ m \in Modules
      /\ \A i \in 1..n : /\ base[i].node = calls[i].node /\ calls[i].node \in Modules
                         /\ ToSet(base[i].ahead) \subseteq ToSet(calls[i].ahead)
                         /\ ToSet(calls[i].ahead) \subseteq ToSet(base[i].ahead) \cup {m}
                         /\ i < n => base[i] = calls[i]
                         /\ calls # <<>>
  BY Stack DEF Opened
<1>2. e \in Calls /\ e.node = m /\ e.ahead = Leads(m)
  BY <1>1, Lists DEF Call, Calls
<1>3. /\ calls' \in Seq(Calls) /\ Len(calls') = n + 1 /\ calls'[n + 1] = e
      /\ \A i \in 1..n : calls'[i] = base[i]
      /\ visited' = visited \cup {m}
  <2> HIDE DEF e
  <2>1. calls' = Append(base, e) /\ visited' = visited \cup {m}
    BY DEF Enter, e
  <2> QED BY <2>1, <1>1, <1>2, AtEnd
<1> HIDE DEF e
<1>4. \A i \in 1..n + 1 : i \in 1..n \/ i = n + 1
  BY <1>1
<1>5. \A i \in 1..n : calls'[i].node = calls[i].node /\ calls[i].node \in visited
  BY <1>1, <1>3 DEF Path
<1>6. \A x \in Modules : Leads(x)' = Leads(x)
  BY DEF Going, Leads
<1>7. OnStack' = OnStack \cup {m}
  <2>1. OnStack' = {calls'[i].node : i \in 1..n + 1} /\ OnStack = {calls[i].node : i \in 1..n}
    BY <1>3 DEF OnStack
  <2>2. \A i \in 1..n : i \in 1..n + 1
    BY <1>1
  <2>3. n + 1 \in 1..n + 1
    BY <1>1
  <2> QED BY <2>1, <2>2, <2>3, <1>2, <1>3, <1>4, <1>5
<1>8. Left' = Left
  BY <1>3, <1>7 DEF Left
<1>9. calls # <<>> => /\ n \in 1..n /\ Top = calls[n] /\ m \in ToSet(Leads(Top.node))
  BY Stack DEF Opened
<1>10. Path'
  <2>1. ASSUME NEW i \in 1..n + 1
        PROVE  /\ calls'[i].node \in visited'
               /\ ToSet(calls'[i].ahead) \subseteq ToSet(Leads(calls[i].node)')
               /\ i < n + 1 => calls'[i + 1].node \in ToSet(Leads(calls[i].node)')
    <3>1. CASE i = n + 1
      BY <3>1, <1>1, <1>2, <1>3, <1>6
    <3>2. CASE i \in 1..n
      <4>1. /\ calls[i].node \in visited
            /\ ToSet(calls[i].ahead) \subseteq ToSet(Leads(calls[i].node))
            /\ i < n => calls[i + 1].node \in ToSet(Leads(calls[i].node))
        BY <3>2 DEF Path
      <4>2. i = n \/ (i < n /\ i + 1 \in 1..n)
        BY <3>2, <1>1
      <4>3. i = n => calls'[i + 1].node \in ToSet(Leads(calls[i].node))
        BY <3>2, <1>1, <1>2, <1>3, <1>9
      <4>4. i < n => calls'[i + 1].node \in ToSet(Leads(calls[i].node))
        BY <3>2, <4>1, <4>2, <1>5
      <4> QED BY <3>2, <4>1, <4>2, <4>3, <4>4, <1>1, <1>3, <1>5, <1>6
    <3> QED BY <3>1, <3>2, <1>4
  <2>2. ASSUME NEW i \in 1..n + 1, NEW j \in 1..n + 1, calls'[i].node = calls'[j].node
        PROVE  i = j
    BY <2>2, <1>2, <1>3, <1>4, <1>5 DEF Path
  <2> QED BY <2>1, <2>2, <1>3 DEF Path
<1>11. Behind'
  <2>1. ASSUME NEW x \in Left', NEW y \in ToSet(Leads(x)') PROVE y \in Left' \/ Excused(x, y)'
    <3>1. x \in Left /\ x \in Modules
      BY <1>8 DEF Left, TypeOK
    <3>2. y \in ToSet(Leads(x)) /\ y \in Modules
      BY <3>1, <1>6, Lists
    <3>3. y \in Left \/ Excused(x, y)
      BY <3>1, <3>2 DEF Behind
    <3> QED BY <3>1, <3>2, <3>3, <1>8 DEF Going
  <2>2. ASSUME NEW i \in 1..n + 1, NEW y \in ToSet(Leads(calls[i].node)')
        PROVE  \/ y \in ToSet(calls'[i].ahead) \cup Left'
               \/ i < n + 1 /\ y = calls'[i + 1].node
               \/ Excused(calls[i].node, y)'
    <3>1. CASE i = n + 1
      BY <3>1, <1>1, <1>2, <1>3, <1>6
    <3>2. CASE i \in 1..n
      <4>1. y \in ToSet(Leads(calls[i].node)) /\ y \in Modules /\ calls[i].node \in Modules
        BY <3>2, <1>1, <1>5, <1>6, Lists
      <4>2. \/ y \in ToSet(calls[i].ahead) \cup Left
            \/ i < n /\ y = calls[i + 1].node
            \/ Excused(calls[i].node, y)
        BY <4>1, <3>2 DEF Behind
      <4>3. CASE y \in ToSet(calls[i].ahead) /\ y \notin ToSet(calls'[i].ahead)
        <5>1. calls'[i] = base[i]
          BY <3>2, <1>3
        <5>2. ~ (i < n)
          BY <3>2, <4>3, <5>1, <1>1
        <5>3. y = m
          BY <3>2, <4>3, <5>1, <1>1
        <5>4. i = n /\ i < n + 1
          BY <3>2, <5>2, <1>1
        <5> QED BY <5>3, <5>4, <1>2, <1>3
      <4>4. CASE i < n /\ y = calls[i + 1].node
        <5>1. i + 1 \in 1..n /\ i < n + 1
          BY <4>4, <3>2, <1>1
        <5> QED BY <4>4, <5>1, <1>5
      <4>5. CASE Excused(calls[i].node, y)
        BY <4>1, <4>5, <3>2, <1>5 DEF Going
      <4> QED BY <4>2, <4>3, <4>4, <4>5, <1>8
    <3> QED BY <3>1, <3>2, <1>4
  <2> QED BY <2>1, <2>2, <1>3 DEF Behind
<1> QED BY <1>1, <1>2, <1>3, <1>5, <1>7, <1>8, <1>10, <1>11 DEF TypeOK

(* A dfs that has gone through its list returns. *)
LEMMA Leaves ==
  ASSUME TypeOK, Path, Behind, Going, Leaving, Return, visited' = visited
  PROVE  /\ Path' /\ Behind' /\ Left' = Left \cup {Top.node} /\ Top.node \notin Left
         /\ Top.node \in Modules /\ Top.node \in visited
         /\ \A y \in ToSet(Leads(Top.node)) : y \in Left \/ Excused(Top.node, y)
         /\ OnStack' = OnStack \ {Top.node}
         /\ calls' \in Seq(Calls) /\ Len(calls') = Len(calls) - 1
         /\ \A i \in 1..Len(calls) - 1 : calls'[i] = calls[i]
<1> DEFINE n == Len(calls) m == Top.node
<1>1. /\ n \in Nat /\ n \in 1..n /\ Top = calls[n] /\ calls \in Seq(Calls) /\ calls # <<>>
      /\ \A i \in 1..n : calls[i].node \in Modules
      /\ m \in OnStack /\ m \in Modules
  BY Stack DEF Leaving
<1>2. /\ calls' \in Seq(Calls) /\ Len(calls') = n - 1
      /\ \A i \in 1..n - 1 : calls'[i] = calls[i]
  BY <1>1, Shorter DEF Return
<1>3. \A i \in 1..n - 1 : i \in 1..n /\ i + 1 \in 1..n /\ (i + 1 \in 1..n - 1 <=> i < n - 1) /\ i < n
  BY <1>1
<1>4. \A i \in 1..n : i \in 1..n - 1 \/ i = n
  BY <1>1
<1>5. \A x \in Modules : Leads(x)' = Leads(x)
  BY DEF Going, Leads
<1>6. \A i, j \in 1..n : calls[i].node = calls[j].node => i = j
  BY DEF Path
<1>7. OnStack' = OnStack \ {m}
  <2>1. OnStack' = {calls'[i].node : i \in 1..n - 1} /\ OnStack = {calls[i].node : i \in 1..n}
    BY <1>2 DEF OnStack
  <2>2. \A i \in 1..n - 1 : calls[i].node # m
    <3>1. \A i \in 1..n - 1 : i # n
      BY <1>1
    <3> QED BY <3>1, <1>1, <1>3, <1>6
  <2>3. OnStack' \subseteq OnStack \ {m}
    BY <2>1, <2>2, <1>2, <1>3
  <2>4. OnStack \ {m} \subseteq OnStack'
    BY <2>1, <1>1, <1>2, <1>4
  <2> QED BY <2>3, <2>4
<1>8. m \in visited /\ \A i \in 1..n - 1 : calls[i].node \in visited
  BY <1>1, <1>3 DEF Path
<1>9. Left' = Left \cup {m} /\ m \notin Left
  BY <1>1, <1>7, <1>8 DEF Left
<1>10. ASSUME NEW y \in ToSet(Leads(m)) PROVE y \in Left \/ Excused(m, y)
  <2>1. ToSet(Top.ahead) = {}
    <3>1. Top.ahead = <<>> /\ Top.ahead \in Seq(Modules)
      BY <1>1, Stack DEF Leaving
    <3> QED BY <3>1, Elements
  <2>2. ~ (n < n)
    BY <1>1
  <2> QED BY <2>1, <2>2, <1>1 DEF Behind
<1>11. Path'
  <2>1. ASSUME NEW i \in 1..n - 1
        PROVE  /\ calls'[i].node \in visited'
               /\ ToSet(calls'[i].ahead) \subseteq ToSet(Leads(calls[i].node)')
               /\ i < n - 1 => calls'[i + 1].node \in ToSet(Leads(calls[i].node)')
    <3>1. /\ calls[i].node \in visited
          /\ ToSet(calls[i].ahead) \subseteq ToSet(Leads(calls[i].node))
          /\ calls[i + 1].node \in ToSet(Leads(calls[i].node))
      BY <1>3 DEF Path
    <3> QED BY <3>1, <1>1, <1>2, <1>3, <1>5
  <2>2. \A i, j \in 1..n - 1 : calls'[i].node = calls'[j].node => i = j
    BY <1>2, <1>3, <1>6
  <2> QED BY <2>1, <2>2, <1>2 DEF Path
<1>12. Behind'
  <2>1. ASSUME NEW x \in Left', NEW y \in ToSet(Leads(x)') PROVE y \in Left' \/ Excused(x, y)'
    <3>1. x \in Modules /\ (x \in Left \/ x = m)
      BY <1>1, <1>9 DEF Left, TypeOK
    <3>2. y \in ToSet(Leads(x)) /\ y \in Modules
      BY <3>1, <1>5, Lists
    <3>3. y \in Left \/ Excused(x, y)
      BY <3>1, <3>2, <1>10 DEF Behind
    <3> QED BY <3>1, <3>2, <3>3, <1>9 DEF Going
  <2>2. ASSUME NEW i \in 1..n - 1, NEW y \in ToSet(Leads(calls[i].node)')
        PROVE  \/ y \in ToSet(calls'[i].ahead) \cup Left'
               \/ i < n - 1 /\ y = calls'[i + 1].node
               \/ Excused(calls[i].node, y)'
    <3>1. y \in ToSet(Leads(calls[i].node)) /\ y \in Modules /\ calls[i].node \in Modules
      BY <1>1, <1>2, <1>3, <1>5, Lists
    <3>2. \/ y \in ToSet(calls[i].ahead) \cup Left
          \/ i < n /\ y = calls[i + 1].node
          \/ Excused(calls[i].node, y)
      BY <3>1, <1>3 DEF Behind
    <3>3. CASE y = calls[i + 1].node
      <4>1. i < n - 1 \/ i + 1 = n
        BY <1>1
      <4>2. i + 1 = n => y \in Left'
        BY <3>3, <1>1, <1>9
      <4> QED BY <3>3, <4>1, <4>2, <1>2, <1>3
    <3>4. CASE Excused(calls[i].node, y)
      BY <3>1, <3>4, <1>2, <1>3 DEF Going
    <3>5. CASE y \in ToSet(calls[i].ahead) \cup Left
      BY <3>5, <1>2, <1>3, <1>9
    <3> QED BY <3>2, <3>3, <3>4, <3>5
  <2> QED BY <2>1, <2>2, <1>2 DEF Behind
<1> QED BY <1>1, <1>2, <1>7, <1>8, <1>9, <1>10, <1>11, <1>12

(* A larger set has the cycles of a smaller one. *)
LEMMA MoreCycles ==
  ASSUME NEW lists, NEW s, NEW t, s \subseteq t, HasCycle(lists, s)
  PROVE  HasCycle(lists, t)
  BY DEF HasCycle

(* The first root file is the entry. *)
LEMMA RootFirst ==
  ASSUME NEW s \in Seq(Modules), Root \in Modules
  PROVE  /\ <<Root>> \o s \in Seq(Modules) /\ Root \in ToSet(<<Root>> \o s)
         /\ ToSet(<<Root>> \o s) \subseteq {Root} \cup ToSet(s)
         /\ s = <<>> => <<Root>> \o s = <<Root>>
<1> DEFINE t == <<Root>> \o s
<1>1. /\ <<Root>> \in Seq(Modules) /\ Len(<<Root>>) = 1 /\ <<Root>>[1] = Root /\ Len(s) \in Nat
  OBVIOUS
<1>2. /\ t \in Seq(Modules) /\ Len(t) = 1 + Len(s)
      /\ \A i \in 1..1 + Len(s) : t[i] = IF i <= 1 THEN Root ELSE s[i - 1]
  BY <1>1, ConcatProperties
<1>3. s = <<>> => t = <<Root>>
  BY <1>1, ConcatEmptySeq
<1> HIDE DEF t
<1>4. ToSet(t) = {t[i] : i \in 1..1 + Len(s)} /\ ToSet(s) = {s[i] : i \in 1..Len(s)}
  BY <1>2, Elements
<1>5. ASSUME NEW i \in 1..1 + Len(s) PROVE i = 1 \/ (i - 1 \in 1..Len(s) /\ ~ (i <= 1))
  BY <1>1
<1>6. 1 \in 1..1 + Len(s)
  BY <1>1
<1> QED BY <1>2, <1>3, <1>4, <1>5, <1>6 DEF t

(* The invariant holds in the first state. *)
LEMMA InitInv == Init => GraphIInv
<1> SUFFICES ASSUME Init PROVE GraphIInv
  OBVIOUS
<1> USE DEF Init
<1>1. /\ names \in [Modules -> Seq(Modules)] /\ imports \in [Modules -> Seq(Modules)]
      /\ roots \in Seq(Modules) /\ Root \in Modules
  BY ModuleGraphAssumption
<1>2. /\ todo \in Seq(Modules) /\ Root \in ToSet(todo)
      /\ ToSet(todo) \subseteq {Root} \cup ToSet(roots)
      /\ roots = <<>> => todo = <<Root>>
  BY <1>1, RootFirst DEF RootFiles
<1>3. TypeOK
  BY <1>1, <1>2, EmptySeq DEF TypeOK
<1>4. OnStack = {} /\ Left = {} /\ Len(calls) = 0
  BY DEF OnStack, Left
<1>5. Path /\ Behind
  BY <1>4 DEF Path, Behind
<1>6. ToSet(<<>>) = {} /\ IsInjective(<<>>) /\ Len(<<>>) = 0
  BY DEF ToSet, IsInjective
<1>7. CyclesAreCycles /\ NoCycleMissed
  BY <1>6 DEF CyclesAreCycles, NoCycleMissed
<1>8. Reading
  BY <1>1, <1>2, <1>4, <1>6 DEF Reading, Named, NamesBefore, OneRoot
<1> QED BY <1>3, <1>5, <1>7, <1>8
        DEF GraphIInv, KeysRead, Detecting, Sorting, Appending, Starting

-----------------------------------------------------------------------------
(* The files of the program *)

(* A file the traversal enters or leaves. *)
LEMMA ReadStep == ASSUME GraphIInv, Read PROVE GraphIInv'
<1> DEFINE n == Len(calls)
<1>1. /\ TypeOK /\ Path /\ Behind /\ Reading /\ CyclesAreCycles /\ phase = "read"
      /\ UNCHANGED <<names, imports, roots, phase, cycles, sortedOrder, entryFile, inited>>
  BY DEF GraphIInv, Read, Traversing
<1>2. /\ n \in Nat /\ keys \in Seq(Modules) /\ visited \subseteq Modules
      /\ cycles = <<>> /\ sortedOrder = <<>> /\ inited = <<>>
      /\ ToSet(keys) = Left /\ IsInjective(keys) /\ Named(visited)
      /\ Root \in visited \cup ToSet(todo) /\ ToSet(todo) \subseteq {Root} \cup ToSet(roots)
      /\ roots = <<>> => OneRoot
      /\ NamesBefore(keys) \/ HasCycle(names, visited)
  BY <1>1, Stack DEF Reading, TypeOK
<1>3. SUFFICES TypeOK' /\ Path' /\ Behind' /\ Reading'
  <2>1. CyclesAreCycles' /\ NoCycleMissed'
    BY <1>1 DEF CyclesAreCycles, NoCycleMissed
  <2> QED BY <1>1, <2>1 DEF GraphIInv, KeysRead, Detecting, Sorting, Appending, Starting
<1>4. ASSUME visited \subseteq visited' PROVE Going
  BY <1>1, <1>4, MoreCycles DEF Going, Excused
<1>7. CASE FromKeys /\ ReadDfs(calls, Head(todo)) /\ UNCHANGED keys
  <2>1. PICK m, base : m = Head(todo) /\ base = calls
    OBVIOUS
  <2>2. /\ Opened(base, m) /\ calls = <<>> /\ todo' \in Seq(Modules)
        /\ ToSet(todo) = {m} \cup ToSet(todo') /\ todo # <<>> /\ todo' = Tail(todo)
        /\ m \in Modules /\ ReadDfs(base, m) /\ keys' = keys
    BY <1>1, <1>7, <2>1, OpensFromKeys DEF FromKeys, Opened
  <2>3. m \in {Root} \cup ToSet(roots) /\ ToSet(todo') \subseteq {Root} \cup ToSet(roots)
    BY <2>2, <1>2
  <2>4. roots = <<>> => todo' = <<>> /\ m = Root /\ visited = {}
    BY <2>1, <2>2, <1>2 DEF OneRoot
  <2>5. \A x \in Modules : Leads(x) = names[x]
    BY <1>1 DEF Leads
  <2>6. CASE m \in visited
    <3>1. calls' = base /\ visited' = visited
      BY <2>2, <2>6 DEF ReadDfs
    <3>2. Path' /\ Behind' /\ Left' = Left
      BY <1>1, <1>4, <2>2, <3>1, Skips
    <3>3. TypeOK'
      BY <1>1, <2>1, <2>2, <3>1 DEF TypeOK
    <3>4. roots # <<>>
      BY <2>4, <2>6
    <3>5. Reading'
      BY <1>1, <1>2, <2>2, <2>3, <2>6, <3>1, <3>2, <3>4 DEF Reading, Named, NamesBefore
    <3> QED BY <3>2, <3>3, <3>5
  <2>7. CASE m \notin visited
    <3>1. Enter(base, m, Leads(m))
      BY <2>2, <2>5, <2>7 DEF ReadDfs
    <3>2. Going
      BY <3>1, <1>4 DEF Enter
    <3>3. /\ Path' /\ Behind' /\ Left' = Left
          /\ calls' \in Seq(Calls) /\ visited' = visited \cup {m} /\ visited' \subseteq Modules
          /\ Len(calls') = Len(calls) + 1 /\ calls'[Len(calls) + 1].node = m
      BY <1>1, <2>2, <2>7, <3>1, <3>2, Enters
    <3>4. TypeOK'
      BY <1>1, <2>2, <3>3 DEF TypeOK
    <3>5. calls' # <<>> /\ calls'[1].node = m
      <4>1. Len(calls) = 0 /\ Len(<<>>) = 0
        BY <2>2
      <4> QED BY <4>1, <3>3
    <3>6. Named(visited')
      BY <3>3, <1>2, <2>3 DEF Named
    <3>7. NamesBefore(keys) \/ HasCycle(names, visited')
      BY <3>3, <1>2, MoreCycles
    <3>8. Reading'
      BY <1>1, <1>2, <2>2, <2>3, <2>4, <3>3, <3>5, <3>6, <3>7
         DEF Reading, Named, NamesBefore, OneRoot
    <3> QED BY <3>3, <3>4, <3>8
  <2> QED BY <2>6, <2>7
<1>5. CASE FromImports /\ ReadDfs(Advanced, Head(Top.ahead)) /\ UNCHANGED keys
  <2>1. /\ Opened(Advanced, Head(Top.ahead)) /\ calls # <<>> /\ todo' = todo
        /\ Head(Top.ahead) \in ToSet(Leads(Top.node))
    BY <1>1, <1>5, OpensFromImports
  <2>2. PICK m, p : m = Head(Top.ahead) /\ p = Top.node
    OBVIOUS
  <2>3. /\ Opened(Advanced, m) /\ m \in Modules /\ m \in ToSet(Leads(p)) /\ Leads(p) = names[p]
        /\ p \in OnStack /\ p \in visited /\ p \in Modules /\ n \in 1..n /\ 1 \in 1..n
    <3>1. p \in OnStack /\ n \in 1..n /\ Top = calls[n] /\ p \in Modules
      BY <1>1, <2>1, <2>2, Stack
    <3>2. p \in visited
      BY <3>1, <2>2, <1>1 DEF Path
    <3>3. Opened(Advanced, m) /\ m \in ToSet(Leads(p)) /\ m \in Modules
      BY <2>1, <2>2 DEF Opened
    <3>4. Leads(p) = names[p]
      BY <1>1 DEF Leads
    <3>5. 1 \in 1..n
      BY <3>1, <1>2
    <3> QED BY <3>1, <3>2, <3>3, <3>4, <3>5
  <2>4. keys' = keys /\ ReadDfs(Advanced, m)
    BY <1>5, <2>2
  <2>5. \A x \in Modules : Leads(x) = names[x]
    BY <1>1 DEF Leads
  <2>6. CASE m \in visited
    <3>1. calls' = Advanced /\ visited' = visited /\ Len(Advanced) = n
      BY <2>3, <2>4, <2>6 DEF ReadDfs, Opened
    <3>2. Going
      BY <1>4, <3>1
    <3>3. m \in Left \/ Excused(p, m)
      <4>1. SUFFICES ASSUME m \in OnStack PROVE HasCycle(names, visited)
        BY <1>1, <2>6 DEF Left, Excused
      <4>2. PICK k \in 1..n : calls[k].node = m
        BY <1>1, <4>1, Stack
      <4>3. PICK t \in (SUBSET OnStack) \ {{}} : \A x \in t : ToSet(Leads(x)) \cap t # {}
        BY <1>1, <2>1, <2>2, <4>2, PathCloses
      <4>4. OnStack \subseteq visited /\ OnStack \subseteq Modules
        BY <1>1, Stack DEF Path
      <4> QED BY <4>3, <4>4, <2>5 DEF HasCycle
    <3>4. m \in Left \/ Excused(p, m)'
      BY <3>3, <3>2, <2>3 DEF Going
    <3>5. Path' /\ Behind' /\ Left' = Left
      BY <1>1, <2>2, <2>3, <3>1, <3>2, <3>4, Skips
    <3>6. TypeOK'
      BY <1>1, <2>1, <2>3, <2>4, <3>1 DEF TypeOK, Opened
    <3>7. calls' # <<>> /\ calls'[1].node = calls[1].node
      <4>1. calls'[1].node = calls[1].node /\ Len(calls') = n
        BY <2>3, <3>1 DEF Opened
      <4> QED BY <4>1, <2>1, <2>3, <1>2
    <3>8. Reading'
      BY <1>1, <1>2, <2>1, <2>4, <3>1, <3>5, <3>7 DEF Reading, Named, NamesBefore, OneRoot
    <3> QED BY <3>5, <3>6, <3>8
  <2>7. CASE m \notin visited
    <3>1. Enter(Advanced, m, Leads(m))
      BY <2>3, <2>4, <2>5, <2>7 DEF ReadDfs
    <3>2. Going
      BY <3>1, <1>4 DEF Enter
    <3>3. /\ Path' /\ Behind' /\ Left' = Left
          /\ calls' \in Seq(Calls) /\ visited' = visited \cup {m} /\ visited' \subseteq Modules
          /\ Len(calls') = n + 1 /\ \A i \in 1..n : calls'[i].node = calls[i].node
      BY <1>1, <2>3, <2>7, <3>1, <3>2, Enters
    <3>4. TypeOK'
      BY <1>1, <2>1, <2>4, <3>3 DEF TypeOK
    <3>5. calls' # <<>> /\ calls'[1].node = calls[1].node
      BY <3>3, <1>2, <2>1, <2>3
    <3>6. Named(visited')
      BY <3>3, <1>2, <2>3 DEF Named
    <3>7. NamesBefore(keys) \/ HasCycle(names, visited')
      BY <3>3, <1>2, MoreCycles
    <3>8. Reading'
      BY <1>1, <1>2, <2>1, <2>4, <3>3, <3>5, <3>6, <3>7 DEF Reading, Named, NamesBefore, OneRoot
    <3> QED BY <3>3, <3>4, <3>8
  <2> QED BY <2>6, <2>7
<1>6. CASE Leaving /\ Return /\ keys' = Append(keys, Top.node) /\ UNCHANGED <<visited, todo>>
  <2>1. PICK p : p = Top.node
    OBVIOUS
  <2>2. Going
    BY <1>4, <1>6
  <2>3. /\ Path' /\ Behind' /\ Left' = Left \cup {p} /\ p \notin Left
        /\ p \in Modules /\ p \in visited
        /\ \A y \in ToSet(Leads(p)) : y \in Left \/ Excused(p, y)
        /\ calls' \in Seq(Calls) /\ Len(calls') = n - 1
        /\ \A i \in 1..n - 1 : calls'[i] = calls[i]
    BY <1>1, <1>6, <2>1, <2>2, Leaves
  <2>4. /\ keys' \in Seq(Modules) /\ Len(keys') = Len(keys) + 1 /\ Len(keys) \in Nat
        /\ \A i \in 1..Len(keys) : keys'[i] = keys[i]
        /\ keys'[Len(keys) + 1] = p
        /\ ToSet(keys') = ToSet(keys) \cup {p} /\ IsInjective(keys') /\ Last(keys') = p
        /\ \A k \in Nat : k <= Len(keys) => First(keys', k) = First(keys, k)
        /\ First(keys', Len(keys)) = ToSet(keys) /\ keys' # <<>>
    <3>1. keys' = Append(keys, p)
      BY <1>6, <2>1
    <3> QED BY ONLY <3>1, <1>2, <2>3, AtEnd, AppendProperties, LenProperties
  <2>5. TypeOK'
    BY <1>1, <1>6, <2>3, <2>4 DEF TypeOK
  <2>6. ASSUME roots = <<>>
        PROVE  IF calls' # <<>> THEN calls'[1].node = Root ELSE Last(keys') = Root
    <3>1. calls # <<>> /\ n \in 1..n /\ Top = calls[n] /\ calls[1].node = Root
      BY <1>1, <1>2, <1>6, <2>6, Stack DEF Leaving, OneRoot
    <3>2. CASE n = 1
      <4>1. calls' = <<>>
        BY <3>2, <2>3
      <4>2. p = Root
        BY <3>1, <3>2, <2>1, <1>2
      <4> QED BY <4>1, <4>2, <2>4
    <3>3. CASE n > 1
      <4>1. 1 \in 1..n - 1
        BY <3>3, <1>2
      <4>2. calls'[1].node = Root /\ Len(calls') # 0
        BY <4>1, <2>3, <3>1, <1>2
      <4>3. calls' # <<>>
        BY <4>2, <2>3
      <4> QED BY <4>2, <4>3
    <3>4. n = 1 \/ n > 1
      <4>1. n \in Nat /\ n \in 1..n
        BY <3>1, <1>2
      <4>2. \A k \in Nat : k \in 1..k => k = 1 \/ k > 1
        OBVIOUS
      <4> QED BY ONLY <4>1, <4>2, Zenon
    <3> QED BY <3>2, <3>3, <3>4
  <2>7. NamesBefore(keys') \/ HasCycle(names, visited)
    <3>1. SUFFICES ASSUME NamesBefore(keys), ~HasCycle(names, visited) PROVE NamesBefore(keys')
      BY <1>2
    <3>2. ToSet(names[p]) \subseteq ToSet(keys)
      BY <1>1, <1>2, <2>3, <3>1 DEF Leads, Excused
    <3>3. ASSUME NEW k \in 1..Len(keys) PROVE ToSet(names[keys'[k]]) \subseteq First(keys', k - 1)
      <4>1. k - 1 \in Nat /\ k - 1 <= Len(keys)
        BY <2>4
      <4> QED BY <4>1, <2>4, <3>1 DEF NamesBefore
    <3>4. ToSet(names[keys'[Len(keys) + 1]]) \subseteq First(keys', Len(keys) + 1 - 1)
      <4>1. Len(keys) + 1 - 1 = Len(keys)
        BY <2>4
      <4> QED BY <4>1, <2>4, <3>2
    <3>5. \A k \in 1..Len(keys') : k \in 1..Len(keys) \/ k = Len(keys) + 1
      BY <2>4
    <3> QED BY <3>3, <3>4, <3>5 DEF NamesBefore
  <2>8. Reading'
    <3>1. roots = <<>> => todo = <<>>
      BY <1>2, <1>6 DEF OneRoot, Leaving
    <3> QED BY <3>1, <1>1, <1>2, <1>6, <2>3, <2>4, <2>6, <2>7
            DEF Reading, Named, NamesBefore, OneRoot
  <2> QED BY <2>3, <2>5, <2>8
<1> QED BY <1>7, <1>5, <1>6 DEF Read

(* Without calls in progress, all that was visited has been left. *)
LEMMA NoCalls ==
  ASSUME TypeOK, Finished
  PROVE  OnStack = {} /\ Left = visited /\ Len(calls) = 0 /\ ToSet(todo) = {}
<1>1. calls = <<>> /\ todo = <<>> /\ Len(<<>>) = 0 /\ ToSet(<<>>) = {}
  BY DEF Finished, ToSet
<1> QED BY <1>1, Stack DEF Left

(* The next traversal starts with nothing visited. *)
LEMMA Fresh ==
  ASSUME Finished, calls' = calls, visited' = {}
  PROVE  Path' /\ Behind' /\ OnStack' = {} /\ Left' = {}
<1>1. calls' = <<>> /\ Len(calls') = 0
  BY DEF Finished
<1>2. OnStack' = {} /\ Left' = {}
  BY <1>1 DEF OnStack, Left
<1> QED BY <1>1, <1>2 DEF Path, Behind

(* The files are those left, and the next traversal begins. *)
LEMMA BeginCyclesStep == ASSUME GraphIInv, BeginCycles PROVE GraphIInv'
<1>1. /\ TypeOK /\ Path /\ Behind /\ Reading /\ CyclesAreCycles /\ Finished
      /\ phase = "read" /\ phase' = "cycles" /\ todo' = keys /\ visited' = {} /\ calls = <<>>
      /\ UNCHANGED <<names, imports, roots, calls, keys, cycles, sortedOrder, entryFile, inited>>
  BY DEF GraphIInv, BeginCycles, Traversing, Finished
<1>2. /\ cycles = <<>> /\ sortedOrder = <<>> /\ inited = <<>>
      /\ ToSet(keys) = Left /\ IsInjective(keys) /\ Root \in visited /\ Named(visited)
      /\ roots = <<>> => Last(keys) = Root
      /\ NamesBefore(keys) \/ HasCycle(names, visited)
      /\ ToSet(keys) = visited
  BY <1>1, NoCalls DEF Reading, OneRoot, Finished
<1>3. TypeOK'
  BY <1>1 DEF TypeOK
<1>4. Path' /\ Behind' /\ Left' = {}
  BY <1>1, Fresh
<1>5. CyclesAreCycles' /\ NoCycleMissed'
  BY <1>1 DEF CyclesAreCycles, NoCycleMissed
<1>6. KeysRead'
  <2>1. InCycle' = {}
    BY <1>1, <1>2 DEF InCycle
  <2> QED BY <1>1, <1>2, <2>1 DEF KeysRead, NamesBefore, Acyclic, Named
<1>7. Detecting'
  <2>1. ~HasCycle(imports', Left' \ InCycle')
    BY <1>4 DEF HasCycle
  <2> QED BY <1>1, <1>2, <2>1 DEF Detecting
<1> QED BY <1>1, <1>3, <1>4, <1>5, <1>6, <1>7
        DEF GraphIInv, Reading, Sorting, Appending, Starting

-----------------------------------------------------------------------------
(* detectCycles *)

\* what CyclesAreCycles says of one
IsCycle(c) ==
  /\ Len(c) > 1 /\ c[1] = Last(c) /\ IsInjective(Front(c))
  /\ \A i \in 1..Len(c) - 1 : c[i + 1] \in ToSet(imports[c[i]])

(* What detectCycles reports when it meets a module on the path is a cycle, and its
   modules are those of the path from that one on. *)
LEMMA CycleFacts ==
  ASSUME TypeOK, Path, phase # "read", calls # <<>>, NEW m \in OnStack,
         m \in ToSet(Leads(Top.node))
  PROVE  /\ CycleTo(m) \in Seq(Modules) /\ IsCycle(CycleTo(m))
         /\ \E k \in 1..Len(calls) :
              /\ calls[k].node = m
              /\ ToSet(CycleTo(m)) = {calls[i].node : i \in k..Len(calls)}
<1> DEFINE n == Len(calls)
           nodes == [i \in 1..n |-> calls[i].node]
           k == CHOOSE i \in 1..n : nodes[i] = m
           l == n - k + 1
           c == CycleTo(m)
           f == SubSeq(nodes, k, n)
<1>1. /\ n \in Nat /\ n \in 1..n /\ Top = calls[n] /\ m \in Modules
      /\ \A i \in 1..n : calls[i].node \in Modules
  BY Stack
<1>2. k \in 1..n /\ nodes[k] = m
  <2>1. \E i \in 1..n : nodes[i] = m
    BY Stack
  <2> QED BY <2>1
<1>3. calls[k].node = m
  BY <1>2
<1> HIDE DEF k
<1>4. nodes \in Seq(Modules) /\ Len(nodes) = n /\ \A i \in 1..n : nodes[i] = calls[i].node
  BY <1>1
<1>5. CycleTo(m) = Append(SubSeq(nodes, k, Len(nodes)), m)
  BY DEF CycleTo, k
<1> HIDE DEF nodes, c
<1>6. l \in Nat /\ l > 0 /\ k \in Int /\ n \in Int /\ k <= n /\ k > 0
  BY <1>1, <1>2
<1>7. f \in Seq(Modules) /\ Len(f) = l /\ \A i \in 1..l : f[i] = calls[k + i - 1].node
  <2>1. \A i \in k..n : nodes[i] \in Modules
    BY <1>1, <1>4, <1>6
  <2>2. /\ f \in Seq(Modules) /\ Len(f) = IF k <= n THEN n - k + 1 ELSE 0
        /\ \A i \in 1..n - k + 1 : f[i] = nodes[k + i - 1]
    BY <2>1, <1>6, SubSeqProperties
  <2>3. \A i \in 1..l : k + i - 1 \in 1..n
    BY <1>6
  <2> QED BY <2>2, <2>3, <1>4, <1>6
<1> HIDE DEF f
<1>8. /\ c \in Seq(Modules) /\ Len(c) = l + 1 /\ c[l + 1] = m /\ Last(c) = m
      /\ \A i \in 1..l : c[i] = calls[k + i - 1].node
      /\ ToSet(c) = ToSet(f) \cup {m}
      /\ Front(c) = f
  <2>1. c = Append(f, m)
    BY <1>4, <1>5 DEF c, f
  <2>2. /\ c \in Seq(Modules) /\ Len(c) = l + 1 /\ c[l + 1] = m /\ Last(c) = m
        /\ \A i \in 1..l : c[i] = f[i]
        /\ ToSet(c) = ToSet(f) \cup {m} /\ c # <<>>
    BY <2>1, <1>1, <1>7, AtEnd, AppendProperties
  <2>3. /\ Front(c) \in Seq(Modules) /\ Len(Front(c)) = l
        /\ \A i \in 1..l : Front(c)[i] = f[i]
    <3>1. /\ Front(c) \in Seq(Modules) /\ Len(Front(c)) = Len(c) - 1
          /\ \A i \in 1..Len(c) - 1 : Front(c)[i] = c[i]
      BY <2>2, Shorter
    <3>2. Len(c) - 1 = l
      BY <2>2, <1>6
    <3> QED BY <3>1, <3>2, <2>2
  <2>4. Front(c) = f
    BY <2>3, <1>7, SeqEqual
  <2> QED BY <2>2, <2>4, <1>7
<1>9. ToSet(c) = {calls[i].node : i \in k..n}
  <2>1. ToSet(f) = {f[i] : i \in 1..l}
    BY <1>7, Elements
  <2>2. \A i \in 1..l : k + i - 1 \in k..n
    BY <1>6
  <2>3. \A i \in k..n : i - k + 1 \in 1..l /\ k + (i - k + 1) - 1 = i
    BY <1>6
  <2>4. ToSet(f) \subseteq {calls[i].node : i \in k..n}
    BY <2>1, <2>2, <1>7
  <2>5. {calls[i].node : i \in k..n} \subseteq ToSet(f)
    <3> SUFFICES ASSUME NEW i \in k..n PROVE calls[i].node \in ToSet(f)
      OBVIOUS
    <3>1. i - k + 1 \in 1..l /\ f[i - k + 1] = calls[i].node
      BY <2>3, <1>7
    <3> QED BY <3>1, <2>1
  <2>6. m \in {calls[i].node : i \in k..n}
    BY <1>3, <1>6
  <2> QED BY <2>4, <2>5, <2>6, <1>8
<1>10. IsInjective(f)
  <2>1. \A i \in 1..l : k + i - 1 \in 1..n
    BY <1>6
  <2>2. ASSUME NEW i \in 1..l, NEW j \in 1..l, f[i] = f[j] PROVE i = j
    <3>1. k + i - 1 = k + j - 1
      BY <2>1, <2>2, <1>7 DEF Path
    <3> QED BY <3>1, <1>6
  <2> QED BY <2>2, <1>7, Elements
<1>11. ASSUME NEW i \in 1..l PROVE c[i + 1] \in ToSet(imports[c[i]])
  <2>1. \A x \in Modules : Leads(x) = imports[x]
    BY DEF Leads
  <2>2. CASE i = l
    <3>1. k + i - 1 = n
      BY <2>2, <1>6
    <3> QED BY <3>1, <2>1, <2>2, <1>1, <1>8
  <2>3. CASE i < l
    <3>1. k + i - 1 \in 1..n /\ k + i - 1 < n /\ k + (i + 1) - 1 = (k + i - 1) + 1 /\ i + 1 \in 1..l
      BY <2>3, <1>6
    <3>2. calls[k + i - 1 + 1].node \in ToSet(Leads(calls[k + i - 1].node))
      BY <3>1 DEF Path
    <3>3. c[i + 1] = calls[k + i - 1 + 1].node /\ c[i] = calls[k + i - 1].node
      BY <3>1, <1>8
    <3>4. calls[k + i - 1].node \in Modules
      BY <3>1, <1>1
    <3> QED BY <3>2, <3>3, <3>4, <2>1
  <2> QED BY <2>2, <2>3, <1>6
<1>12. c[1] = m
  <2>1. 1 \in 1..l /\ k + 1 - 1 = k
    BY <1>6
  <2> QED BY <2>1, <1>3, <1>8
<1>13. IsCycle(c)
  <2>1. Len(c) > 1 /\ Len(c) - 1 = l
    BY <1>6, <1>8
  <2> QED BY <2>1, <1>8, <1>10, <1>11, <1>12 DEF IsCycle
<1> QED BY <1>2, <1>3, <1>8, <1>9, <1>13 DEF c

rigid == <<names, imports, roots, phase, keys, sortedOrder, entryFile, inited>>

(* What the steps of detectCycles and topoSort leave alone. *)
LEMMA Rigid ==
  ASSUME UNCHANGED <<names, imports, roots, keys>>
  PROVE  /\ (Acyclic' <=> Acyclic) /\ (Plain' <=> Plain)
         /\ NamesBefore(keys)' <=> NamesBefore(keys)
         /\ Named(ToSet(keys))' <=> Named(ToSet(keys))
  BY DEF Acyclic, Plain, NamesBefore, Named

(* One more cycle. *)
LEMMA OneMore ==
  ASSUME TypeOK, NEW c \in Seq(Modules), cycles' = Append(cycles, c)
  PROVE  /\ cycles' \in Seq(Seq(Modules)) /\ ToSet(cycles') = ToSet(cycles) \cup {c}
         /\ InCycle' = InCycle \cup ToSet(c)
<1>1. cycles \in Seq(Seq(Modules))
  BY DEF TypeOK
<1>2. /\ cycles' \in Seq(Seq(Modules)) /\ ToSet(cycles') = ToSet(cycles) \cup {c}
      /\ Len(cycles') = Len(cycles) + 1 /\ Len(cycles) \in Nat
      /\ \A i \in 1..Len(cycles) : cycles'[i] = cycles[i]
      /\ cycles'[Len(cycles) + 1] = c
  BY <1>1, AtEnd
<1>3. \A i \in 1..Len(cycles) + 1 : i \in 1..Len(cycles) \/ i = Len(cycles) + 1
  BY <1>2
<1>4. \A i \in 1..Len(cycles) : i \in 1..Len(cycles) + 1
  BY <1>2
<1>5. Len(cycles) + 1 \in 1..Len(cycles) + 1
  BY <1>2
<1> DEFINE elts(d) == ToSet(d)
<1>6. InCycle = UNION {elts(cycles[i]) : i \in 1..Len(cycles)}
  BY DEF InCycle
<1>7. InCycle' = UNION {elts(cycles'[i]) : i \in 1..Len(cycles) + 1}
  BY <1>2 DEF InCycle
<1> HIDE DEF elts
<1>8. InCycle' \subseteq InCycle \cup elts(c)
  BY <1>2, <1>3, <1>6, <1>7
<1>9. InCycle \cup elts(c) \subseteq InCycle'
  <2>1. InCycle \subseteq InCycle'
    BY <1>2, <1>4, <1>6, <1>7
  <2>2. elts(c) \subseteq InCycle'
    BY <1>2, <1>5, <1>7
  <2> QED BY <2>1, <2>2
<1> QED BY <1>2, <1>8, <1>9 DEF elts

(* A dfs of detectCycles. *)
LEMMA CyclesDfsStep ==
  ASSUME GraphIInv, phase = "cycles", UNCHANGED rigid, NEW base, NEW m,
         Opened(base, m), CyclesDfs(base, m),
         todo' \in Seq(Modules), ToSet(todo') \subseteq ToSet(todo),
         ToSet(todo) \subseteq ToSet(todo') \cup {m}
  PROVE  GraphIInv'
<1> DEFINE n == Len(calls)
<1>1. /\ TypeOK /\ Path /\ Behind /\ KeysRead /\ Detecting /\ CyclesAreCycles
      /\ UNCHANGED <<names, imports, roots, phase, keys, sortedOrder, entryFile, inited>>
  BY DEF GraphIInv, Traversing, rigid
<1>2. /\ IsInjective(keys) /\ Root \in ToSet(keys) /\ (roots = <<>> => Last(keys) = Root)
      /\ Named(ToSet(keys)) /\ (NamesBefore(keys) \/ ~Acyclic)
      /\ InCycle \subseteq ToSet(keys) /\ (Plain => cycles = <<>>)
      /\ sortedOrder = <<>> /\ inited = <<>>
      /\ ToSet(keys) = visited \cup ToSet(todo)
      /\ ~HasCycle(imports, Left \ InCycle)
  BY <1>1 DEF KeysRead, Detecting
<1>3. /\ m \in Modules /\ base \in Seq(Calls) /\ visited \subseteq ToSet(keys)
      /\ ToSet(keys) \subseteq Modules
      /\ \A x \in Modules : Leads(x) = imports[x]
  <2>1. keys \in Seq(Modules)
    BY <1>1 DEF TypeOK
  <2> QED BY <2>1, <1>2, Elements DEF Opened, Leads
<1>4. /\ (Acyclic' <=> Acyclic) /\ (Plain' <=> Plain)
      /\ NamesBefore(keys)' <=> NamesBefore(keys)
      /\ Named(ToSet(keys))' <=> Named(ToSet(keys))
  BY <1>1, Rigid
<1>5. ASSUME TypeOK', CyclesAreCycles', Path', Behind', Left' = Left, InCycle \subseteq InCycle',
             InCycle' \subseteq ToSet(keys), Plain => cycles' = <<>>,
             ToSet(keys) = visited' \cup ToSet(todo')
      PROVE  GraphIInv'
  <2>1. KeysRead'
    BY <1>1, <1>2, <1>4, <1>5 DEF KeysRead
  <2>2. Detecting'
    <3>1. ~HasCycle(imports', Left' \ InCycle')
      <4>1. PICK u : u = Left' \ InCycle'
        OBVIOUS
      <4>2. u \subseteq Left \ InCycle
        BY <4>1, <1>5
      <4>3. ~HasCycle(imports, u)
        BY <4>2, <1>2, MoreCycles
      <4> QED BY <4>1, <4>3, <1>1
    <3> QED BY <3>1, <1>1, <1>2, <1>5 DEF Detecting
  <2>3. NoCycleMissed'
    BY <1>1 DEF NoCycleMissed
  <2> QED BY <1>1, <1>5, <2>1, <2>2, <2>3 DEF GraphIInv, Reading, Sorting, Appending, Starting
<1>6. ASSUME cycles' = cycles
      PROVE  CyclesAreCycles' /\ InCycle' = InCycle /\ Going
  <2>1. InCycle' = InCycle
    BY <1>6 DEF InCycle
  <2>2. CyclesAreCycles'
    BY <1>1, <1>6 DEF CyclesAreCycles
  <2>3. Going
    BY <1>1, <2>1 DEF Going, Excused
  <2> QED BY <2>1, <2>2, <2>3
<1>7. CASE m \in OnStack
  <2>1. cycles' = Append(cycles, CycleTo(m)) /\ calls' = base /\ visited' = visited
    BY <1>7 DEF CyclesDfs
  <2>2. calls # <<>>
    BY <1>1, <1>7, Stack
  <2>3. PICK p : p = Top.node
    OBVIOUS
  <2>4. /\ m \in ToSet(Leads(p)) /\ p \in OnStack /\ p \in Modules /\ n \in 1..n /\ Top = calls[n]
        /\ n \in Nat
    BY <1>1, <2>2, <2>3, Stack DEF Opened
  <2>5. PICK k \in 1..n :
             /\ calls[k].node = m
             /\ ToSet(CycleTo(m)) = {calls[i].node : i \in k..n}
    BY <1>1, <1>7, <2>2, <2>3, <2>4, CycleFacts
  <2>6. CycleTo(m) \in Seq(Modules) /\ IsCycle(CycleTo(m))
    BY <1>1, <1>7, <2>2, <2>3, <2>4, CycleFacts
  <2>7. PICK c \in Seq(Modules) : c = CycleTo(m)
    BY <2>6
  <2>8. /\ cycles' \in Seq(Seq(Modules)) /\ ToSet(cycles') = ToSet(cycles) \cup {c}
        /\ InCycle' = InCycle \cup ToSet(c)
    BY <1>1, <2>1, <2>7, OneMore
  <2>9. m \in ToSet(c) /\ p \in ToSet(c)
    <3>1. k \in k..n /\ n \in k..n
      BY <2>4
    <3> QED BY <3>1, <2>3, <2>4, <2>5, <2>7
  <2>10. ToSet(c) \subseteq visited
    <3>1. \A i \in k..n : i \in 1..n
      BY <2>4
    <3>2. \A i \in 1..n : calls[i].node \in visited
      BY <1>1 DEF Path
    <3> QED BY <3>1, <3>2, <2>5, <2>7
  <2>11. Going
    BY <1>1, <2>8 DEF Going, Excused
  <2>12. Excused(p, m)'
    BY <1>1, <2>8, <2>9 DEF Excused
  <2>13. Path' /\ Behind' /\ Left' = Left
    BY <1>1, <2>1, <2>3, <2>11, <2>12, Skips
  <2>14. CyclesAreCycles'
    <3>1. \A x \in ToSet(cycles) : IsCycle(x)
      BY <1>1 DEF CyclesAreCycles, IsCycle
    <3>2. \A x \in ToSet(cycles') : IsCycle(x)
      BY <3>1, <2>6, <2>7, <2>8
    <3>3. \A x : IsCycle(x)' <=> IsCycle(x)
      BY <1>1 DEF IsCycle
    <3>4. \A x \in ToSet(cycles') : IsCycle(x)'
      BY <3>2, <3>3
    <3> QED BY <3>4 DEF CyclesAreCycles, IsCycle
  <2>15. ~Plain
    <3>1. PICK t \in (SUBSET OnStack) \ {{}} :
               /\ t = {calls[i].node : i \in k..n}
               /\ \A x \in t : ToSet(Leads(x)) \cap t # {}
      BY <1>1, <2>2, <2>3, <2>4, <2>5, PathCloses
    <3>2. t \in (SUBSET ToSet(keys)) \ {{}} /\ t \subseteq Modules
      BY <3>1, <2>5, <2>7, <2>10, <1>3
    <3>3. ASSUME Plain, NEW x \in t PROVE ToSet(names[x]) \cap t # {}
      <4>1. ToSet(Leads(x)) \subseteq ToSet(names[x])
        BY <3>2, <3>3, <1>3 DEF Plain
      <4> QED BY <4>1, <3>1
    <3> QED BY <3>2, <3>3 DEF Plain, Acyclic, HasCycle
  <2>16. TypeOK'
    BY <1>1, <1>3, <2>1, <2>8 DEF TypeOK
  <2>17. ToSet(keys) = visited' \cup ToSet(todo')
    BY <1>1, <1>2, <1>7, <2>1, <2>9, <2>10
  <2> QED BY <1>2, <1>3, <1>5, <2>8, <2>10, <2>13, <2>14, <2>15, <2>16, <2>17
<1>8. CASE m \notin OnStack /\ (m \in visited \/ m \notin ToSet(keys))
  <2>1. calls' = base /\ visited' = visited /\ cycles' = cycles
    BY <1>8 DEF CyclesDfs
  <2>2. PICK p : p = Top.node
    OBVIOUS
  <2>3. m \in Left \/ Excused(p, m)'
    BY <1>1, <1>8 DEF Left, Excused
  <2>4. Path' /\ Behind' /\ Left' = Left
    BY <1>1, <1>6, <2>1, <2>2, <2>3, Skips
  <2>5. TypeOK'
    BY <1>1, <1>3, <2>1 DEF TypeOK
  <2> QED BY <1>2, <1>5, <1>6, <1>8, <2>1, <2>4, <2>5
<1>9. CASE m \notin OnStack /\ m \notin visited /\ m \in ToSet(keys)
  <2>1. Enter(base, m, Leads(m)) /\ cycles' = cycles
    BY <1>3, <1>9 DEF CyclesDfs
  <2>2. /\ Path' /\ Behind' /\ Left' = Left /\ calls' \in Seq(Calls)
        /\ visited' = visited \cup {m} /\ visited' \subseteq Modules
    BY <1>1, <1>6, <1>9, <2>1, Enters
  <2>3. TypeOK'
    BY <1>1, <2>1, <2>2 DEF TypeOK
  <2> QED BY <1>2, <1>5, <1>6, <1>9, <2>1, <2>2, <2>3
<1> QED BY <1>7, <1>8, <1>9

(* A step of detectCycles: a module is entered, skipped, reported on a cycle, or left. *)
LEMMA DetectCyclesStep == ASSUME GraphIInv, DetectCycles PROVE GraphIInv'
<1>1. /\ TypeOK /\ Path /\ Behind /\ KeysRead /\ Detecting /\ CyclesAreCycles /\ phase = "cycles"
      /\ UNCHANGED rigid
  BY DEF GraphIInv, Traversing, rigid, DetectCycles
<1>2. /\ InCycle \subseteq ToSet(keys)
      /\ sortedOrder = <<>> /\ inited = <<>>
      /\ ToSet(keys) = visited \cup ToSet(todo)
      /\ ~HasCycle(imports, Left \ InCycle)
      /\ todo \in Seq(Modules)
  BY <1>1 DEF KeysRead, Detecting, TypeOK
<1>3. CASE FromKeys /\ CyclesDfs(calls, Head(todo))
  <2>1. PICK m : m = Head(todo)
    OBVIOUS
  <2>2. Opened(calls, m) /\ CyclesDfs(calls, m) /\ todo' \in Seq(Modules) /\ ToSet(todo) = {m} \cup ToSet(todo')
    BY <1>1, <1>3, <2>1, OpensFromKeys
  <2> QED BY <1>1, <2>2, CyclesDfsStep
<1>4. CASE FromImports /\ CyclesDfs(Advanced, Head(Top.ahead))
  <2>1. PICK m, p, base : m = Head(Top.ahead) /\ p = Top.node /\ base = Advanced
    OBVIOUS
  <2>2. /\ Opened(base, m) /\ CyclesDfs(base, m) /\ todo' = todo
        /\ m \in ToSet(Leads(p)) /\ calls # <<>>
    BY <1>1, <1>4, <2>1, OpensFromImports
  <2> QED BY <1>1, <1>2, <2>2, CyclesDfsStep
<1>5. CASE Leaving /\ Return /\ UNCHANGED <<visited, todo, cycles>>
  <2>1. PICK p : p = Top.node
    OBVIOUS
  <2>2. InCycle' = InCycle
    BY <1>5 DEF InCycle
  <2>3. Going
    BY <1>1, <1>5, <2>2 DEF Going, Excused, rigid
  <2>4. /\ Path' /\ Behind' /\ Left' = Left \cup {p} /\ p \notin Left
        /\ p \in Modules /\ p \in visited /\ calls' \in Seq(Calls)
        /\ \A y \in ToSet(Leads(p)) : y \in Left \/ Excused(p, y)
    BY <1>1, <1>5, <2>1, <2>3, Leaves
  <2>5. /\ (Acyclic' <=> Acyclic) /\ (Plain' <=> Plain)
        /\ NamesBefore(keys)' <=> NamesBefore(keys)
        /\ Named(ToSet(keys))' <=> Named(ToSet(keys))
    BY <1>1, Rigid DEF rigid
  <2>6. TypeOK'
    BY <1>1, <1>5, <2>4 DEF TypeOK, rigid
  <2>7. CyclesAreCycles'
    BY <1>1, <1>5 DEF CyclesAreCycles, rigid
  <2>8. KeysRead'
    BY <1>1, <1>5, <2>2, <2>5 DEF KeysRead, rigid
  <2>9. ~HasCycle(imports, (Left \cup {p}) \ InCycle)
    <3> SUFFICES ASSUME NEW t \in (SUBSET ((Left \cup {p}) \ InCycle)) \ {{}},
                        \A x \in t : ToSet(imports[x]) \cap t # {}
                 PROVE  FALSE
      BY DEF HasCycle
    <3>1. \A x \in t : x \in Modules /\ x \notin InCycle /\ (x \in Left \/ x = p)
      BY <1>1, <2>4 DEF Left, TypeOK
    <3>2. \A x \in t : Leads(x) = imports[x] /\ x \in ToSet(keys)
      BY <3>1, <2>4, <1>1, <1>2 DEF Leads, Left
    <3>3. t \ {p} \in (SUBSET (Left \ InCycle)) \ {{}}
      <4>1. t \ {p} # {}
        <5> SUFFICES ASSUME t = {p} PROVE FALSE
          OBVIOUS
        <5>1. p \in ToSet(Leads(p)) /\ p \notin InCycle
          BY <3>1, <3>2
        <5> QED BY <5>1, <2>4, <1>1, <1>2 DEF Excused
      <4>2. t \ {p} \subseteq Left \ InCycle
        BY <3>1
      <4> QED BY <4>1, <4>2
    <3>4. PICK x \in t \ {p} : ToSet(imports[x]) \cap (t \ {p}) = {}
      BY <3>3, <1>2 DEF HasCycle
    <3>5. p \in ToSet(Leads(x)) /\ x \in Left /\ x \notin InCycle
      BY <3>1, <3>2, <3>4
    <3>6. p \in Left \/ Excused(x, p)
      BY <3>5, <1>1 DEF Behind
    <3> QED BY <3>5, <3>6, <2>4, <1>1, <1>2 DEF Excused
  <2>10. Detecting'
    <3>1. ~HasCycle(imports', Left' \ InCycle')
      BY <1>1, <2>2, <2>4, <2>9 DEF rigid
    <3> QED BY <3>1, <1>1, <1>2, <1>5 DEF Detecting, rigid
  <2> QED BY <1>1, <2>4, <2>6, <2>7, <2>8, <2>10
          DEF GraphIInv, Reading, Sorting, Appending, Starting, NoCycleMissed, rigid
<1> QED BY <1>3, <1>4, <1>5 DEF DetectCycles

(* No cycle is left unreported when the sort begins. *)
LEMMA BeginSortStep == ASSUME GraphIInv, BeginSort PROVE GraphIInv'
<1>1. /\ TypeOK /\ Path /\ Behind /\ KeysRead /\ Detecting /\ CyclesAreCycles /\ Finished
      /\ phase = "cycles" /\ phase' = "sort" /\ todo' = keys /\ visited' = {} /\ calls = <<>>
      /\ UNCHANGED <<names, imports, roots, calls, keys, cycles, sortedOrder, entryFile, inited>>
  BY DEF GraphIInv, BeginSort, Traversing, Finished
<1>2. /\ InCycle \subseteq ToSet(keys) /\ sortedOrder = <<>> /\ inited = <<>>
      /\ ToSet(keys) = visited /\ ~HasCycle(imports, ToSet(keys) \ InCycle)
      /\ keys \in Seq(Modules)
  BY <1>1, NoCalls DEF KeysRead, Detecting, TypeOK
<1>3. TypeOK'
  BY <1>1 DEF TypeOK
<1>4. Path' /\ Behind' /\ Left' = {}
  BY <1>1, Fresh
<1>5. /\ (Acyclic' <=> Acyclic) /\ (Plain' <=> Plain)
      /\ NamesBefore(keys)' <=> NamesBefore(keys)
      /\ Named(ToSet(keys))' <=> Named(ToSet(keys))
  BY <1>1, Rigid
<1>6. InCycle' = InCycle
  BY <1>1 DEF InCycle
<1>7. CyclesAreCycles'
  BY <1>1 DEF CyclesAreCycles
<1>8. NoCycleMissed'
  BY <1>1, <1>2, <1>5, <1>6 DEF NoCycleMissed
<1>9. KeysRead'
  BY <1>1, <1>5, <1>6 DEF KeysRead
<1>10. Sorting'
  <2>1. ToSet(<<>>) = {} /\ IsInjective(<<>>) /\ Len(<<>>) = 0 /\ <<>> \o keys = keys
    BY <1>2, ConcatEmptySeq DEF ToSet, IsInjective
  <2>2. ImportsBefore(sortedOrder)'
    BY <1>1, <1>2, <2>1 DEF ImportsBefore
  <2> QED BY <1>1, <1>2, <1>4, <2>1, <2>2 DEF Sorting
<1> QED BY <1>1, <1>3, <1>4, <1>7, <1>8, <1>9, <1>10
        DEF GraphIInv, Reading, Detecting, Appending, Starting

-----------------------------------------------------------------------------
(* topoSort *)

(* What the steps after detectCycles leave alone. *)
LEMMA SortFrame ==
  ASSUME GraphIInv, phase \notin {"read", "cycles"}, phase' \notin {"read", "cycles"},
         UNCHANGED <<names, imports, roots, keys, cycles>>
  PROVE  /\ CyclesAreCycles' /\ NoCycleMissed' /\ KeysRead' /\ InCycle' = InCycle
         /\ (Plain' <=> Plain)
         /\ phase' = phase => Going
<1>1. TypeOK /\ CyclesAreCycles /\ NoCycleMissed /\ KeysRead
  BY DEF GraphIInv
<1>2. /\ (Acyclic' <=> Acyclic) /\ (Plain' <=> Plain)
      /\ NamesBefore(keys)' <=> NamesBefore(keys)
      /\ Named(ToSet(keys))' <=> Named(ToSet(keys))
  BY <1>1, Rigid
<1>3. InCycle' = InCycle
  BY DEF InCycle
<1>4. CyclesAreCycles'
  BY <1>1 DEF CyclesAreCycles
<1>5. NoCycleMissed'
  BY <1>1, <1>2, <1>3 DEF NoCycleMissed
<1>6. KeysRead'
  BY <1>1, <1>2, <1>3 DEF KeysRead
<1>7. phase' = phase => Going
  BY <1>3 DEF Going, Excused
<1> QED BY <1>2, <1>3, <1>4, <1>5, <1>6, <1>7

(* What has been sorted stays so if nothing is added. *)
LEMMA SameOrder ==
  ASSUME sortedOrder' = sortedOrder, InCycle' = InCycle, UNCHANGED <<imports, keys>>,
         ImportsBefore(sortedOrder)
  PROVE  ImportsBefore(sortedOrder)'
  BY DEF ImportsBefore, First

(* A module whose imports are sorted, or on cycles, may be put at the end. *)
LEMMA OrderGrows ==
  ASSUME GraphIInv, NEW p \in Modules, sortedOrder' = Append(sortedOrder, p),
         p \notin ToSet(sortedOrder), IsInjective(sortedOrder), InCycle' = InCycle,
         UNCHANGED <<imports, keys>>, ImportsBefore(sortedOrder),
         (ToSet(imports[p]) \cap ToSet(keys)) \ InCycle \subseteq ToSet(sortedOrder)
  PROVE  /\ ImportsBefore(sortedOrder)' /\ IsInjective(sortedOrder')
         /\ sortedOrder' \in Seq(Modules) /\ ToSet(sortedOrder') = ToSet(sortedOrder) \cup {p}
         /\ Last(sortedOrder') = p
<1> DEFINE s == sortedOrder n == Len(s)
<1>1. s \in Seq(Modules) /\ n \in Nat
  BY DEF GraphIInv, TypeOK
<1>2. /\ s' \in Seq(Modules) /\ Len(s') = n + 1 /\ s'[n + 1] = p
      /\ \A i \in 1..n : s'[i] = s[i] /\ s[i] \in Modules
      /\ ToSet(s') = ToSet(s) \cup {p} /\ IsInjective(s') /\ Last(s') = p
      /\ \A k \in Nat : k <= n => First(s', k) = First(s, k)
      /\ First(s', n) = ToSet(s)
  BY <1>1, AtEnd
<1>3. ASSUME NEW k \in 1..n + 1, NEW x \in Modules, x = s'[k]
      PROVE  (ToSet(imports[x]) \cap ToSet(keys)) \ InCycle \subseteq First(s', k)
  <2>1. CASE k \in 1..n
    <3>1. k \in Nat /\ k <= n
      BY <2>1, <1>1
    <3>2. x = s[k] /\ First(s', k) = First(s, k)
      BY <3>1, <2>1, <1>2, <1>3
    <3> QED BY <3>2, <2>1 DEF ImportsBefore
  <2>2. CASE k = n + 1
    <3>1. First(s', n) \subseteq First(s', k)
      <4>1. \A j \in 1..n : j \in 1..k
        BY <2>2, <1>1
      <4> QED BY <4>1 DEF First
    <3> QED BY <3>1, <2>2, <1>2, <1>3
  <2> QED BY <2>1, <2>2, <1>1
<1>4. ASSUME NEW k \in 1..Len(s')
      PROVE  ((ToSet(imports[s[k]]) \cap ToSet(keys)) \ InCycle)' \subseteq First(s', k)
  <2>1. PICK x \in Modules : x = s'[k]
    BY <1>2
  <2>2. k \in 1..n + 1
    BY <1>2
  <2> QED BY <1>3, <2>1, <2>2
<1> QED BY <1>2, <1>4 DEF ImportsBefore

(* A dfs of topoSort. *)
LEMMA SortDfsStep ==
  ASSUME GraphIInv, phase = "sort", UNCHANGED <<rigid, cycles>>, NEW base, NEW m,
         Opened(base, m), SortDfs(base, m),
         todo' \in Seq(Modules), ToSet(todo') \subseteq ToSet(todo),
         ToSet(todo) \subseteq ToSet(todo') \cup {m},
         \/ calls = <<>> /\ base = calls /\ todo # <<>> /\ m = Head(todo) /\ todo' = Tail(todo)
         \/ calls # <<>> /\ todo' = todo
  PROVE  GraphIInv'
<1> DEFINE n == Len(calls)
<1>1. /\ TypeOK /\ Path /\ Behind /\ KeysRead /\ Sorting /\ NoCycleMissed
      /\ UNCHANGED <<names, imports, roots, phase, keys, sortedOrder, entryFile, inited, cycles>>
  BY DEF GraphIInv, Traversing, rigid
<1>2. /\ inited = <<>> /\ ToSet(keys) \ InCycle \subseteq visited \cup ToSet(todo)
      /\ visited \cup ToSet(todo) \subseteq ToSet(keys) /\ visited \cap InCycle = {}
      /\ ToSet(sortedOrder) = Left /\ IsInjective(sortedOrder)
      /\ ImportsBefore(sortedOrder)
      /\ Plain => IF calls = <<>> THEN keys = sortedOrder \o todo
                    ELSE Len(calls) = 1 /\ keys = Append(sortedOrder, Top.node) \o todo
      /\ ~HasCycle(imports, ToSet(keys) \ InCycle)
      /\ IsInjective(keys) /\ (NamesBefore(keys) \/ ~Acyclic)
      /\ Plain => InCycle = {}
  <2>1. Plain => InCycle = {}
    <3>1. cycles = <<>> => InCycle = {}
      BY DEF InCycle
    <3> QED BY <3>1, <1>1 DEF KeysRead
  <2> QED BY <1>1, <2>1 DEF Sorting, KeysRead, NoCycleMissed
<1>3. /\ m \in Modules /\ base \in Seq(Calls) /\ ToSet(keys) \subseteq Modules
      /\ \A x \in Modules : Leads(x) = imports[x]
      /\ todo \in Seq(Modules) /\ sortedOrder \in Seq(Modules) /\ keys \in Seq(Modules)
  <2>1. todo \in Seq(Modules) /\ sortedOrder \in Seq(Modules) /\ keys \in Seq(Modules)
    BY <1>1 DEF TypeOK
  <2> QED BY <1>1, <2>1, Elements DEF Opened, Leads
<1>4. /\ CyclesAreCycles' /\ NoCycleMissed' /\ KeysRead' /\ InCycle' = InCycle
      /\ (Plain' <=> Plain) /\ Going
  BY <1>1, SortFrame
<1>5. ImportsBefore(sortedOrder)'
  BY <1>1, <1>2, <1>4, SameOrder
<1>6. ASSUME TypeOK', Path', Behind', Left' = Left,
             ToSet(keys) \ InCycle \subseteq visited' \cup ToSet(todo'),
             visited' \subseteq ToSet(keys), visited' \cap InCycle = {},
             Plain => IF calls' = <<>> THEN keys = sortedOrder \o todo'
                        ELSE Len(calls') = 1 /\ keys = Append(sortedOrder, Top.node') \o todo'
      PROVE  GraphIInv'
  <2>1. Sorting'
    BY <1>1, <1>2, <1>4, <1>5, <1>6 DEF Sorting
  <2> QED BY <1>1, <1>4, <1>6, <2>1 DEF GraphIInv, Reading, Detecting, Appending, Starting
<1>7. CASE m \in visited \cup InCycle \/ m \notin ToSet(keys)
  <2>1. calls' = base /\ visited' = visited
    BY <1>7 DEF SortDfs
  <2>2. PICK p : p = Top.node
    OBVIOUS
  <2>3. ASSUME calls # <<>> PROVE m \in Left \/ Excused(p, m)'
    <3>1. SUFFICES ASSUME m \in OnStack, m \notin InCycle PROVE FALSE
      BY <1>1, <1>4, <1>7 DEF Left, Excused
    <3>2. PICK k \in 1..n : calls[k].node = m
      BY <1>1, <3>1, Stack
    <3>3. calls[k].node \in ToSet(Leads(Top.node))
      BY <2>3, <3>2 DEF Opened
    <3>4. PICK t \in (SUBSET OnStack) \ {{}} :
               /\ t = {calls[i].node : i \in k..n}
               /\ \A x \in t : ToSet(Leads(x)) \cap t # {}
      BY <1>1, <2>3, <3>3, PathCloses
    <3>5. OnStack \subseteq visited /\ OnStack \subseteq Modules
      <4>1. /\ OnStack \subseteq Modules
            /\ \A x \in OnStack : \E i \in 1..n : calls[i].node = x
        BY <1>1, Stack
      <4>2. \A i \in 1..n : calls[i].node \in visited
        BY <1>1 DEF Path
      <4> QED BY <4>1, <4>2
    <3>6. t \in (SUBSET (ToSet(keys) \ InCycle)) \ {{}}
      BY <3>4, <3>5, <1>2
    <3>7. ASSUME NEW x \in t PROVE ToSet(imports[x]) \cap t # {}
      <4>1. x \in Modules
        BY <3>4, <3>5
      <4>2. imports[x] = Leads(x)
        BY <4>1, <1>1, <1>3, Lists
      <4> QED BY <4>2, <3>4
    <3> QED BY <3>6, <3>7, <1>2 DEF HasCycle
  <2>4. Path' /\ Behind' /\ Left' = Left
    BY <1>1, <1>4, <2>1, <2>2, <2>3, Skips
  <2>5. TypeOK'
    BY <1>1, <1>3, <2>1 DEF TypeOK
  <2>6. ASSUME Plain
        PROVE  IF calls' = <<>> THEN keys = sortedOrder \o todo'
               ELSE Len(calls') = 1 /\ keys = Append(sortedOrder, Top.node') \o todo'
    <3>1. CASE calls = <<>>
      <4>1. keys = sortedOrder \o todo /\ m = todo[1] /\ m \in visited /\ todo # <<>> /\ Len(todo) \in Nat \ {0}
        BY <1>2, <1>3, <1>7, <2>6, <3>1, HeadAndTail
      <4>2. m \in ToSet(sortedOrder)
        BY <4>1, <3>1, <1>1, <1>2, Stack DEF Left
      <4>3. PICK i \in 1..Len(sortedOrder) : sortedOrder[i] = m
        <5>1. ToSet(sortedOrder) = {sortedOrder[i] : i \in 1..Len(sortedOrder)}
          BY <1>3, Elements
        <5> QED BY <4>2, <5>1
      <4>4. /\ Len(keys) = Len(sortedOrder) + Len(todo) /\ Len(sortedOrder) \in Nat
            /\ \A j \in 1..Len(keys) : keys[j] = IF j <= Len(sortedOrder) THEN sortedOrder[j]
                                                 ELSE todo[j - Len(sortedOrder)]
        BY <4>1, <1>3, ConcatProperties
      <4>5. /\ i \in 1..Len(keys) /\ Len(sortedOrder) + 1 \in 1..Len(keys)
            /\ Len(sortedOrder) + 1 - Len(sortedOrder) = 1 /\ i <= Len(sortedOrder)
            /\ ~ (Len(sortedOrder) + 1 <= Len(sortedOrder)) /\ i # Len(sortedOrder) + 1
        BY <4>1, <4>4
      <4>6. keys[i] = m /\ keys[Len(sortedOrder) + 1] = m
        BY <4>1, <4>3, <4>4, <4>5
      <4> QED BY <4>5, <4>6, <1>2, <1>3, Elements
    <3>2. CASE calls # <<>>
      <4>1. Len(calls) = 1 /\ keys = Append(sortedOrder, Top.node) \o todo /\ todo' = todo
        BY <1>2, <2>6, <3>2
      <4>2. Len(base) = 1 /\ base[1].node = calls[1].node /\ base # <<>>
        <5>1. Len(base) = 1 /\ 1 \in 1..Len(calls)
          BY <4>1 DEF Opened
        <5>2. base # <<>>
          <6>1. Len(<<>>) = 0 /\ 0 # 1
            OBVIOUS
          <6> QED BY ONLY <5>1, <6>1, Zenon
        <5> QED BY <5>1, <5>2 DEF Opened
      <4>3. Top.node' = Top.node
        BY <2>1, <4>1, <4>2 DEF Top
      <4> QED BY <4>1, <4>2, <4>3, <2>1
    <3> QED BY <3>1, <3>2
  <2>7. ToSet(keys) \ InCycle \subseteq visited' \cup ToSet(todo')
    BY <1>2, <1>7, <2>1
  <2> QED BY <1>2, <1>6, <2>1, <2>4, <2>5, <2>6, <2>7
<1>8. CASE m \notin visited \cup InCycle /\ m \in ToSet(keys)
  <2>1. Enter(base, m, Leads(m))
    BY <1>3, <1>8 DEF SortDfs
  <2>2. /\ Path' /\ Behind' /\ Left' = Left /\ calls' \in Seq(Calls)
        /\ visited' = visited \cup {m} /\ visited' \subseteq Modules
        /\ Len(calls') = n + 1 /\ calls'[n + 1].node = m /\ n \in Nat
    BY <1>1, <1>4, <1>8, <2>1, Enters, Stack
  <2>3. TypeOK'
    BY <1>1, <2>2 DEF TypeOK
  <2>4. ASSUME Plain
        PROVE  IF calls' = <<>> THEN keys = sortedOrder \o todo'
               ELSE Len(calls') = 1 /\ keys = Append(sortedOrder, Top.node') \o todo'
    <3>1. CASE calls = <<>>
      <4>1. keys = sortedOrder \o todo /\ m = Head(todo) /\ todo # <<>> /\ todo' = Tail(todo)
        BY <1>2, <2>4, <3>1
      <4>2. Len(calls') = 1 /\ calls'[1].node = m /\ calls' # <<>>
        <5>1. n = 0
          BY <3>1
        <5>2. Len(calls') = 1 /\ calls'[1].node = m
          BY <5>1, <2>2
        <5> QED BY <5>2, <2>2
      <4>3. Top.node' = m
        BY <4>2 DEF Top
      <4>4. Append(sortedOrder, m) \o todo' = sortedOrder \o todo
        BY <4>1, <1>3, HeadMoves
      <4> QED BY <4>1, <4>2, <4>3, <4>4
    <3>2. CASE calls # <<>>
      <4>1. Len(calls) = 1 /\ keys = Append(sortedOrder, Top.node) \o todo
        BY <1>2, <2>4, <3>2
      <4>2. PICK p \in Modules : p = Top.node
        BY <3>2, <1>1, Stack
      <4> DEFINE l == Len(sortedOrder) a == Append(sortedOrder, p)
      <4>3. /\ a \in Seq(Modules) /\ Len(a) = l + 1 /\ l \in Nat
            /\ a[l + 1] = p /\ \A i \in 1..l : a[i] = sortedOrder[i]
        BY <1>3, <4>2, AtEnd
      <4>4. keys = a \o todo
        BY <4>1, <4>2
      <4> HIDE DEF a
      <4>5. /\ Len(keys) = Len(a) + Len(todo) /\ Len(todo) \in Nat
            /\ \A i \in 1..Len(a) + Len(todo) :
                 keys[i] = IF i <= Len(a) THEN a[i] ELSE todo[i - Len(a)]
        <5>1. a \in Seq(Modules) /\ todo \in Seq(Modules) /\ Len(todo) \in Nat
          BY <4>3, <1>3
        <5>2. /\ Len(a \o todo) = Len(a) + Len(todo)
              /\ \A i \in 1..Len(a) + Len(todo) :
                   (a \o todo)[i] = IF i <= Len(a) THEN a[i] ELSE todo[i - Len(a)]
          BY ONLY <5>1, ConcatProperties
        <5> QED BY ONLY <5>1, <5>2, <4>4
      <4>6. l + 1 \in 1..Len(keys) /\ keys[l + 1] = p /\ \A i \in 1..l : keys[i] = sortedOrder[i]
        BY <4>3, <4>5
      <4>7. ToSet(names[p]) \subseteq First(keys, l)
        <5>1. l + 1 - 1 = l
          BY <4>3
        <5> QED BY <5>1, <4>6, <1>2, <2>4 DEF NamesBefore, Plain
      <4>8. First(keys, l) = ToSet(sortedOrder)
        <5>1. First(keys, l) = First(sortedOrder, l)
          BY <4>6 DEF First
        <5> QED BY <5>1, <1>3, Elements
      <4>9. m \in ToSet(names[p])
        <5>1. p \in ToSet(keys)
          BY <4>2, <4>6, <1>3, Elements
        <5>2. ToSet(imports[p]) \subseteq ToSet(names[p]) /\ Leads(p) = imports[p]
          BY <5>1, <4>2, <1>3, <2>4 DEF Plain
        <5> QED BY <5>2, <3>2, <4>2 DEF Opened
      <4> QED BY <4>7, <4>8, <4>9, <1>2, <1>8 DEF Left
    <3> QED BY <3>1, <3>2
  <2>5. visited' \subseteq ToSet(keys) /\ visited' \cap InCycle = {}
    BY <1>2, <1>8, <2>2
  <2>6. ToSet(keys) \ InCycle \subseteq visited' \cup ToSet(todo')
    BY <1>2, <2>2
  <2> QED BY <1>6, <2>2, <2>3, <2>4, <2>5, <2>6
<1> QED BY <1>7, <1>8

(* A step of topoSort: a module is entered, skipped, or left and put in the order. *)
LEMMA TopoSortStep == ASSUME GraphIInv, TopoSort PROVE GraphIInv'
<1>1. /\ TypeOK /\ Path /\ Behind /\ KeysRead /\ Sorting /\ phase = "sort"
      /\ UNCHANGED <<names, imports, roots, phase, keys, cycles, entryFile, inited>>
  BY DEF GraphIInv, Traversing, TopoSort
<1>2. /\ inited = <<>> /\ ToSet(keys) \ InCycle \subseteq visited \cup ToSet(todo)
      /\ visited \cup ToSet(todo) \subseteq ToSet(keys) /\ visited \cap InCycle = {}
      /\ ToSet(sortedOrder) = Left /\ IsInjective(sortedOrder)
      /\ ImportsBefore(sortedOrder)
      /\ Plain => IF calls = <<>> THEN keys = sortedOrder \o todo
                    ELSE Len(calls) = 1 /\ keys = Append(sortedOrder, Top.node) \o todo
      /\ todo \in Seq(Modules)
  BY <1>1 DEF KeysRead, Sorting, TypeOK
<1>3. CASE FromKeys /\ SortDfs(calls, Head(todo)) /\ UNCHANGED sortedOrder
  <2>1. PICK m, base : m = Head(todo) /\ base = calls
    OBVIOUS
  <2>2. /\ Opened(base, m) /\ SortDfs(base, m) /\ calls = <<>>
        /\ todo' \in Seq(Modules) /\ ToSet(todo) = {m} \cup ToSet(todo')
    BY <1>1, <1>3, <2>1, OpensFromKeys
  <2>3. todo # <<>> /\ todo' = Tail(todo)
    BY <1>3 DEF FromKeys
  <2>4. UNCHANGED <<rigid, cycles>>
    BY <1>1, <1>3 DEF rigid
  <2> QED BY <1>1, <2>1, <2>2, <2>3, <2>4, SortDfsStep
<1>4. CASE FromImports /\ SortDfs(Advanced, Head(Top.ahead)) /\ UNCHANGED sortedOrder
  <2>1. PICK m, p, base : m = Head(Top.ahead) /\ p = Top.node /\ base = Advanced
    OBVIOUS
  <2>2. /\ Opened(base, m) /\ SortDfs(base, m) /\ todo' = todo
        /\ m \in ToSet(Leads(p)) /\ calls # <<>>
    BY <1>1, <1>4, <2>1, OpensFromImports
  <2>3. UNCHANGED <<rigid, cycles>>
    BY <1>1, <1>4 DEF rigid
  <2> QED BY <1>1, <1>2, <2>2, <2>3, SortDfsStep
<1>5. CASE /\ Leaving /\ Return
           /\ sortedOrder' = Append(sortedOrder, Top.node)
           /\ UNCHANGED <<visited, todo>>
  <2>1. PICK p : p = Top.node
    OBVIOUS
  <2>2. /\ CyclesAreCycles' /\ NoCycleMissed' /\ KeysRead' /\ InCycle' = InCycle
        /\ (Plain' <=> Plain) /\ Going
    BY <1>1, SortFrame
  <2>3. /\ Path' /\ Behind' /\ Left' = Left \cup {p} /\ p \notin Left
        /\ p \in Modules /\ calls' \in Seq(Calls)
        /\ \A y \in ToSet(Leads(p)) : y \in Left \/ Excused(p, y)
        /\ Len(calls') = Len(calls) - 1
    BY <1>1, <1>5, <2>1, <2>2, Leaves
  <2>4. (ToSet(imports[p]) \cap ToSet(keys)) \ InCycle \subseteq ToSet(sortedOrder)
    BY <2>3, <1>1, <1>2 DEF Leads, Excused
  <2>5. /\ ImportsBefore(sortedOrder)' /\ IsInjective(sortedOrder')
        /\ sortedOrder' \in Seq(Modules) /\ ToSet(sortedOrder') = ToSet(sortedOrder) \cup {p}
    BY <1>1, <1>2, <1>5, <2>1, <2>2, <2>3, <2>4, OrderGrows
  <2>6. TypeOK'
    BY <1>1, <1>5, <2>3, <2>5 DEF TypeOK
  <2>7. Plain => calls' = <<>> /\ keys = sortedOrder' \o todo'
    <3>1. Len(calls') = 0 => calls' = <<>>
      BY <2>3
    <3>2. calls # <<>>
      BY <1>5 DEF Leaving
    <3> QED BY <1>2, <1>5, <2>3, <3>1, <3>2
  <2>8. Sorting'
    BY <1>1, <1>2, <1>5, <2>2, <2>3, <2>5, <2>7 DEF Sorting
  <2> QED BY <1>1, <2>2, <2>3, <2>6, <2>8 DEF GraphIInv, Reading, Detecting, Appending, Starting
<1> QED BY <1>3, <1>4, <1>5 DEF TopoSort

(* The modules on no cycle are sorted when the second loop begins. *)
LEMMA BeginAppendStep == ASSUME GraphIInv, BeginAppend PROVE GraphIInv'
<1>1. /\ TypeOK /\ KeysRead /\ Sorting /\ Finished /\ phase = "sort" /\ phase' = "append"
      /\ todo' = keys /\ calls = <<>> /\ todo = <<>>
      /\ UNCHANGED <<names, imports, roots, calls, visited, keys, cycles, sortedOrder, entryFile, inited>>
  BY DEF GraphIInv, BeginAppend, Finished
<1>2. /\ inited = <<>> /\ Root \in ToSet(keys)
      /\ ToSet(sortedOrder) = ToSet(keys) \ InCycle /\ IsInjective(sortedOrder)
      /\ ImportsBefore(sortedOrder) /\ (Plain => keys = sortedOrder \o <<>>)
      /\ keys \in Seq(Modules) /\ sortedOrder \in Seq(Modules) /\ Len(keys) \in Nat
  BY <1>1, NoCalls DEF KeysRead, Sorting, TypeOK
<1>3. /\ CyclesAreCycles' /\ NoCycleMissed' /\ KeysRead' /\ InCycle' = InCycle
      /\ (Plain' <=> Plain)
  BY <1>1, SortFrame
<1>4. TypeOK'
  BY <1>1 DEF TypeOK
<1>5. ImportsBefore(sortedOrder)'
  BY <1>1, <1>2, <1>3, SameOrder
<1>6. Appending'
  <2>1. Passed' = {}
    <3>1. Len(keys) - Len(keys) = 0
      BY <1>2
    <3> QED BY <3>1, <1>1 DEF Passed, First
  <2>2. Plain => sortedOrder = keys
    BY <1>2, ConcatEmptySeq
  <2>3. Len(keys) <= Len(keys) /\ \A i \in 1..Len(keys) : Len(keys) - Len(keys) + i = i
    BY <1>2
  <2>4. keys # <<>>
    BY <1>2, Elements
  <2> QED BY <1>1, <1>2, <1>3, <1>5, <2>1, <2>2, <2>3, <2>4 DEF Appending
<1> QED BY <1>1, <1>3, <1>4, <1>6
        DEF GraphIInv, Traversing, Reading, Detecting, Sorting, Starting

(* The second loop puts a module on a cycle after its imports that are on none. *)
LEMMA AppendCyclesStep == ASSUME GraphIInv, AppendCycles PROVE GraphIInv'
<1> DEFINE l == Len(keys) - Len(todo)
<1>1. /\ TypeOK /\ KeysRead /\ Appending /\ phase = "append" /\ todo # <<>> /\ todo' = Tail(todo)
      /\ UNCHANGED <<names, imports, roots, phase, calls, visited, keys, cycles, entryFile, inited>>
  BY DEF GraphIInv, AppendCycles
<1>2. /\ inited = <<>> /\ Len(todo) <= Len(keys)
      /\ \A i \in 1..Len(todo) : todo[i] = keys[l + i]
      /\ ToSet(sortedOrder) = (ToSet(keys) \ InCycle) \cup (Passed \cap InCycle)
      /\ IsInjective(sortedOrder) /\ ImportsBefore(sortedOrder)
      /\ Plain => sortedOrder = keys
      /\ (roots = <<>> => Last(keys) = Root) /\ IsInjective(keys)
      /\ Plain => cycles = <<>>
      /\ keys \in Seq(Modules) /\ sortedOrder \in Seq(Modules) /\ todo \in Seq(Modules)
      /\ Passed = First(keys, l)
  BY <1>1 DEF KeysRead, Appending, TypeOK, Passed
<1>3. PICK m : m = Head(todo)
  OBVIOUS
<1>4. /\ m \in Modules /\ todo' \in Seq(Modules) /\ Len(todo) \in Nat \ {0} /\ m = todo[1]
      /\ Len(todo') = Len(todo) - 1 /\ Len(keys) \in Nat
      /\ \A i \in 1..Len(todo) - 1 : todo'[i] = todo[i + 1]
  BY <1>1, <1>2, <1>3, HeadAndTail
<1>5. /\ l \in Nat /\ l + 1 \in 1..Len(keys) /\ Len(keys) - Len(todo') = l + 1
      /\ \A i \in 1..l : i \in 1..Len(keys) /\ i # l + 1
      /\ \A i \in 1..l + 1 : i \in 1..l \/ i = l + 1
      /\ \A i \in 1..l : i \in 1..l + 1
      /\ l + 1 \in 1..l + 1
      /\ 1 \in 1..Len(todo)
  <2>1. Len(todo) <= Len(keys)
    BY <1>2
  <2>2. /\ l \in Nat /\ l + 1 \in 1..Len(keys) /\ Len(keys) - Len(todo') = l + 1
        /\ 1 \in 1..Len(todo)
    BY <2>1, <1>4
  <2> HIDE DEF l
  <2>3. /\ \A i \in 1..l : i \in 1..Len(keys) /\ i # l + 1
        /\ \A i \in 1..l + 1 : i \in 1..l \/ i = l + 1
        /\ \A i \in 1..l : i \in 1..l + 1
        /\ l + 1 \in 1..l + 1
    BY <2>2, <1>4
  <2> QED BY <2>2, <2>3
<1>6. m = keys[l + 1] /\ m \in ToSet(keys)
  <2>1. m = keys[l + 1]
    BY <1>2, <1>4, <1>5
  <2> QED BY <2>1, <1>2, <1>5, Elements
<1> HIDE DEF l
<1>7. /\ CyclesAreCycles' /\ NoCycleMissed' /\ KeysRead' /\ InCycle' = InCycle
      /\ (Plain' <=> Plain)
  BY <1>1, SortFrame
<1>8. Passed' = Passed \cup {m} /\ m \notin Passed
  <2>1. Passed' = First(keys, l + 1)
    BY <1>1, <1>5 DEF Passed
  <2>2. Passed' = Passed \cup {m}
    BY <2>1, <1>2, <1>5, <1>6 DEF First
  <2>3. m \notin Passed
    <3> SUFFICES ASSUME NEW i \in 1..l, keys[i] = m PROVE FALSE
      BY <1>2 DEF First
    <3> QED BY <1>2, <1>5, <1>6, Elements
  <2> QED BY <2>2, <2>3
<1>9. /\ Len(todo') <= Len(keys)
      /\ \A i \in 1..Len(todo') : todo'[i] = keys[Len(keys) - Len(todo') + i]
  <2>1. Len(todo') <= Len(keys)
    BY <1>2, <1>4
  <2>2. ASSUME NEW i \in 1..Len(todo') PROVE todo'[i] = keys[Len(keys) - Len(todo') + i]
    <3>1. /\ i \in 1..Len(todo) - 1 /\ i + 1 \in 1..Len(todo)
          /\ l + (i + 1) = (l + 1) + i
      <4>1. l \in Nat /\ Len(todo) \in Nat \ {0} /\ i \in 1..Len(todo) - 1
        BY <1>4, <1>5
      <4> QED BY ONLY <4>1
    <3> QED BY <3>1, <1>2, <1>4, <1>5
  <2> QED BY <2>1, <2>2
<1>10. todo' = <<>> /\ roots = <<>> => m = Root
  <2>1. todo' = <<>> => Len(todo') = 0
    OBVIOUS
  <2>2. Len(todo') = 0 => l + 1 = Len(keys)
    <3>1. \A a, b \in Nat : a - 0 = b + 1 => b + 1 = a
      OBVIOUS
    <3> QED BY <3>1, <1>4, <1>5, Zenon
  <2> QED BY <2>1, <2>2, <1>2, <1>6 DEF Last
<1>11. SUFFICES /\ ToSet(sortedOrder') = (ToSet(keys) \ InCycle) \cup (Passed' \cap InCycle)
                /\ IsInjective(sortedOrder') /\ ImportsBefore(sortedOrder)'
                /\ sortedOrder' \in Seq(Modules)
                /\ todo' = <<>> /\ Root \in InCycle /\ roots = <<>> => Last(sortedOrder') = Root
                /\ Plain => sortedOrder' = keys
  <2>1. Appending'
    BY <1>1, <1>2, <1>7, <1>9, <1>11 DEF Appending
  <2>2. TypeOK'
    BY <1>1, <1>4, <1>11 DEF TypeOK
  <2> QED BY <1>1, <1>7, <2>1, <2>2
          DEF GraphIInv, Traversing, Reading, Detecting, Sorting, Starting
<1>12. CASE m \in InCycle
  <2>1. sortedOrder' = Append(sortedOrder, m)
    BY <1>1, <1>3, <1>12 DEF AppendCycles
  <2>2. m \notin ToSet(sortedOrder)
    BY <1>2, <1>8, <1>12
  <2>3. (ToSet(imports[m]) \cap ToSet(keys)) \ InCycle \subseteq ToSet(sortedOrder)
    BY <1>2
  <2>4. /\ ImportsBefore(sortedOrder)' /\ IsInjective(sortedOrder')
        /\ sortedOrder' \in Seq(Modules) /\ ToSet(sortedOrder') = ToSet(sortedOrder) \cup {m}
        /\ Last(sortedOrder') = m
    BY <1>1, <1>2, <1>4, <1>7, <2>1, <2>2, <2>3, OrderGrows
  <2>5. ~Plain
    <3>1. cycles = <<>> => InCycle = {}
      BY DEF InCycle
    <3> QED BY <3>1, <1>2, <1>12
  <2> QED BY <1>2, <1>8, <1>10, <1>12, <2>4, <2>5
<1>13. CASE m \notin InCycle
  <2>1. sortedOrder' = sortedOrder
    BY <1>1, <1>3, <1>13 DEF AppendCycles
  <2>2. ImportsBefore(sortedOrder)'
    BY <1>1, <1>2, <1>7, <2>1, SameOrder
  <2> QED BY <1>2, <1>8, <1>10, <1>13, <2>1, <2>2
<1> QED BY <1>12, <1>13

-----------------------------------------------------------------------------
(* generateMainC and main() *)

(* A set of numbers that is not empty has a least one. *)
LEMMA Least ==
  ASSUME NEW T \in SUBSET Nat, T # {}
  PROVE  Min(T) \in T
<1> DEFINE R == {ss \in Nat \X Nat : ss[1] < ss[2]}
<1>1. IsWellFoundedOn(R, Nat)
  BY NatLessThanWellFounded, Zenon DEF OpToRel
<1>2. PICK m \in T : \A k \in T : <<k, m>> \notin R
  <2> HIDE DEF R
  <2> QED BY <1>1, WFMin
<1>3. \A k \in T : m <= k
  <2> SUFFICES ASSUME NEW k \in T, ~ (m <= k) PROVE FALSE
    OBVIOUS
  <2>1. k \in Nat /\ m \in Nat /\ k < m
    OBVIOUS
  <2>2. <<k, m>> \in R
    BY <2>1
  <2> QED BY <1>2, <2>2
<1> QED BY <1>2, <1>3 DEF Min

(* The entry is a module of the program. *)
LEMMA EntryFacts ==
  ASSUME NEW s \in Seq(Modules), s # <<>>
  PROVE  /\ EntryOf(s) \in Modules
         /\ \A i \in 1..Len(s) :
              {j \in 1..Len(s) : s[j] \notin Imported} = {i} => EntryOf(s) = s[i]
         /\ (\A j \in 1..Len(s) : s[j] \in Imported) => EntryOf(s) = Last(s)
<1> DEFINE free == {j \in 1..Len(s) : s[j] \notin Imported}
<1>1. /\ DOMAIN s = 1..Len(s) /\ Len(s) \in 1..Len(s)
      /\ \A i \in 1..Len(s) : s[i] \in Modules
  <2>1. Len(s) \in Nat \ {0}
    BY EmptySeq
  <2> QED BY <2>1
<1>2. EntryOf(s) = IF free # {} THEN s[Min(free)] ELSE Last(s)
  BY <1>1 DEF EntryOf
<1>3. free \in SUBSET Nat
  BY <1>1
<1>4. free # {} => Min(free) \in free
  <2> HIDE DEF free
  <2> QED BY <1>3, Least
<1>5. \A i \in free : i \in 1..Len(s)
  OBVIOUS
<1>6. (\A j \in 1..Len(s) : s[j] \in Imported) => free = {}
  OBVIOUS
<1> HIDE DEF free
<1>7. EntryOf(s) \in Modules
  BY <1>1, <1>2, <1>4, <1>5 DEF Last
<1>8. \A i \in 1..Len(s) : free = {i} => EntryOf(s) = s[i]
  BY <1>2, <1>4
<1> QED BY <1>2, <1>6, <1>7, <1>8 DEF free

(* The order has every module, and its entry is chosen. *)
LEMMA LinkStep == ASSUME GraphIInv, Link PROVE GraphIInv'
<1>1. /\ TypeOK /\ KeysRead /\ Appending /\ phase = "append" /\ todo = <<>> /\ phase' = "init"
      /\ entryFile' = EntryOf(sortedOrder) /\ todo' = sortedOrder
      /\ UNCHANGED <<names, imports, roots, calls, visited, keys, cycles, sortedOrder, inited>>
  BY DEF GraphIInv, Link
<1>2. /\ inited = <<>> /\ Root \in ToSet(keys) /\ InCycle \subseteq ToSet(keys)
      /\ ToSet(sortedOrder) = (ToSet(keys) \ InCycle) \cup (Passed \cap InCycle)
      /\ IsInjective(sortedOrder) /\ ImportsBefore(sortedOrder)
      /\ Root \in InCycle /\ roots = <<>> => Last(sortedOrder) = Root
      /\ Plain => sortedOrder = keys
      /\ keys \in Seq(Modules) /\ sortedOrder \in Seq(Modules) /\ Len(keys) \in Nat
  BY <1>1 DEF KeysRead, Appending, TypeOK
<1>3. /\ CyclesAreCycles' /\ NoCycleMissed' /\ KeysRead' /\ InCycle' = InCycle
      /\ (Plain' <=> Plain)
  BY <1>1, SortFrame
<1>4. Passed = ToSet(keys)
  <2>1. Len(todo) = 0 /\ Len(keys) - 0 = Len(keys)
    BY <1>1, <1>2
  <2> QED BY <2>1, <1>2, Elements DEF Passed
<1>5. ToSet(sortedOrder) = ToSet(keys)
  BY <1>2, <1>4
<1>6. sortedOrder # <<>>
  <2>1. ToSet(keys) # {}
    BY <1>2
  <2> QED BY <2>1, <1>2, <1>5, Elements
<1>7. EntryOf(sortedOrder) \in Modules
  BY <1>2, <1>6, EntryFacts
<1>8. TypeOK'
  BY <1>1, <1>2, <1>7 DEF TypeOK
<1>9. ImportsBefore(sortedOrder)'
  BY <1>1, <1>2, <1>3, SameOrder
<1>10. Starting'
  <2>1. EntryOf(sortedOrder)' = EntryOf(sortedOrder)
    BY <1>1 DEF EntryOf, Imported
  <2>2. sortedOrder = inited \o sortedOrder
    BY <1>2, ConcatEmptySeq
  <2> QED BY <1>1, <1>2, <1>3, <1>5, <1>9, <2>1, <2>2 DEF Starting
<1> QED BY <1>1, <1>3, <1>8, <1>10
        DEF GraphIInv, Traversing, Reading, Detecting, Sorting, Appending

(* What main() leaves alone. *)
LEMMA StartFrame ==
  ASSUME GraphIInv, phase = "init", phase' \in {"init", "done"},
         UNCHANGED <<names, imports, roots, calls, visited, keys, cycles, sortedOrder, entryFile>>,
         todo' \in Seq(Modules), inited' \in Seq(Modules), sortedOrder = inited' \o todo',
         phase' = "done" => todo' = <<>>
  PROVE  GraphIInv'
<1>1. /\ TypeOK /\ KeysRead /\ ToSet(sortedOrder) = ToSet(keys)
      /\ IsInjective(sortedOrder) /\ ImportsBefore(sortedOrder)
      /\ Root \in InCycle /\ roots = <<>> => Last(sortedOrder) = Root
      /\ Plain => sortedOrder = keys
      /\ entryFile = EntryOf(sortedOrder)
  BY DEF GraphIInv, Starting
<1>2. /\ CyclesAreCycles' /\ NoCycleMissed' /\ KeysRead' /\ InCycle' = InCycle
      /\ (Plain' <=> Plain)
  BY SortFrame
<1>3. TypeOK'
  BY <1>1 DEF TypeOK
<1>4. ImportsBefore(sortedOrder)'
  BY <1>1, <1>2, SameOrder
<1>5. EntryOf(sortedOrder)' = EntryOf(sortedOrder)
  BY DEF EntryOf, Imported
<1>6. Starting'
  BY <1>1, <1>2, <1>4, <1>5 DEF Starting
<1> QED BY <1>2, <1>3, <1>6
        DEF GraphIInv, Traversing, Reading, Detecting, Sorting, Appending

(* In what is without repetition, the first module still to be initialised is not. *)
LEMMA NextIsNew ==
  ASSUME NEW s \in Seq(Modules), NEW t \in Seq(Modules), t # <<>>, IsInjective(s \o t)
  PROVE  Head(t) \notin ToSet(s)
<1>1. /\ Len(s) \in Nat /\ Len(t) \in Nat \ {0} /\ Head(t) = t[1]
  BY HeadAndTail
<1>2. /\ s \o t \in Seq(Modules) /\ Len(s \o t) = Len(s) + Len(t)
      /\ \A i \in 1..Len(s) + Len(t) : (s \o t)[i] = IF i <= Len(s) THEN s[i] ELSE t[i - Len(s)]
  BY ConcatProperties
<1>3. \A i, j \in 1..Len(s) + Len(t) : (s \o t)[i] = (s \o t)[j] => i = j
  <2>1. \A i, j \in 1..Len(s \o t) : (s \o t)[i] = (s \o t)[j] => i = j
    BY <1>2, Elements
  <2> QED BY <2>1, <1>2
<1>4. /\ Len(s) + 1 \in 1..Len(s) + Len(t) /\ Len(s) + 1 - Len(s) = 1
      /\ ~ (Len(s) + 1 <= Len(s))
      /\ \A i \in 1..Len(s) : i \in 1..Len(s) + Len(t) /\ i <= Len(s) /\ i # Len(s) + 1
  BY <1>1
<1>5. (s \o t)[Len(s) + 1] = Head(t)
  BY <1>1, <1>2, <1>4
<1> SUFFICES ASSUME NEW i \in 1..Len(s), s[i] = Head(t) PROVE FALSE
  BY Elements
<1>6. (s \o t)[i] = Head(t)
  BY <1>2, <1>4
<1> QED BY <1>3, <1>4, <1>5, <1>6

(* The next module has not been initialised, and is. *)
LEMMA InitModuleStep == ASSUME GraphIInv, InitModule PROVE GraphIInv'
<1>1. /\ TypeOK /\ Starting /\ phase = "init" /\ phase' = phase /\ todo # <<>>
      /\ todo' = Tail(todo)
      /\ inited' = IF Head(todo) \in ToSet(inited) THEN inited ELSE Append(inited, Head(todo))
      /\ UNCHANGED <<names, imports, roots, calls, visited, keys, cycles, sortedOrder, entryFile>>
  BY DEF GraphIInv, InitModule
<1>2. /\ IsInjective(inited \o todo) /\ sortedOrder = inited \o todo
      /\ inited \in Seq(Modules) /\ todo \in Seq(Modules)
  BY <1>1 DEF Starting, TypeOK
<1>3. inited' = Append(inited, Head(todo)) /\ Head(todo) \in Modules /\ todo' \in Seq(Modules)
  BY <1>1, <1>2, NextIsNew, HeadAndTail
<1>4. inited' \in Seq(Modules)
  BY <1>2, <1>3, AtEnd
<1>5. Append(inited, Head(todo)) \o Tail(todo) = inited \o todo
  BY <1>1, <1>2, HeadMoves
<1>6. inited' \o todo' = sortedOrder
  BY <1>1, <1>2, <1>3, <1>5
<1> QED BY <1>1, <1>3, <1>4, <1>6, StartFrame

(* Nothing changes when the entry runs. *)
LEMMA RunEntryStep == ASSUME GraphIInv, RunEntry PROVE GraphIInv'
<1>1. /\ TypeOK /\ Starting /\ phase = "init" /\ phase' = "done" /\ todo = <<>>
      /\ UNCHANGED <<names, imports, roots, calls, visited, todo, keys, cycles, sortedOrder,
                     entryFile, inited>>
  BY DEF GraphIInv, RunEntry
<1>2. sortedOrder = inited \o todo /\ inited \in Seq(Modules) /\ todo \in Seq(Modules)
  BY <1>1 DEF Starting, TypeOK
<1> QED BY <1>1, <1>2, StartFrame

-----------------------------------------------------------------------------
(* The invariant is inductive *)

(* It depends on the variables alone. *)
LEMMA Stutters == ASSUME GraphIInv, UNCHANGED vars PROVE GraphIInv'
<1>1. /\ names' = names /\ imports' = imports /\ roots' = roots /\ phase' = phase /\ calls' = calls
      /\ visited' = visited /\ todo' = todo /\ keys' = keys /\ cycles' = cycles
      /\ sortedOrder' = sortedOrder /\ entryFile' = entryFile /\ inited' = inited
  BY DEF vars
<1>2. /\ \A x : Leads(x)' = Leads(x)
      /\ OnStack' = OnStack /\ Left' = Left /\ InCycle' = InCycle /\ Imported' = Imported
      /\ Passed' = Passed /\ Top' = Top
  BY <1>1 DEF Leads, OnStack, Left, InCycle, Imported, Passed, Top, First
<1>3. TypeOK' /\ CyclesAreCycles' /\ NoCycleMissed'
  BY <1>1, <1>2 DEF GraphIInv, TypeOK, CyclesAreCycles, NoCycleMissed, HasCycle
<1>4. \A x, y : (Excused(x, y)' <=> Excused(x, y))
  BY <1>1, <1>2 DEF Excused, HasCycle
<1>5. (Traversing => Path /\ Behind)'
  BY <1>1, <1>2, <1>4 DEF GraphIInv, Traversing, Path, Behind
<1>6. (Acyclic' <=> Acyclic) /\ (Plain' <=> Plain) /\ (ImportsBefore(sortedOrder)' <=> ImportsBefore(sortedOrder))
  BY <1>1, <1>2 DEF Acyclic, Plain, HasCycle, ImportsBefore, First
<1>7. Reading' /\ KeysRead'
  <2>1. /\ (Named(visited)' <=> Named(visited)) /\ (Named(ToSet(keys))' <=> Named(ToSet(keys)))
        /\ (NamesBefore(keys)' <=> NamesBefore(keys))
        /\ (HasCycle(names, visited)' <=> HasCycle(names, visited))
    BY <1>1 DEF Named, NamesBefore, First, HasCycle
  <2>2. Reading'
    BY <1>1, <1>2, <2>1 DEF GraphIInv, Reading, OneRoot
  <2>3. KeysRead'
    BY <1>1, <1>2, <1>6, <2>1 DEF GraphIInv, KeysRead
  <2> QED BY <2>2, <2>3
<1>8. Detecting' /\ Sorting'
  BY <1>1, <1>2, <1>6 DEF GraphIInv, Detecting, Sorting, HasCycle
<1>9. EntryOf(sortedOrder)' = EntryOf(sortedOrder)
  BY <1>1, <1>2 DEF EntryOf
<1>10. Appending' /\ Starting'
  BY <1>1, <1>2, <1>6, <1>9 DEF GraphIInv, Appending, Starting
<1> QED BY <1>3, <1>5, <1>7, <1>8, <1>10 DEF GraphIInv

(* Every step keeps it. *)
LEMMA NextInv == GraphIInv /\ [Next]_vars => GraphIInv'
<1> SUFFICES ASSUME GraphIInv, [Next]_vars PROVE GraphIInv'
  OBVIOUS
<1>1. CASE Read
  BY <1>1, ReadStep
<1>2. CASE BeginCycles
  BY <1>2, BeginCyclesStep
<1>3. CASE DetectCycles
  BY <1>3, DetectCyclesStep
<1>4. CASE BeginSort
  BY <1>4, BeginSortStep
<1>5. CASE TopoSort
  BY <1>5, TopoSortStep
<1>6. CASE BeginAppend
  BY <1>6, BeginAppendStep
<1>7. CASE AppendCycles
  BY <1>7, AppendCyclesStep
<1>8. CASE Link
  BY <1>8, LinkStep
<1>9. CASE InitModule
  BY <1>9, InitModuleStep
<1>10. CASE RunEntry
  BY <1>10, RunEntryStep
<1>11. CASE Done \/ UNCHANGED vars
  BY <1>11, Stutters DEF Done
<1> QED BY <1>1, <1>2, <1>3, <1>4, <1>5, <1>6, <1>7, <1>8, <1>9, <1>10, <1>11 DEF Next

(* What every state of a run satisfies. *)
LEMMA Invariance == Spec => []GraphIInv
<1>1. Init => GraphIInv
  BY InitInv
<1>2. GraphIInv /\ [Next]_vars => GraphIInv'
  BY NextInv
<1> QED BY <1>1, <1>2, PTL DEF Spec

-----------------------------------------------------------------------------
(* The results *)

(* A sequence without repetition has as many elements as places. *)
LEMMA Counted ==
  ASSUME NEW s \in Seq(Modules), IsInjective(s)
  PROVE  Cardinality(ToSet(s)) = Len(s)
<1>1. s \in [1..Len(s) -> ToSet(s)] /\ Len(s) \in Nat /\ ToSet(s) = {s[i] : i \in 1..Len(s)}
  BY Elements
<1>2. s \in Bijection(1..Len(s), ToSet(s))
  BY <1>1 DEF Bijection, Injection, Surjection
<1>3. ExistsBijection(1..Len(s), ToSet(s))
  BY <1>2 DEF ExistsBijection
<1> QED BY <1>1, <1>3, FS_CountingElements

(* The compiler and main() keep what a program needs of them, whatever its modules
   name and re-export: the cycles reported are cycles, the other modules are
   acyclic, and every module is initialised once before the entry runs. *)
THEOREM GraphSafe == Spec => []GraphInv
<1>1. GraphIInv => GraphInv
  <2> SUFFICES ASSUME GraphIInv PROVE EachModuleOnce
    BY DEF GraphIInv, GraphInv
  <2> SUFFICES ASSUME phase = "done"
               PROVE  ToSet(inited) = ToSet(keys) /\ Len(inited) = Len(keys)
    BY DEF EachModuleOnce
  <2>1. /\ ToSet(sortedOrder) = ToSet(keys) /\ IsInjective(sortedOrder) /\ IsInjective(keys)
        /\ sortedOrder = inited \o <<>>
        /\ inited \in Seq(Modules) /\ keys \in Seq(Modules)
    BY DEF GraphIInv, TypeOK, Starting, KeysRead
  <2>2. sortedOrder = inited
    BY <2>1, ConcatEmptySeq
  <2> QED BY <2>1, <2>2, Counted
<1> QED BY <1>1, Invariance, PTL

(* No module is initialised before one it imports, unless that one is on a
   reported cycle: the depth-first order is topological, and main() follows it. *)
THEOREM ImportsAlwaysFirst == Spec => []ImportsFirst
<1>1. GraphIInv => ImportsFirst
  <2> SUFFICES ASSUME GraphIInv,
                      NEW k \in 1..Len(inited)
               PROVE  (ToSet(imports[inited[k]]) \cap ToSet(keys)) \ InCycle \subseteq First(inited, k)
    BY DEF ImportsFirst, ImportsBefore
  <2>1. CASE phase \notin {"init", "done"}
    <3>1. inited = <<>>
      BY <2>1 DEF GraphIInv, TypeOK, Reading, Detecting, Sorting, Appending
    <3> QED BY <3>1
  <2>2. CASE phase \in {"init", "done"}
    <3>1. /\ sortedOrder = inited \o todo /\ ImportsBefore(sortedOrder)
          /\ inited \in Seq(Modules) /\ todo \in Seq(Modules)
      BY <2>2 DEF GraphIInv, TypeOK, Starting
    <3>2. /\ Len(inited) \in Nat /\ Len(todo) \in Nat
          /\ Len(sortedOrder) = Len(inited) + Len(todo)
          /\ \A i \in 1..Len(inited) : i \in 1..Len(sortedOrder) /\ sortedOrder[i] = inited[i]
      BY <3>1, ConcatProperties
    <3>3. First(sortedOrder, k) = First(inited, k)
      <4>1. \A j \in 1..k : j \in 1..Len(inited)
        BY <3>2
      <4> QED BY <4>1, <3>2 DEF First
    <3> QED BY <3>1, <3>2, <3>3 DEF ImportsBefore
  <2> QED BY <2>1, <2>2
<1> QED BY <1>1, Invariance, PTL

(* A program without cycles whose files are found from the entry by paths alone is
   initialised in the order of its files, in which each follows those it names. *)
THEOREM OrderOfLanguage == Spec => []LanguageOrder
<1>1. GraphIInv => LanguageOrder
  <2> SUFFICES ASSUME GraphIInv, phase = "done", Plain PROVE inited = keys
    BY DEF LanguageOrder
  <2>1. sortedOrder = inited \o <<>> /\ sortedOrder = keys /\ inited \in Seq(Modules)
    BY DEF GraphIInv, TypeOK, Starting
  <2> QED BY <2>1, ConcatEmptySeq
<1> QED BY <1>1, Invariance, PTL

(* The file that was compiled is the entry, when all that is in the program is
   imported and that file is not, so it is the only free one, or it is on a reported
   cycle and the only root, so it is last.  Without cycles its try statement is
   main()'s: of the files on no cycle the last is imported by none. *)
THEOREM EntryAlwaysRoot == Spec => []EntryIsRoot
<1> DEFINE l == Len(sortedOrder)
<1>1. ASSUME GraphIInv, phase \in {"init", "done"}, AllImported
      PROVE  /\ Root \notin Imported \/ (Root \in InCycle /\ roots = <<>>) => entryFile = Root
             /\ cycles = <<>> => TryUnit = Root
  <2>1. /\ TypeOK /\ Root \in ToSet(keys) /\ Named(ToSet(keys))
        /\ ToSet(sortedOrder) = ToSet(keys)
        /\ IsInjective(sortedOrder) /\ ImportsBefore(sortedOrder)
        /\ Root \in InCycle /\ roots = <<>> => Last(sortedOrder) = Root
        /\ entryFile = EntryOf(sortedOrder)
        /\ keys \in Seq(Modules) /\ sortedOrder \in Seq(Modules)
        /\ ~HasCycle(imports, ToSet(keys) \ InCycle)
    BY <1>1 DEF GraphIInv, TypeOK, KeysRead, Starting, NoCycleMissed
  <2>2. /\ l \in Nat /\ ToSet(sortedOrder) = {sortedOrder[i] : i \in 1..l}
        /\ \A i, j \in 1..l : sortedOrder[i] = sortedOrder[j] => i = j
        /\ ToSet(keys) \subseteq Modules
    BY <2>1, Elements
  <2>4. sortedOrder # <<>> /\ l \in 1..l
    BY <2>1, <2>2
  <2>5. ASSUME NEW m \in ToSet(keys), m # Root
        PROVE  \E n \in ToSet(keys) : m \in ToSet(imports[n])
    BY <1>1, <2>1, <2>5 DEF Named, AllImported
  <2>6. \A m \in ToSet(keys) : m # Root => m \in Imported
    BY <2>5 DEF Imported
  <2>7. ASSUME Root \notin Imported \/ (Root \in InCycle /\ roots = <<>>)
        PROVE  entryFile = Root
    <3>1. CASE Root \notin Imported
      <4>1. PICK i \in 1..l : sortedOrder[i] = Root
        BY <2>1, <2>2
      <4>2. {j \in 1..l : sortedOrder[j] \notin Imported} = {i}
        <5>1. \A j \in 1..l : sortedOrder[j] \in ToSet(keys)
          BY <2>1, <2>2
        <5>2. \A j \in 1..l : sortedOrder[j] \notin Imported => j = i
          BY <5>1, <4>1, <2>2, <2>6
        <5> QED BY <5>2, <4>1, <3>1
      <4> QED BY <4>1, <4>2, <2>1, <2>4, EntryFacts
    <3>2. CASE Root \in Imported
      <4>1. \A j \in 1..l : sortedOrder[j] \in Imported
        BY <3>2, <2>1, <2>2, <2>6
      <4> QED BY <4>1, <3>2, <2>1, <2>4, <2>7, EntryFacts
    <3> QED BY <3>1, <3>2
  <2>8. ASSUME cycles = <<>>, Last(sortedOrder) # Root PROVE FALSE
    <3>1. InCycle = {}
      BY <2>8 DEF InCycle
    <3>2. PICK z : z = sortedOrder[l]
      OBVIOUS
    <3>3. z \in ToSet(keys) /\ z # Root /\ z \in Modules
      BY <3>2, <2>1, <2>2, <2>4, <2>8 DEF Last
    <3>4. PICK n \in ToSet(keys) : z \in ToSet(imports[n])
      BY <3>3, <2>5
    <3>5. PICK k \in 1..l : sortedOrder[k] = n
      BY <2>1, <2>2
    <3>6. PICK j \in 1..k : sortedOrder[j] = z
      BY <3>1, <3>3, <3>4, <3>5, <2>1 DEF ImportsBefore, First
    <3>7. k = l
      <4>1. j \in 1..l
        BY <3>5, <3>6, <2>2
      <4>2. j = l
        BY <4>1, <3>2, <3>6, <2>2, <2>4
      <4> QED BY <4>2, <3>5, <3>6, <2>2
    <3>8. z \in ToSet(imports[z])
      BY <3>2, <3>3, <3>4, <3>5, <3>7
    <3>9. HasCycle(imports, ToSet(keys) \ InCycle)
      <4>1. {z} \in (SUBSET (ToSet(keys) \ InCycle)) \ {{}}
        BY <3>1, <3>3
      <4>2. \A m \in {z} : ToSet(imports[m]) \cap {z} # {}
        BY <3>8
      <4> QED BY <4>1, <4>2 DEF HasCycle
    <3> QED BY <3>9, <2>1
  <2> QED BY <2>7, <2>8 DEF TryUnit
<1>2. GraphIInv => EntryIsRoot
  BY <1>1 DEF EntryIsRoot
<1> QED BY <1>2, Invariance, PTL

=============================================================================
