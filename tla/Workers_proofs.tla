--------------------------- MODULE Workers_proofs ---------------------------
(* Proofs about Workers, for any workers, messages and kinds of program. *)
EXTENDS Workers, FiniteSetTheorems, SequenceTheorems, TLAPS

Places == {"none", "setMain", "setId", "setPort", "setData", "code",
           "create", "newPort", "gotPort", "joining", "ended", "exit"}
Types ==
  /\ isMainThread \in BOOLEAN /\ nextId \in Nat
  /\ creator \in [Workers -> Threads \cup {Nothing}] /\ id \in [Workers -> Nat]
  /\ started \subseteq Workers /\ terminated \subseteq started
  /\ pc \in [Threads -> Places]
  /\ arg \in [Threads -> Workers \cup (Workers \X Nat) \cup {Nothing}]
  /\ half \in [Threads -> {"none", "main", "worker"}]

Inv == Types /\ WorkersIInv

identityVars == <<rules, isMainThread, currentId, nextId, parentPort, workerData,
                  creator, id, started, terminated, pc, arg, half>>

MainOnly == {"guarded", "startsLater"} \subseteq rules

(* Threads, and the ports they are told apart by. *)
LEMMA Names ==
  /\ Main \in Threads /\ Main \notin Workers /\ Workers \subseteq Threads
  /\ Nothing \notin Threads /\ \A w \in Workers : PortOf(w) # Nothing /\ w # Main
  /\ \A t \in Threads : t = Main \/ t \in Workers
BY WorkersAssumption DEF Threads, PortOf

(* A thread moves; nothing is live that was not. *)
LEMMA Moved ==
  ASSUME Inv, NEW t \in Threads, NEW x \in Places \ {"none"}, pc[t] \notin {"none", "ended"},
         pc' = [pc EXCEPT ![t] = x]
  PROVE  /\ pc' \in [Threads -> Places] /\ pc'[t] = x
         /\ \A u \in Threads : u # t => pc'[u] = pc[u]
         /\ \A u \in Threads : pc[u] = "none" <=> pc'[u] = "none"
         /\ \A u \in Threads : pc[u] = "ended" => pc'[u] = "ended"
         /\ Live' \subseteq Live
<1>1. /\ pc' \in [Threads -> Places] /\ pc'[t] = x
      /\ \A u \in Threads : u # t => pc'[u] = pc[u]
  BY DEF Inv, Types
<1> QED BY <1>1, Names DEF Live

(* The invariant holds in the program's first state, *)
LEMMA InitInv == Init => Inv
<1> SUFFICES ASSUME Init PROVE Inv
  OBVIOUS
<1> USE Names DEF Init
<1>1. Types
  BY DEF Types, Places
<1>2. Lifecycle /\ JoinedOrGone
  BY DEF Lifecycle, JoinedOrGone
<1>3. RightHalf /\ DistinctIds /\ OnlyMainCreates
  BY DEF RightHalf, DistinctIds, OnlyMainCreates
<1>4. OneLive
  <2>1. Live = {}
    BY DEF Live
  <2> QED BY <2>1 DEF OneLive
<1> QED BY <1>1, <1>2, <1>3, <1>4 DEF Inv, WorkersIInv

(* Messages change nothing here. *)
LEMMA QuietStep == ASSUME Inv, UNCHANGED identityVars PROVE Inv'
<1> USE DEF identityVars, Inv, WorkersIInv
<1>1. Types'
  BY DEF Types
<1>2. Lifecycle' /\ JoinedOrGone'
  BY DEF Lifecycle, JoinedOrGone
<1>3. RightHalf' /\ DistinctIds' /\ OnlyMainCreates'
  BY DEF RightHalf, DistinctIds, OnlyMainCreates
<1>4. OneLive'
  BY DEF OneLive, Live, Alone
<1> QED BY <1>1, <1>2, <1>3, <1>4

-----------------------------------------------------------------------------
(* Steps *)

(* The test of isMainThread. *)
LEMMA TestMainStep == ASSUME Inv, NEW t \in Threads, TestMain(t) PROVE Inv'
<1> USE Names DEF Inv, WorkersIInv
<1>1. /\ pc[t] = "code" /\ half[t] = "none"
      /\ half' = [half EXCEPT ![t] = IF isMainThread THEN "main" ELSE "worker"]
      /\ UNCHANGED <<rules, isMainThread, currentId, nextId, parentPort, workerData,
                     creator, id, started, terminated, pc, arg>>
  BY DEF TestMain, InCode, globals, objects
<1>2. /\ half' \in [Threads -> {"none", "main", "worker"}] /\ \A u \in Threads : u # t => half'[u] = half[u]
      /\ half'[t] = IF isMainThread THEN "main" ELSE "worker"
  BY <1>1 DEF Types
<1>3. Types'
  BY <1>1, <1>2 DEF Types
<1>4. Lifecycle'
  BY <1>1, <1>2 DEF Lifecycle
<1>5. JoinedOrGone'
  BY <1>1, <1>2 DEF JoinedOrGone
<1>6. RightHalf'
  BY <1>1, <1>2 DEF RightHalf, OnlyMainCreates
<1>7. DistinctIds'
  BY <1>1, <1>2 DEF DistinctIds
<1>8. OnlyMainCreates'
  BY <1>1, <1>2 DEF OnlyMainCreates
<1>9. OneLive'
  BY <1>1, <1>2 DEF OneLive, Live, Alone
<1> QED BY <1>3, <1>4, <1>5, <1>6, <1>7, <1>8, <1>9

(* new Worker takes a number. *)
LEMMA CreateStep == ASSUME Inv, NEW t \in Threads, NEW w \in Workers, Create(t, w) PROVE Inv'
<1> USE Names DEF Inv, WorkersIInv
<1>1. /\ pc[t] = "code" /\ creator[w] = Nothing
      /\ ("guarded" \in rules => half[t] # "worker" /\ (t = Main \/ half[t] # "none"))
      /\ creator' = [creator EXCEPT ![w] = t]
      /\ arg' = [arg EXCEPT ![t] = <<w, nextId>>]
      /\ pc' = [pc EXCEPT ![t] = "create"]
      /\ UNCHANGED <<rules, isMainThread, currentId, nextId, parentPort, workerData, id,
                     started, terminated, half>>
  BY DEF Create, InCode, Tested, Goto, globals
<1>2. /\ pc' \in [Threads -> Places] /\ pc'[t] = "create" /\ Live' \subseteq Live
      /\ \A u \in Threads : /\ u # t => pc'[u] = pc[u]
                            /\ pc[u] = "none" <=> pc'[u] = "none"
                            /\ pc[u] = "ended" => pc'[u] = "ended"
  BY <1>1, Moved DEF Places
<1>3. /\ creator' \in [Workers -> Threads \cup {Nothing}] /\ creator'[w] = t
      /\ \A v \in Workers : v # w => creator'[v] = creator[v]
      /\ arg' \in [Threads -> Workers \cup (Workers \X Nat) \cup {Nothing}]
      /\ arg'[t] = <<w, nextId>> /\ \A u \in Threads : u # t => arg'[u] = arg[u]
      /\ id[w] = 0 /\ w \notin started
  BY <1>1 DEF Types, Lifecycle
<1>4. MainOnly => t = Main
  BY <1>1 DEF RightHalf, MainOnly, Types
<1>5. Types'
  BY <1>1, <1>2, <1>3, <1>4 DEF Types
<1>6. Lifecycle'
  <2>1. <<w, nextId>> \in Workers \X Nat /\ <<w, nextId>>[1] = w /\ <<w, nextId>>[2] = nextId
    BY DEF Types
  <2>2. \A u \in Threads : pc[u] = "create" => arg[u][1] \in Workers /\ arg[u][1] # w
    BY <1>1 DEF Lifecycle
  <2> QED BY <1>1, <1>2, <1>3, <2>1, <2>2 DEF Lifecycle
<1>7. JoinedOrGone'
  <2>1. \A v \in terminated : v \in Workers /\ v # w /\ creator'[v] = creator[v] /\ creator[v] \in Threads
    BY <1>3 DEF Types, Lifecycle
  <2> QED BY <1>1, <1>2, <1>3, <2>1 DEF JoinedOrGone
<1>8. RightHalf'
  BY <1>1, <1>2, <1>3, <1>4 DEF RightHalf
<1>9. DistinctIds'
  BY <1>1, <1>2, <1>3, <1>4 DEF DistinctIds
<1>10. OnlyMainCreates'
  BY <1>1, <1>2, <1>3, <1>4 DEF OnlyMainCreates, MainOnly
<1>11. OneLive'
  BY <1>1, <1>2, <1>3, <1>4 DEF OneLive, Live, Alone
<1> QED BY <1>5, <1>6, <1>7, <1>8, <1>9, <1>10, <1>11

(* It stores the number and the next. *)
LEMMA FinishCreateStep == ASSUME Inv, NEW t \in Threads, FinishCreate(t) PROVE Inv'
<1> USE Names DEF Inv, WorkersIInv
<1>1. /\ pc[t] = "create"
      /\ id' = [id EXCEPT ![arg[t][1]] = arg[t][2]]
      /\ nextId' = arg[t][2] + 1
      /\ arg' = [arg EXCEPT ![t] = Nothing]
      /\ pc' = [pc EXCEPT ![t] = "code"]
      /\ UNCHANGED <<rules, isMainThread, currentId, parentPort, workerData, creator,
                     started, terminated, half>>
  BY DEF FinishCreate, Goto
<1>2. /\ pc' \in [Threads -> Places] /\ pc'[t] = "code" /\ Live' \subseteq Live
      /\ \A u \in Threads : /\ u # t => pc'[u] = pc[u]
                            /\ pc[u] = "none" <=> pc'[u] = "none"
                            /\ pc[u] = "ended" => pc'[u] = "ended"
  BY <1>1, Moved DEF Places
<1>3. /\ arg[t] \in Workers \X Nat /\ arg[t][1] \in Workers /\ arg[t][2] \in Nat /\ arg[t][2] >= 1
      /\ creator[arg[t][1]] = t
  BY <1>1 DEF Lifecycle
<1>4. /\ id' \in [Workers -> Nat] /\ id'[arg[t][1]] = arg[t][2]
      /\ \A v \in Workers : v # arg[t][1] => id'[v] = id[v]
      /\ arg' \in [Threads -> Workers \cup (Workers \X Nat) \cup {Nothing}]
      /\ arg'[t] = Nothing /\ \A u \in Threads : u # t => arg'[u] = arg[u]
      /\ nextId' \in Nat /\ nextId' >= 1
  BY <1>1, <1>3 DEF Types
<1>5. MainOnly => t = Main /\ arg[t][2] = nextId /\ nextId' = nextId + 1 /\ arg[t][1] \notin started
  BY <1>1, <1>3 DEF OnlyMainCreates, MainOnly, Lifecycle
<1>6. Types'
  BY <1>1, <1>2, <1>3, <1>4, <1>5 DEF Types
<1>7. Lifecycle'
  BY <1>1, <1>2, <1>3, <1>4, <1>5 DEF Lifecycle
<1>8. JoinedOrGone'
  BY <1>1, <1>2, <1>3, <1>4, <1>5 DEF JoinedOrGone
<1>9. RightHalf'
  BY <1>1, <1>2, <1>3, <1>4, <1>5 DEF RightHalf
<1>10. DistinctIds'
  BY <1>1, <1>3, <1>4, <1>5 DEF DistinctIds, OnlyMainCreates, MainOnly, Types
<1>11. OnlyMainCreates'
  BY <1>1, <1>2, <1>3, <1>4, <1>5 DEF OnlyMainCreates, MainOnly, Types
<1>12. OneLive'
  BY <1>1, <1>2, <1>3, <1>4, <1>5 DEF OneLive, Live, Alone, MainOnly, Lifecycle
<1> QED BY <1>6, <1>7, <1>8, <1>9, <1>10, <1>11, <1>12

(* A worker is started: if one at a time, the others are gone. *)
LEMMA StartStep == ASSUME Inv, NEW t \in Threads, NEW w \in Workers, Start(t, w) PROVE Inv'
<1> USE Names DEF Inv, WorkersIInv
<1>1. /\ pc[t] = "code" /\ w \notin started /\ creator[w] = t /\ id[w] # 0
      /\ ("startsLater" \in rules => half[t] # "none")
      /\ ("oneAtATime" \in rules => \A v \in started : Joined(v))
      /\ started' = started \cup {w}
      /\ pc' = [pc EXCEPT ![w] = "setMain"]
      /\ UNCHANGED <<rules, isMainThread, currentId, nextId, parentPort, workerData,
                     creator, id, terminated, arg, half>>
  BY DEF Start, MayStart, InCode, Tested, Goto, globals
<1>2. /\ pc' \in [Threads -> Places] /\ pc'[w] = "setMain" /\ pc[w] = "none" /\ w # t
      /\ \A u \in Threads : u # w => pc'[u] = pc[u]
      /\ Live' = Live \cup {w}
  BY <1>1 DEF Types, Places, Lifecycle, Live
<1>3. MainOnly => t = Main
  BY <1>1 DEF OnlyMainCreates, MainOnly
<1>4. Alone => Live = {}
  BY <1>1, <1>3 DEF Alone, Joined, JoinedOrGone, OnlyMainCreates, MainOnly, Lifecycle, Live, Types
<1>5. Types'
  BY <1>1, <1>2, <1>3, <1>4 DEF Types
<1>6. Lifecycle'
  BY <1>1, <1>2, <1>3, <1>4 DEF Lifecycle
<1>7. JoinedOrGone'
  BY <1>1, <1>2, <1>3, <1>4 DEF JoinedOrGone
<1>8. RightHalf'
  BY <1>1, <1>2, <1>3, <1>4 DEF RightHalf
<1>9. DistinctIds'
  BY <1>1, <1>2, <1>3, <1>4 DEF DistinctIds
<1>10. OnlyMainCreates'
  BY <1>1, <1>2, <1>3 DEF OnlyMainCreates, MainOnly
<1>11. OneLive'
  BY <1>1, <1>2, <1>3, <1>4 DEF OneLive, Live, Alone
<1> QED BY <1>5, <1>6, <1>7, <1>8, <1>9, <1>10, <1>11

(* worker_thread_main clears the flag, *)
LEMMA SetMainStep == ASSUME Inv, NEW w \in Workers, SetMain(w) PROVE Inv'
<1> USE Names DEF Inv, WorkersIInv
<1>1. /\ pc[w] = "setMain"
      /\ isMainThread' = FALSE
      /\ pc' = [pc EXCEPT ![w] = "setId"]
      /\ UNCHANGED <<rules, currentId, nextId, parentPort, workerData, creator, id,
                     started, terminated, arg, half>>
  BY DEF SetMain, Goto, objects
<1>2. /\ pc' \in [Threads -> Places] /\ pc'[w] = "setId" /\ Live' \subseteq Live
      /\ \A u \in Threads : /\ u # w => pc'[u] = pc[u]
                            /\ pc[u] = "none" <=> pc'[u] = "none"
                            /\ pc[u] = "ended" => pc'[u] = "ended"
  BY <1>1, Moved DEF Places
<1>3. w \in Live /\ w \in started
  BY <1>1 DEF Live, Lifecycle
<1>4. Types'
  BY <1>1, <1>2, <1>3 DEF Types
<1>5. Lifecycle'
  BY <1>1, <1>2, <1>3 DEF Lifecycle
<1>6. JoinedOrGone'
  BY <1>1, <1>2, <1>3 DEF JoinedOrGone
<1>7. RightHalf'
  BY <1>1, <1>2, <1>3 DEF RightHalf
<1>8. DistinctIds'
  BY <1>1, <1>2, <1>3 DEF DistinctIds
<1>9. OnlyMainCreates'
  BY <1>1, <1>2, <1>3 DEF OnlyMainCreates
<1>10. OneLive'
  BY <1>1, <1>2, <1>3 DEF OneLive, Live, Alone
<1> QED BY <1>4, <1>5, <1>6, <1>7, <1>8, <1>9, <1>10

(* stores its number, *)
LEMMA SetIdStep == ASSUME Inv, NEW w \in Workers, SetId(w) PROVE Inv'
<1> USE Names DEF Inv, WorkersIInv
<1>1. /\ pc[w] = "setId"
      /\ currentId' = id[w]
      /\ pc' = [pc EXCEPT ![w] = "setPort"]
      /\ UNCHANGED <<rules, isMainThread, nextId, parentPort, workerData, creator, id,
                     started, terminated, arg, half>>
  BY DEF SetId, Goto, objects
<1>2. /\ pc' \in [Threads -> Places] /\ pc'[w] = "setPort" /\ Live' \subseteq Live
      /\ \A u \in Threads : /\ u # w => pc'[u] = pc[u]
                            /\ pc[u] = "none" <=> pc'[u] = "none"
                            /\ pc[u] = "ended" => pc'[u] = "ended"
  BY <1>1, Moved DEF Places
<1>3. w \in Live /\ w \in started
  BY <1>1 DEF Live, Lifecycle
<1>4. Types'
  BY <1>1, <1>2, <1>3 DEF Types
<1>5. Lifecycle'
  BY <1>1, <1>2, <1>3 DEF Lifecycle
<1>6. JoinedOrGone'
  BY <1>1, <1>2, <1>3 DEF JoinedOrGone
<1>7. RightHalf'
  BY <1>1, <1>2, <1>3 DEF RightHalf
<1>8. DistinctIds'
  BY <1>1, <1>2, <1>3 DEF DistinctIds
<1>9. OnlyMainCreates'
  BY <1>1, <1>2, <1>3 DEF OnlyMainCreates
<1>10. OneLive'
  BY <1>1, <1>2, <1>3 DEF OneLive, Live, Alone
<1> QED BY <1>4, <1>5, <1>6, <1>7, <1>8, <1>9, <1>10

(* its port, *)
LEMMA SetPortStep == ASSUME Inv, NEW w \in Workers, SetPort(w) PROVE Inv'
<1> USE Names DEF Inv, WorkersIInv
<1>1. /\ pc[w] = "setPort"
      /\ parentPort' = PortOf(w)
      /\ pc' = [pc EXCEPT ![w] = "setData"]
      /\ UNCHANGED <<rules, isMainThread, currentId, nextId, workerData, creator, id,
                     started, terminated, arg, half>>
  BY DEF SetPort, Goto, objects
<1>2. /\ pc' \in [Threads -> Places] /\ pc'[w] = "setData" /\ Live' \subseteq Live
      /\ \A u \in Threads : /\ u # w => pc'[u] = pc[u]
                            /\ pc[u] = "none" <=> pc'[u] = "none"
                            /\ pc[u] = "ended" => pc'[u] = "ended"
  BY <1>1, Moved DEF Places
<1>3. w \in Live /\ w \in started
  BY <1>1 DEF Live, Lifecycle
<1>4. Types'
  BY <1>1, <1>2, <1>3 DEF Types
<1>5. Lifecycle'
  BY <1>1, <1>2, <1>3 DEF Lifecycle
<1>6. JoinedOrGone'
  BY <1>1, <1>2, <1>3 DEF JoinedOrGone
<1>7. RightHalf'
  BY <1>1, <1>2, <1>3 DEF RightHalf
<1>8. DistinctIds'
  BY <1>1, <1>2, <1>3 DEF DistinctIds
<1>9. OnlyMainCreates'
  BY <1>1, <1>2, <1>3 DEF OnlyMainCreates
<1>10. OneLive'
  BY <1>1, <1>2, <1>3 DEF OneLive, Live, Alone
<1> QED BY <1>4, <1>5, <1>6, <1>7, <1>8, <1>9, <1>10

(* and its data. *)
LEMMA SetDataStep == ASSUME Inv, NEW w \in Workers, SetData(w) PROVE Inv'
<1> USE Names DEF Inv, WorkersIInv
<1>1. /\ pc[w] = "setData"
      /\ workerData' = w
      /\ pc' = [pc EXCEPT ![w] = "code"]
      /\ UNCHANGED <<rules, isMainThread, currentId, nextId, parentPort, creator, id,
                     started, terminated, arg, half>>
  BY DEF SetData, Goto, objects
<1>2. /\ pc' \in [Threads -> Places] /\ pc'[w] = "code" /\ Live' \subseteq Live
      /\ \A u \in Threads : /\ u # w => pc'[u] = pc[u]
                            /\ pc[u] = "none" <=> pc'[u] = "none"
                            /\ pc[u] = "ended" => pc'[u] = "ended"
  BY <1>1, Moved DEF Places
<1>3. w \in Live /\ w \in started
  BY <1>1 DEF Live, Lifecycle
<1>4. Types'
  BY <1>1, <1>2, <1>3 DEF Types
<1>5. Lifecycle'
  BY <1>1, <1>2, <1>3 DEF Lifecycle
<1>6. JoinedOrGone'
  BY <1>1, <1>2, <1>3 DEF JoinedOrGone
<1>7. RightHalf'
  BY <1>1, <1>2, <1>3 DEF RightHalf
<1>8. DistinctIds'
  BY <1>1, <1>2, <1>3 DEF DistinctIds
<1>9. OnlyMainCreates'
  BY <1>1, <1>2, <1>3 DEF OnlyMainCreates
<1>10. OneLive'
  BY <1>1, <1>2, <1>3 DEF OneLive, Live, Alone
<1> QED BY <1>4, <1>5, <1>6, <1>7, <1>8, <1>9, <1>10

(* The thread ends, *)
LEMMA EndStep == ASSUME Inv, NEW w \in Workers, End(w) \/ Cancelled(w) PROVE Inv'
<1> USE Names DEF Inv, WorkersIInv
<1>1. /\ pc[w] \in {"code", "joining"}
      /\ pc' = [pc EXCEPT ![w] = "ended"]
      /\ UNCHANGED <<rules, isMainThread, currentId, nextId, parentPort, workerData,
                     creator, id, started, terminated, arg, half>>
  BY DEF End, Cancelled, InCode, Goto, globals, objects
<1>2. /\ pc' \in [Threads -> Places] /\ pc'[w] = "ended" /\ Live' \subseteq Live
      /\ \A u \in Threads : /\ u # w => pc'[u] = pc[u]
                            /\ pc[u] = "none" <=> pc'[u] = "none"
                            /\ pc[u] = "ended" => pc'[u] = "ended"
  BY <1>1, Moved DEF Places
<1>3. w \in Live
  BY <1>1 DEF Live
<1>4. Types'
  BY <1>1, <1>2, <1>3 DEF Types
<1>5. Lifecycle'
  BY <1>1, <1>2, <1>3 DEF Lifecycle
<1>6. JoinedOrGone'
  BY <1>1, <1>2, <1>3 DEF JoinedOrGone
<1>7. RightHalf'
  BY <1>1, <1>2, <1>3 DEF RightHalf
<1>8. DistinctIds'
  BY <1>1, <1>2, <1>3 DEF DistinctIds
<1>9. OnlyMainCreates'
  BY <1>1, <1>2, <1>3 DEF OnlyMainCreates
<1>10. OneLive'
  BY <1>1, <1>2, <1>3 DEF OneLive, Live, Alone
<1> QED BY <1>4, <1>5, <1>6, <1>7, <1>8, <1>9, <1>10

(* is terminated, *)
LEMMA TerminateStep == ASSUME Inv, NEW t \in Threads, NEW w \in Workers, Terminate(t, w) PROVE Inv'
<1> USE Names DEF Inv, WorkersIInv
<1>1. /\ pc[t] = "code" /\ creator[w] = t /\ w \in started \ terminated
      /\ terminated' = terminated \cup {w}
      /\ arg' = [arg EXCEPT ![t] = w]
      /\ pc' = [pc EXCEPT ![t] = "joining"]
      /\ UNCHANGED <<rules, isMainThread, currentId, nextId, parentPort, workerData,
                     creator, id, started, half>>
  BY DEF Terminate, InCode, Tested, Goto, globals
<1>2. /\ pc' \in [Threads -> Places] /\ pc'[t] = "joining" /\ Live' \subseteq Live
      /\ \A u \in Threads : /\ u # t => pc'[u] = pc[u]
                            /\ pc[u] = "none" <=> pc'[u] = "none"
                            /\ pc[u] = "ended" => pc'[u] = "ended"
  BY <1>1, Moved DEF Places
<1>3. /\ arg' \in [Threads -> Workers \cup (Workers \X Nat) \cup {Nothing}]
      /\ arg'[t] = w /\ \A u \in Threads : u # t => arg'[u] = arg[u]
  BY <1>1 DEF Types
<1>4. Types'
  BY <1>1, <1>2, <1>3 DEF Types
<1>5. Lifecycle'
  BY <1>1, <1>2, <1>3 DEF Lifecycle
<1>6. JoinedOrGone'
  BY <1>1, <1>2, <1>3 DEF JoinedOrGone
<1>7. RightHalf'
  BY <1>1, <1>2, <1>3 DEF RightHalf
<1>8. DistinctIds'
  BY <1>1, <1>2, <1>3 DEF DistinctIds
<1>9. OnlyMainCreates'
  BY <1>1, <1>2, <1>3 DEF OnlyMainCreates
<1>10. OneLive'
  BY <1>1, <1>2, <1>3 DEF OneLive, Live, Alone
<1> QED BY <1>4, <1>5, <1>6, <1>7, <1>8, <1>9, <1>10

(* and its creator has waited for it. *)
LEMMA JoinStep == ASSUME Inv, NEW t \in Threads, Join(t) PROVE Inv'
<1> USE Names DEF Inv, WorkersIInv
<1>1. /\ pc[t] = "joining" /\ pc[arg[t]] = "ended"
      /\ pc' = [pc EXCEPT ![t] = "code"]
      /\ UNCHANGED <<rules, isMainThread, currentId, nextId, parentPort, workerData,
                     creator, id, started, terminated, arg, half>>
  BY DEF Join, Goto, globals, objects
<1>2. /\ pc' \in [Threads -> Places] /\ pc'[t] = "code" /\ Live' \subseteq Live
      /\ \A u \in Threads : /\ u # t => pc'[u] = pc[u]
                            /\ pc[u] = "none" <=> pc'[u] = "none"
                            /\ pc[u] = "ended" => pc'[u] = "ended"
  BY <1>1, Moved DEF Places
<1>3. arg[t] \in Workers /\ arg[t] # t
  BY <1>1 DEF Lifecycle
<1>4. Types'
  BY <1>1, <1>2, <1>3 DEF Types
<1>5. Lifecycle'
  BY <1>1, <1>2, <1>3 DEF Lifecycle
<1>6. JoinedOrGone'
  BY <1>1, <1>2, <1>3 DEF JoinedOrGone
<1>7. RightHalf'
  BY <1>1, <1>2, <1>3 DEF RightHalf
<1>8. DistinctIds'
  BY <1>1, <1>2, <1>3 DEF DistinctIds
<1>9. OnlyMainCreates'
  BY <1>1, <1>2, <1>3 DEF OnlyMainCreates
<1>10. OneLive'
  BY <1>1, <1>2, <1>3 DEF OneLive, Live, Alone
<1> QED BY <1>4, <1>5, <1>6, <1>7, <1>8, <1>9, <1>10

(* The getter of parentPort finds no port, *)
LEMMA GetParentPortStep == ASSUME Inv, NEW t \in Threads, GetParentPort(t), parentPort = Nothing PROVE Inv'
<1> USE Names DEF Inv, WorkersIInv
<1>1. /\ pc[t] = "code"
      /\ ("keepsOut" \in rules => t # Main)
      /\ parentPort = Nothing
      /\ pc' = [pc EXCEPT ![t] = "newPort"]
      /\ UNCHANGED <<rules, isMainThread, currentId, nextId, parentPort, workerData,
                     creator, id, started, terminated, arg, half>>
  BY DEF GetParentPort, InCode, Tested, Goto, globals, objects
<1>2. /\ pc' \in [Threads -> Places] /\ pc'[t] = "newPort" /\ Live' \subseteq Live
      /\ \A u \in Threads : /\ u # t => pc'[u] = pc[u]
                            /\ pc[u] = "none" <=> pc'[u] = "none"
                            /\ pc[u] = "ended" => pc'[u] = "ended"
  BY <1>1, Moved DEF Places
<1>3. ~Alone
  BY <1>1 DEF Alone, OneLive, Live
<1>4. Types'
  BY <1>1, <1>2, <1>3 DEF Types
<1>5. Lifecycle'
  BY <1>1, <1>2, <1>3 DEF Lifecycle
<1>6. JoinedOrGone'
  BY <1>1, <1>2, <1>3 DEF JoinedOrGone
<1>7. RightHalf'
  BY <1>1, <1>2, <1>3 DEF RightHalf
<1>8. DistinctIds'
  BY <1>1, <1>2, <1>3 DEF DistinctIds
<1>9. OnlyMainCreates'
  BY <1>1, <1>2, <1>3 DEF OnlyMainCreates
<1>10. OneLive'
  BY <1>1, <1>2, <1>3 DEF OneLive, Live, Alone
<1> QED BY <1>4, <1>5, <1>6, <1>7, <1>8, <1>9, <1>10

(* makes one, *)
LEMMA NewPortStep == ASSUME Inv, NEW t \in Threads, NewPort(t) PROVE Inv'
<1> USE Names DEF Inv, WorkersIInv
<1>1. /\ pc[t] = "newPort"
      /\ parentPort' = <<"getter", t>>
      /\ pc' = [pc EXCEPT ![t] = "gotPort"]
      /\ UNCHANGED <<rules, isMainThread, currentId, nextId, workerData, creator, id,
                     started, terminated, arg, half>>
  BY DEF NewPort, Goto, objects
<1>2. /\ pc' \in [Threads -> Places] /\ pc'[t] = "gotPort" /\ Live' \subseteq Live
      /\ \A u \in Threads : /\ u # t => pc'[u] = pc[u]
                            /\ pc[u] = "none" <=> pc'[u] = "none"
                            /\ pc[u] = "ended" => pc'[u] = "ended"
  BY <1>1, Moved DEF Places
<1>3. ~Alone
  BY <1>1 DEF OneLive
<1>4. Types'
  BY <1>1, <1>2, <1>3 DEF Types
<1>5. Lifecycle'
  BY <1>1, <1>2, <1>3 DEF Lifecycle
<1>6. JoinedOrGone'
  BY <1>1, <1>2, <1>3 DEF JoinedOrGone
<1>7. RightHalf'
  BY <1>1, <1>2, <1>3 DEF RightHalf
<1>8. DistinctIds'
  BY <1>1, <1>2, <1>3 DEF DistinctIds
<1>9. OnlyMainCreates'
  BY <1>1, <1>2, <1>3 DEF OnlyMainCreates
<1>10. OneLive'
  BY <1>1, <1>2, <1>3 DEF OneLive, Live, Alone
<1> QED BY <1>4, <1>5, <1>6, <1>7, <1>8, <1>9, <1>10

(* and returns it. *)
LEMMA ReturnPortStep == ASSUME Inv, NEW t \in Threads, ReturnPort(t) PROVE Inv'
<1> USE Names DEF Inv, WorkersIInv
<1>1. /\ pc[t] = "gotPort"
      /\ pc' = [pc EXCEPT ![t] = "code"]
      /\ UNCHANGED <<rules, isMainThread, currentId, nextId, parentPort, workerData,
                     creator, id, started, terminated, arg, half>>
  BY DEF ReturnPort, Goto, globals, objects
<1>2. /\ pc' \in [Threads -> Places] /\ pc'[t] = "code" /\ Live' \subseteq Live
      /\ \A u \in Threads : /\ u # t => pc'[u] = pc[u]
                            /\ pc[u] = "none" <=> pc'[u] = "none"
                            /\ pc[u] = "ended" => pc'[u] = "ended"
  BY <1>1, Moved DEF Places
<1>3. ~Alone
  BY <1>1 DEF OneLive
<1>4. Types'
  BY <1>1, <1>2, <1>3 DEF Types
<1>5. Lifecycle'
  BY <1>1, <1>2, <1>3 DEF Lifecycle
<1>6. JoinedOrGone'
  BY <1>1, <1>2, <1>3 DEF JoinedOrGone
<1>7. RightHalf'
  BY <1>1, <1>2, <1>3 DEF RightHalf
<1>8. DistinctIds'
  BY <1>1, <1>2, <1>3 DEF DistinctIds
<1>9. OnlyMainCreates'
  BY <1>1, <1>2, <1>3 DEF OnlyMainCreates
<1>10. OneLive'
  BY <1>1, <1>2, <1>3 DEF OneLive, Live, Alone
<1> QED BY <1>4, <1>5, <1>6, <1>7, <1>8, <1>9, <1>10

(* main() returns. *)
LEMMA ExitStep == ASSUME Inv, Exit PROVE Inv'
<1> USE Names DEF Inv, WorkersIInv
<1>1. /\ pc[Main] = "code"
      /\ pc' = [pc EXCEPT ![Main] = "exit"]
      /\ UNCHANGED <<rules, isMainThread, currentId, nextId, parentPort, workerData,
                     creator, id, started, terminated, arg, half>>
  BY DEF Exit, InCode, Goto, globals, objects
<1>2. /\ pc' \in [Threads -> Places] /\ pc'[Main] = "exit" /\ Live' \subseteq Live
      /\ \A u \in Threads : /\ u # Main => pc'[u] = pc[u]
                            /\ pc[u] = "none" <=> pc'[u] = "none"
                            /\ pc[u] = "ended" => pc'[u] = "ended"
  BY <1>1, Moved DEF Places
<1>3. Types'
  BY <1>1, <1>2 DEF Types
<1>4. Lifecycle'
  BY <1>1, <1>2 DEF Lifecycle
<1>5. JoinedOrGone'
  BY <1>1, <1>2 DEF JoinedOrGone
<1>6. RightHalf'
  BY <1>1, <1>2 DEF RightHalf
<1>7. DistinctIds'
  BY <1>1, <1>2 DEF DistinctIds
<1>8. OnlyMainCreates'
  BY <1>1, <1>2 DEF OnlyMainCreates
<1>9. OneLive'
  BY <1>1, <1>2 DEF OneLive, Live, Alone
<1> QED BY <1>3, <1>4, <1>5, <1>6, <1>7, <1>8, <1>9

-----------------------------------------------------------------------------
(* The theorems *)

(* every step keeps it, *)
LEMMA InvStep == Inv /\ [Next]_vars => Inv'
<1> SUFFICES ASSUME Inv, [Next]_vars PROVE Inv'
  OBVIOUS
<1>1. CASE UNCHANGED vars \/ Quiet
  <2>1. UNCHANGED identityVars
    BY <1>1 DEF vars, globals, objects, identityVars, Quiet
  <2> QED BY <2>1, QuietStep
<1>2. ASSUME NEW t \in Threads, GetParentPort(t) PROVE Inv'
  <2>1. CASE parentPort = Nothing
    BY <1>2, <2>1, GetParentPortStep
  <2>2. CASE parentPort # Nothing
    <3>1. UNCHANGED identityVars
      BY <1>2, <2>2 DEF GetParentPort, globals, objects, identityVars
    <3> QED BY <3>1, QuietStep
  <2> QED BY <2>1, <2>2
<1>3. ASSUME NEW t \in Threads, Receive(t) \/ \E m \in Messages : Post(t, m) PROVE Inv'
  <2>1. UNCHANGED identityVars
    BY <1>3 DEF Receive, Post, globals, objects, identityVars
  <2> QED BY <2>1, QuietStep
<1>4. ASSUME NEW t \in Threads,
             TestMain(t) \/ FinishCreate(t) \/ Join(t) \/ Getter(t)
      PROVE  Inv'
  BY <1>4, TestMainStep, FinishCreateStep, JoinStep, NewPortStep, ReturnPortStep DEF Getter
<1>5. ASSUME NEW t \in Threads, NEW w \in Workers, Create(t, w) \/ Start(t, w) \/ Terminate(t, w)
      PROVE  Inv'
  BY <1>5, CreateStep, StartStep, TerminateStep
<1>6. ASSUME NEW w \in Workers, Setup(w) PROVE Inv'
  BY <1>6, SetMainStep, SetIdStep, SetPortStep, SetDataStep DEF Setup
<1>7. ASSUME NEW w \in Workers, End(w) \/ Cancelled(w) PROVE Inv'
  BY <1>7, EndStep
<1>8. CASE Exit
  BY <1>8, ExitStep
<1> QED BY <1>1, <1>2, <1>3, <1>4, <1>5, <1>6, <1>7, <1>8 DEF Next

(* so it holds always. *)
LEMMA Always == Spec => []Inv
<1> QED BY InitInv, InvStep, PTL DEF Spec

-----------------------------------------------------------------------------
(* Types *)

Rest ==
  /\ rules \in Programs /\ currentId \in Nat
  /\ parentPort \in Ports \cup {Nothing} /\ workerData \in Workers \cup {Nothing}
  /\ held \in [Threads -> Ports \cup {Nothing}]
  /\ cancel \subseteq terminated

Queues ==
  /\ inbox \in [Ports -> Seq(Messages)] /\ posted \in [Ports -> Seq(Messages)]
  /\ received \in [Threads -> Seq((Messages \ Nulls) \cup {Nothing})]

(* The ports of the workers, and those the getter may install. *)
LEMMA PortNames ==
  /\ \A w \in Workers : PortOf(w) \in Ports
  /\ \A t \in Threads : <<"getter", t>> \in Ports
BY DEF Ports, PortOf

(* A worker object that is made counts one more. *)
LEMMA CreatedFacts ==
  ASSUME Inv
  PROVE  /\ IsFiniteSet(Created) /\ Cardinality(Created) \in Nat
         /\ Cardinality(Workers) \in Nat /\ Cardinality(Created) <= Cardinality(Workers)
         /\ \A w \in Workers, t \in Threads :
              creator[w] = Nothing /\ creator' = [creator EXCEPT ![w] = t] =>
                Cardinality(Created)' = Cardinality(Created) + 1
<1>1. IsFiniteSet(Workers) /\ Created \in SUBSET Workers
  BY WorkersAssumption DEF Created
<1>2. /\ IsFiniteSet(Created) /\ Cardinality(Created) \in Nat
      /\ Cardinality(Workers) \in Nat /\ Cardinality(Created) <= Cardinality(Workers)
  BY <1>1, FS_Subset, FS_CardinalityType
<1>3. ASSUME NEW w \in Workers, NEW t \in Threads, creator[w] = Nothing,
             creator' = [creator EXCEPT ![w] = t]
      PROVE  Cardinality(Created)' = Cardinality(Created) + 1
  <2>1. creator'[w] = t /\ t # Nothing /\ \A v \in Workers : v # w => creator'[v] = creator[v]
    BY <1>3, Names DEF Inv, Types
  <2>2. Created' = Created \cup {w} /\ w \notin Created
    BY <1>3, <2>1 DEF Created
  <2>3. Cardinality(Created \cup {w}) = Cardinality(Created) + 1
    BY <1>2, <2>2, FS_AddElement
  <2> QED BY <2>2, <2>3
<1> QED BY <1>2, <1>3

(* A number is stored in nextId, an object or currentId only after it was counted. *)
LEMMA NumberedStep ==
  ASSUME Inv, Inv', Rest, Numbered, [Next]_vars
  PROVE  Numbered'
<1> DEFINE n == Cardinality(Created)
<1>1. n \in Nat /\ nextId \in Nat /\ currentId \in Nat
      /\ id \in [Workers -> Nat] /\ pc \in [Threads -> Places]
  BY CreatedFacts DEF Inv, Types, Rest
<1>2. /\ nextId <= n + 1 /\ currentId <= n
      /\ \A w \in Workers : id[w] <= n
      /\ \A t \in Threads : pc[t] = "create" => arg[t][2] <= n
  BY DEF Numbered
<1>3. ASSUME NEW t \in Threads, NEW w \in Workers, Create(t, w) PROVE Numbered'
  <2>1. /\ creator[w] = Nothing /\ creator' = [creator EXCEPT ![w] = t]
        /\ arg' = [arg EXCEPT ![t] = <<w, nextId>>] /\ pc' = [pc EXCEPT ![t] = "create"]
        /\ UNCHANGED <<nextId, currentId, id>>
    BY <1>3 DEF Create, Goto, globals
  <2>2. Cardinality(Created)' = n + 1
    BY <2>1, CreatedFacts
  <2>3. arg'[t] = <<w, nextId>> /\ \A u \in Threads : u # t => arg'[u] = arg[u] /\ pc'[u] = pc[u]
    BY <2>1 DEF Inv, Types
  <2>4. \A u \in Threads : pc'[u] = "create" => arg'[u][2] <= n + 1
    <3> TAKE u \in Threads
    <3>1. CASE u = t
      <4>1. arg'[u][2] = nextId
        BY <2>3, <3>1
      <4> QED BY <1>2, <4>1
    <3>2. CASE u # t
      <4> SUFFICES ASSUME pc[u] = "create" PROVE arg[u][2] <= n + 1
        BY <2>3, <3>2
      <4>1. arg[u] \in Workers \X Nat /\ arg[u][2] <= n
        BY <1>2 DEF Inv, WorkersIInv, Lifecycle
      <4> QED BY <1>1, <4>1
    <3> QED BY <3>1, <3>2
  <2>5. \A v \in Workers : id[v] <= n + 1
    <3> TAKE v \in Workers
    <3>1. id[v] \in Nat /\ id[v] <= n
      BY <1>1, <1>2
    <3> QED BY <1>1, <3>1
  <2> HIDE DEF n
  <2>6. nextId' <= n + 1 + 1 /\ currentId' <= n + 1
    BY <1>1, <1>2, <2>1
  <2> QED BY <2>1, <2>2, <2>4, <2>5, <2>6 DEF Numbered
<1>4. ASSUME NEW t \in Threads, FinishCreate(t) PROVE Numbered'
  <2>1. /\ pc[t] = "create" /\ id' = [id EXCEPT ![arg[t][1]] = arg[t][2]] /\ nextId' = arg[t][2] + 1
        /\ arg' = [arg EXCEPT ![t] = Nothing] /\ pc' = [pc EXCEPT ![t] = "code"]
        /\ UNCHANGED <<creator, currentId>>
    BY <1>4 DEF FinishCreate, Goto
  <2>2. arg[t] \in Workers \X Nat /\ arg[t][2] <= n /\ arg[t][2] \in Nat /\ arg[t][1] \in Workers
    BY <1>2, <2>1 DEF Inv, WorkersIInv, Lifecycle
  <2>3. Created' = Created
    BY <2>1 DEF Created
  <2>4. \A u \in Threads : pc'[u] = "create" => pc[u] = "create" /\ arg'[u] = arg[u]
    BY <1>1, <2>1 DEF Inv, Types
  <2>5. \A w \in Workers : id'[w] <= n
    BY <1>1, <1>2, <2>1, <2>2
  <2> HIDE DEF n
  <2>6. nextId' <= n + 1
    BY <1>1, <2>1, <2>2
  <2> QED BY <1>2, <2>1, <2>3, <2>4, <2>5, <2>6 DEF Numbered, n
<1>5. ASSUME NEW w \in Workers, SetId(w) PROVE Numbered'
  <2>1. /\ currentId' = id[w] /\ UNCHANGED <<creator, nextId, id, arg>>
        /\ pc' = [pc EXCEPT ![w] = "setPort"]
    BY <1>5 DEF SetId, Goto, objects
  <2>2. Created' = Created /\ \A t \in Threads : pc'[t] = "create" => pc[t] = "create"
    BY <1>1, <2>1, Names DEF Created
  <2> QED BY <1>2, <2>1, <2>2 DEF Numbered
<1>6. ASSUME UNCHANGED <<creator, nextId, currentId, id>>,
             \A t \in Threads : pc'[t] = "create" => pc[t] = "create" /\ arg'[t] = arg[t]
      PROVE  Numbered'
  <2>1. Created' = Created
    BY <1>6 DEF Created
  <2> QED BY <1>2, <1>6, <2>1 DEF Numbered
<1>7. ASSUME NEW t \in Threads, NEW x \in Places \ {"create"}, pc' = [pc EXCEPT ![t] = x],
             UNCHANGED <<creator, nextId, currentId, id>>,
             UNCHANGED arg \/ \E w : arg' = [arg EXCEPT ![t] = w]
      PROVE  Numbered'
  <2>1. \A u \in Threads : pc'[u] = "create" => u # t /\ pc[u] = "create"
    BY <1>1, <1>7
  <2>2. \A u \in Threads : u # t => arg'[u] = arg[u]
    BY <1>7 DEF Inv, Types
  <2> QED BY <1>6, <1>7, <2>1, <2>2
<1> USE Names
<1>8. ASSUME NEW w \in Workers, SetMain(w) \/ SetPort(w) \/ SetData(w) PROVE Numbered'
  BY <1>7, <1>8 DEF SetMain, SetPort, SetData, Goto, objects, Places
<1>9. ASSUME NEW w \in Workers, End(w) \/ Cancelled(w) PROVE Numbered'
  BY <1>7, <1>9 DEF End, Cancelled, Goto, globals, objects, Places
<1>10. ASSUME NEW t \in Threads, NEW w \in Workers, Start(t, w) \/ Terminate(t, w) PROVE Numbered'
  <2>1. CASE Start(t, w)
    BY <1>7, <2>1 DEF Start, Goto, globals, Places
  <2>2. CASE Terminate(t, w)
    BY <1>7, <2>2 DEF Terminate, Goto, globals, Places
  <2> QED BY <1>10, <2>1, <2>2
<1>11. ASSUME NEW t \in Threads, Join(t) \/ NewPort(t) \/ ReturnPort(t) PROVE Numbered'
  BY <1>7, <1>11 DEF Join, NewPort, ReturnPort, Goto, globals, objects, Places
<1>12. ASSUME NEW t \in Threads, GetParentPort(t) PROVE Numbered'
  <2>1. UNCHANGED <<creator, nextId, currentId, id, arg>>
    BY <1>12 DEF GetParentPort, globals, objects
  <2>2. pc' = pc \/ pc' = [pc EXCEPT ![t] = "newPort"]
    BY <1>12 DEF GetParentPort, Goto
  <2> QED BY <1>6, <1>7, <2>1, <2>2 DEF Places
<1>13. CASE Exit
  BY <1>7, <1>13 DEF Exit, Goto, globals, objects, Places
<1>14. ASSUME NEW t \in Threads, TestMain(t) \/ Receive(t) \/ \E m \in Messages : Post(t, m)
       PROVE  Numbered'
  BY <1>6, <1>14 DEF TestMain, Receive, Post, globals, objects
<1>15. CASE Quiet \/ UNCHANGED vars
  BY <1>6, <1>15 DEF Quiet, vars, globals, objects
<1> QED BY <1>3, <1>4, <1>5, <1>8, <1>9, <1>10, <1>11, <1>12, <1>13, <1>14, <1>15
        DEF Next, Setup, Getter

(* Every step keeps what is known of the ids and of termination, *)
LEMMA RestStep ==
  ASSUME Inv, Inv', Rest, [Next]_vars
  PROVE  Rest'
<1> USE Names, PortNames DEF Rest
<1>1. ASSUME NEW t \in Threads, NEW w \in Workers, Create(t, w) \/ Start(t, w) PROVE Rest'
  BY <1>1 DEF Create, Start, globals
<1>2. ASSUME NEW t \in Threads, NEW w \in Workers, Terminate(t, w) PROVE Rest'
  BY <1>2 DEF Terminate, globals
<1>3. ASSUME NEW t \in Threads, FinishCreate(t) \/ Join(t) \/ TestMain(t) PROVE Rest'
  BY <1>3 DEF FinishCreate, Join, TestMain, globals, objects
<1>4. ASSUME NEW t \in Threads, Receive(t) \/ \E m \in Messages : Post(t, m) PROVE Rest'
  BY <1>4 DEF Receive, Post, globals, objects
<1>5. ASSUME NEW t \in Threads, GetParentPort(t) \/ ReturnPort(t) PROVE Rest'
  <2>1. /\ UNCHANGED <<rules, currentId, parentPort, workerData, cancel, terminated>>
        /\ UNCHANGED held \/ held' = [held EXCEPT ![t] = parentPort]
    BY <1>5 DEF GetParentPort, ReturnPort, globals, objects
  <2> QED BY <2>1
<1>6. ASSUME NEW t \in Threads, NewPort(t) PROVE Rest'
  BY <1>6 DEF NewPort, objects
<1>7. ASSUME NEW w \in Workers, Setup(w) PROVE Rest'
  <2>1. id[w] \in Nat
    BY DEF Inv, Types
  <2> QED BY <1>7, <2>1 DEF Setup, SetMain, SetId, SetPort, SetData, objects
<1>8. ASSUME NEW w \in Workers, End(w) \/ Cancelled(w) PROVE Rest'
  BY <1>8 DEF End, Cancelled, globals, objects
<1>9. CASE Exit \/ Quiet \/ UNCHANGED vars
  BY <1>9 DEF Exit, Quiet, vars, globals, objects
<1> QED BY <1>1, <1>2, <1>3, <1>4, <1>5, <1>6, <1>7, <1>8, <1>9 DEF Next, Getter

-----------------------------------------------------------------------------
(* Messages *)

Answered == (Messages \ Nulls) \cup {Nothing}

(* What is appended to the first part may as well be put before the second. *)
LEMMA AppendConcat ==
  ASSUME NEW S, NEW r \in Seq(S), NEW h \in S, NEW y \in Seq(S), NEW z \in Seq(S),
         Len(z) = Len(y) + 1, z[1] = h, \A i \in 1..Len(y) : z[i + 1] = y[i]
  PROVE  Append(r, h) \o y = r \o z
<1> DEFINE a == Append(r, h)
           b == a \o y
           c == r \o z
           k == Len(r)
           n == Len(y)
<1>1. /\ a \in Seq(S) /\ Len(a) = k + 1 /\ a[k + 1] = h /\ k \in Nat /\ n \in Nat
      /\ \A i \in 1..k : a[i] = r[i]
  OBVIOUS
<1>2. /\ b \in Seq(S) /\ Len(b) = Len(a) + n
      /\ \A i \in 1..Len(a) + n : b[i] = IF i <= Len(a) THEN a[i] ELSE y[i - Len(a)]
  <2> HIDE DEF a
  <2> QED BY <1>1, ConcatProperties
<1>3. /\ c \in Seq(S) /\ Len(c) = k + Len(z)
      /\ \A i \in 1..k + Len(z) : c[i] = IF i <= k THEN r[i] ELSE z[i - k]
  BY ConcatProperties
<1>4. n = Len(y) /\ \A i \in 1..n : z[i + 1] = y[i]
  OBVIOUS
<1> HIDE DEF a, b, c, k, n
<1>5. /\ Len(b) = k + 1 + n /\ Len(c) = k + 1 + n
      /\ \A i \in 1..k + 1 + n : b[i] = IF i <= k + 1 THEN a[i] ELSE y[i - (k + 1)]
      /\ \A i \in 1..k + 1 + n : c[i] = IF i <= k THEN r[i] ELSE z[i - k]
  <2>1. Len(a) + n = k + 1 + n /\ k + Len(z) = k + 1 + n
    BY <1>1, <1>4
  <2>2. /\ Len(b) = k + 1 + n
        /\ \A i \in 1..k + 1 + n : b[i] = IF i <= k + 1 THEN a[i] ELSE y[i - (k + 1)]
    BY <1>1, <1>2, <2>1
  <2>3. /\ Len(c) = k + 1 + n
        /\ \A i \in 1..k + 1 + n : c[i] = IF i <= k THEN r[i] ELSE z[i - k]
    BY <1>3, <2>1
  <2> QED BY <2>2, <2>3
<1>6. ASSUME NEW i \in 1..Len(b) PROVE b[i] = c[i]
  <2>1. i \in 1..k + 1 + n
    BY <1>5
  <2>2. CASE i <= k
    <3>1. i \in 1..k /\ i <= k + 1
      BY <1>1, <2>1, <2>2
    <3> QED BY <1>1, <1>5, <2>1, <2>2, <3>1
  <2>3. CASE i = k + 1
    <3>1. ~(i <= k) /\ i <= k + 1 /\ i - k = 1
      BY <1>1, <2>3
    <3> QED BY <1>1, <1>5, <2>1, <2>3, <3>1
  <2>4. CASE i > k + 1
    <3> DEFINE j == i - (k + 1)
    <3>1. j \in 1..n /\ i - k = j + 1 /\ ~(i <= k) /\ ~(i <= k + 1)
      BY <1>1, <2>1, <2>4
    <3>2. b[i] = y[j]
      BY <1>5, <2>1, <3>1
    <3> HIDE DEF j
    <3> QED BY <1>4, <1>5, <2>1, <3>1, <3>2
  <2> QED BY <1>1, <2>1, <2>2, <2>3, <2>4
<1>7. b = c
  BY <1>2, <1>3, <1>5, <1>6, SeqEqual
<1> QED BY <1>7 DEF a, b, c

(* What a receiver is told of a queue with one message more, or less. *)
LEMMA AnswersFacts ==
  ASSUME NEW s \in Seq(Messages)
  PROVE  /\ Answers(s) \in Seq(Answered)
         /\ \A m \in Messages : Answers(Append(s, m)) = Append(Answers(s), Answer(m))
         /\ s # <<>> => /\ Answer(Head(s)) \in Answered
                        /\ \A r \in Seq(Answered) :
                             Append(r, Answer(Head(s))) \o Answers(Tail(s)) = r \o Answers(s)
<1>1. \A m \in Messages : Answer(m) \in Answered
  BY DEF Answer, Answered
<1>2. ASSUME NEW u \in Seq(Messages)
      PROVE  /\ Answers(u) \in Seq(Answered) /\ Len(Answers(u)) = Len(u)
             /\ \A i \in 1..Len(u) : Answers(u)[i] = Answer(u[i])
  <2>1. DOMAIN u = 1..Len(u) /\ Len(u) \in Nat /\ \A i \in 1..Len(u) : u[i] \in Messages
    OBVIOUS
  <2>2. Answers(u) = [i \in 1..Len(u) |-> Answer(u[i])]
    BY <2>1 DEF Answers
  <2>3. \A i \in 1..Len(u) : Answer(u[i]) \in Answered
    BY <1>1, <2>1
  <2>4. Answers(u) \in [1..Len(u) -> Answered]
    <3> HIDE DEF Answered
    <3> QED BY <2>2, <2>3
  <2> HIDE DEF Answered
  <2> QED BY <2>1, <2>2, <2>4
<1> HIDE DEF Answered
<1>3. ASSUME NEW m \in Messages PROVE Answers(Append(s, m)) = Append(Answers(s), Answer(m))
  <2> DEFINE u == Append(s, m)
             v == Append(Answers(s), Answer(m))
             n == Len(s)
  <2>1. /\ u \in Seq(Messages) /\ Len(u) = n + 1 /\ u[n + 1] = m /\ n \in Nat
        /\ \A i \in 1..n : u[i] = s[i]
    OBVIOUS
  <2>2. /\ v \in Seq(Answered) /\ Len(v) = n + 1 /\ v[n + 1] = Answer(m)
        /\ \A i \in 1..n : v[i] = Answer(s[i])
    BY <1>1, <1>2
  <2> HIDE DEF u, v, n
  <2>3. /\ Answers(u) \in Seq(Answered) /\ Len(Answers(u)) = n + 1
        /\ \A i \in 1..n + 1 : Answers(u)[i] = Answer(u[i])
    BY <1>2, <2>1
  <2>4. \A i \in 1..n + 1 : i \in 1..n \/ i = n + 1
    BY <2>1
  <2>5. \A i \in 1..n + 1 : Answers(u)[i] = v[i]
    BY <2>1, <2>2, <2>3, <2>4
  <2>6. Answers(u) = v
    BY <2>2, <2>3, <2>5, SeqEqual
  <2> QED BY <2>6 DEF u, v
<1>4. ASSUME s # <<>>, NEW r \in Seq(Answered)
      PROVE  /\ Answer(Head(s)) \in Answered
             /\ Append(r, Answer(Head(s))) \o Answers(Tail(s)) = r \o Answers(s)
  <2> DEFINE u == Tail(s)
             h == Answer(Head(s))
             n == Len(u)
             k == Len(r)
  <2>1. /\ Head(s) \in Messages /\ Head(s) = s[1] /\ u \in Seq(Messages) /\ n \in Nat
        /\ Len(s) = n + 1 /\ k \in Nat
        /\ \A i \in 1..n : u[i] = s[i + 1]
    BY <1>4
  <2>2. h \in Answered /\ h = Answer(s[1])
    BY <1>1, <2>1
  <2> HIDE DEF u, h, n
  <2>3. Answers(u) \in Seq(Answered) /\ Len(Answers(u)) = n
        /\ \A i \in 1..n : Answers(u)[i] = Answer(s[i + 1])
    BY <1>2, <2>1 DEF n
  <2>4. /\ Answers(s) \in Seq(Answered) /\ Len(Answers(s)) = n + 1
        /\ \A i \in 1..n + 1 : Answers(s)[i] = Answer(s[i])
    BY <1>2, <2>1
  <2> DEFINE y == Answers(u)
             z == Answers(s)
  <2>5. /\ y \in Seq(Answered) /\ z \in Seq(Answered) /\ Len(z) = Len(y) + 1 /\ z[1] = h
        /\ \A i \in 1..Len(y) : z[i + 1] = y[i]
    <3>1. 1 \in 1..n + 1 /\ \A i \in 1..n : i + 1 \in 1..n + 1
      BY <2>1
    <3> QED BY <2>2, <2>3, <2>4, <3>1
  <2> HIDE DEF y, z
  <2>6. Append(r, h) \o y = r \o z
    BY <2>2, <2>5, AppendConcat
  <2> QED BY <2>2, <2>6 DEF y, z, u, h
<1> QED BY <1>2, <1>3, <1>4

Mail == Queues /\ OwnPort /\ MessagesReachTheirWorker

(* mq_push: at the end of the queue. *)
LEMMA PostMail ==
  ASSUME Inv, Rest, Mail, NEW t \in Threads, NEW m \in Messages, Post(t, m)
  PROVE  Mail'
<1>1. UNCHANGED <<rules, held, received>>
  BY DEF Post, Push
<1>2. PICK p \in Ports : /\ inbox' = [inbox EXCEPT ![p] = Append(@, m)]
                         /\ posted' = [posted EXCEPT ![p] = Append(@, m)]
  BY PortNames DEF Post, Push, Rest
<1>3. Queues'
  BY <1>1, <1>2 DEF Mail, Queues
<1>4. OwnPort'
  BY <1>1 DEF Mail, OwnPort, Alone
<1>5. MessagesReachTheirWorker'
  <2> SUFFICES ASSUME Alone, NEW w \in Workers
               PROVE  received[w] \o Answers(inbox'[PortOf(w)]) = Answers(posted'[PortOf(w)])
    BY <1>1 DEF MessagesReachTheirWorker, Alone, Answers, Answer
  <2> DEFINE in == inbox[PortOf(w)]
             all == posted[PortOf(w)]
  <2>1. received[w] \o Answers(in) = Answers(all)
    BY DEF Mail, MessagesReachTheirWorker
  <2>2. /\ in \in Seq(Messages) /\ all \in Seq(Messages)
        /\ received[w] \in Seq(Answered)
    BY Names, PortNames DEF Mail, Queues, Answered
  <2>3. CASE p = PortOf(w)
    <3>1. inbox'[PortOf(w)] = Append(in, m) /\ posted'[PortOf(w)] = Append(all, m)
      BY <1>2, <2>3 DEF Mail, Queues
    <3>2. /\ Answers(Append(in, m)) = Append(Answers(in), Answer(m)) /\ Answers(in) \in Seq(Answered)
          /\ Answers(Append(all, m)) = Append(Answers(all), Answer(m))
          /\ Answer(m) \in Answered
      <4> HIDE DEF in, all
      <4> QED BY <2>2, AnswersFacts DEF Answer, Answered
    <3>3. \A a, b \in Seq(Answered), x \in Answered : a \o Append(b, x) = Append(a \o b, x)
      OBVIOUS
    <3>4. received[w] \o Append(Answers(in), Answer(m)) = Append(Answers(all), Answer(m))
      <4> HIDE DEF in, all
      <4> QED BY <2>1, <2>2, <3>2, <3>3
    <3> QED BY <3>1, <3>2, <3>4, Zenon
  <2>4. CASE p # PortOf(w)
    <3>1. inbox'[PortOf(w)] = in /\ posted'[PortOf(w)] = all
      BY <1>2, <2>4, PortNames DEF Mail, Queues
    <3> QED BY <2>1, <3>1, Zenon
  <2> QED BY <2>3, <2>4
<1> QED BY <1>3, <1>4, <1>5 DEF Mail

(* mq_pop: from the front of the queue, and only the worker whose port it is. *)
LEMMA ReceiveMail ==
  ASSUME Inv, Rest, Mail, NEW t \in Threads, Receive(t)
  PROVE  Mail'
<1> DEFINE p == held[t]
           q == inbox[p]
<1>1. /\ p # Nothing /\ q # <<>>
      /\ inbox' = [inbox EXCEPT ![p] = Tail(@)]
      /\ received' = [received EXCEPT ![t] = Append(@, Answer(Head(q)))]
      /\ UNCHANGED <<rules, held, posted>>
  BY DEF Receive
<1>2. p \in Ports /\ q \in Seq(Messages) /\ received[t] \in Seq(Answered)
  BY <1>1 DEF Rest, Mail, Queues, Answered
<1> HIDE DEF p, q
<1>3. /\ Answer(Head(q)) \in Answered
      /\ \A r \in Seq(Answered) : Append(r, Answer(Head(q))) \o Answers(Tail(q)) = r \o Answers(q)
  BY <1>1, <1>2, AnswersFacts
<1>4. /\ inbox'[p] = Tail(q) /\ received'[t] = Append(received[t], Answer(Head(q)))
      /\ \A r \in Ports : r # p => inbox'[r] = inbox[r]
      /\ \A u \in Threads : u # t => received'[u] = received[u]
  BY <1>1, <1>2 DEF Mail, Queues, q
<1>5. Queues'
  <2>1. Tail(q) \in Seq(Messages)
    BY <1>1, <1>2
  <2>2. Append(received[t], Answer(Head(q))) \in Seq(Answered)
    BY <1>2, <1>3
  <2>3. inbox' \in [Ports -> Seq(Messages)]
    BY <1>1, <1>2, <2>1 DEF Mail, Queues, q
  <2>4. received' \in [Threads -> Seq(Answered)]
    BY <1>1, <2>2 DEF Mail, Queues, Answered
  <2> QED BY <1>1, <2>3, <2>4 DEF Mail, Queues, Answered
<1>6. OwnPort'
  BY <1>1 DEF Mail, OwnPort, Alone
<1>7. MessagesReachTheirWorker'
  <2> SUFFICES ASSUME Alone, NEW w \in Workers
               PROVE  received'[w] \o Answers(inbox'[PortOf(w)]) = Answers(posted[PortOf(w)])
    BY <1>1 DEF MessagesReachTheirWorker, Alone, Answers, Answer
  <2>1. received[w] \o Answers(inbox[PortOf(w)]) = Answers(posted[PortOf(w)])
    BY DEF Mail, MessagesReachTheirWorker
  <2>2. t \in Workers /\ p = PortOf(t)
    BY <1>1 DEF Mail, OwnPort, p
  <2>3. CASE w = t
    BY <1>2, <1>3, <1>4, <2>1, <2>2, <2>3 DEF q
  <2>4. CASE w # t
    <3>1. PortOf(w) # p /\ PortOf(w) \in Ports /\ w \in Threads
      BY <2>2, <2>4, Names, PortNames DEF PortOf
    <3> QED BY <1>4, <2>1, <2>4, <3>1
  <2> QED BY <2>3, <2>4
<1> QED BY <1>5, <1>6, <1>7 DEF Mail

(* and of messages; *)
LEMMA MailStep ==
  ASSUME Inv, Inv', Rest, Mail, [Next]_vars
  PROVE  Mail'
<1>1. ASSUME UNCHANGED <<rules, held, queues>> PROVE Mail'
  BY <1>1 DEF Mail, Queues, OwnPort, Alone, MessagesReachTheirWorker, Answers, Answer, queues
<1>2. ASSUME NEW t \in Threads, GetParentPort(t) PROVE Mail'
  <2>1. /\ pc[t] = "code" /\ ("keepsOut" \in rules => t # Main) /\ UNCHANGED <<rules, queues>>
        /\ held' = held \/ held' = [held EXCEPT ![t] = parentPort]
    BY <1>2 DEF GetParentPort, InCode
  <2>2. CASE held' = held
    BY <1>1, <2>1, <2>2
  <2>3. CASE held' = [held EXCEPT ![t] = parentPort]
    <3>1. Alone => t \in Workers /\ parentPort = PortOf(t)
      <4> SUFFICES ASSUME Alone PROVE t \in Workers /\ parentPort = PortOf(t)
        OBVIOUS
      <4>1. t \in Workers
        BY <2>1, Names DEF Alone
      <4> QED BY <2>1, <4>1 DEF Inv, WorkersIInv, OneLive, Live
    <3>2. OwnPort'
      BY <2>1, <2>3, <3>1 DEF Mail, OwnPort, Alone, Rest
    <3> QED BY <2>1, <3>2 DEF Mail, Queues, Alone, MessagesReachTheirWorker, Answers, Answer, queues
  <2> QED BY <2>1, <2>2, <2>3
<1>3. ASSUME NEW t \in Threads, ReturnPort(t) PROVE Mail'
  <2>1. pc[t] = "gotPort" /\ UNCHANGED <<rules, queues>> /\ held' = [held EXCEPT ![t] = parentPort]
    BY <1>3 DEF ReturnPort
  <2>2. ~Alone
    BY <2>1 DEF Inv, WorkersIInv, OneLive
  <2>3. OwnPort' /\ MessagesReachTheirWorker'
    BY <2>1, <2>2 DEF OwnPort, MessagesReachTheirWorker, Alone
  <2> QED BY <2>1, <2>3 DEF Mail, Queues, queues
<1>4. ASSUME NEW t \in Threads, TestMain(t) \/ FinishCreate(t) \/ Join(t) \/ NewPort(t) PROVE Mail'
  BY <1>1, <1>4 DEF TestMain, FinishCreate, Join, NewPort
<1>5. ASSUME NEW t \in Threads, NEW w \in Workers, Create(t, w) \/ Start(t, w) \/ Terminate(t, w)
      PROVE  Mail'
  BY <1>1, <1>5 DEF Create, Start, Terminate
<1>6. ASSUME NEW w \in Workers, Setup(w) \/ End(w) \/ Cancelled(w) PROVE Mail'
  BY <1>1, <1>6 DEF Setup, SetMain, SetId, SetPort, SetData, End, Cancelled
<1>7. CASE Exit \/ Quiet \/ UNCHANGED vars
  BY <1>1, <1>7 DEF Exit, Quiet, vars
<1> QED BY <1>2, <1>3, <1>4, <1>5, <1>6, <1>7, PostMail, ReceiveMail DEF Next, Getter

(* both hold in the first state. *)
LEMMA InitRest == Init => Rest /\ Numbered /\ Mail
<1> SUFFICES ASSUME Init PROVE Rest /\ Numbered /\ Mail
  OBVIOUS
<1> USE DEF Init
<1>1. Rest /\ Queues /\ OwnPort
  BY DEF Rest, Queues, OwnPort
<1>2. Created = {} /\ Cardinality({}) = 0
  BY FS_EmptySet DEF Created
<1>3. Numbered
  BY <1>2, Names DEF Numbered
<1>4. MessagesReachTheirWorker
  <2> SUFFICES ASSUME NEW w \in Workers
               PROVE  received[w] \o Answers(inbox[PortOf(w)]) = Answers(posted[PortOf(w)])
    BY DEF MessagesReachTheirWorker
  <2>1. received[w] = <<>> /\ inbox[PortOf(w)] = <<>> /\ posted[PortOf(w)] = <<>>
    BY Names, PortNames
  <2>2. Answers(<<>>) \in Seq(Answered)
    <3>1. <<>> \in Seq(Messages)
      OBVIOUS
    <3> QED BY <3>1, AnswersFacts
  <2>3. <<>> \o Answers(<<>>) = Answers(<<>>)
    <3> DEFINE a == Answers(<<>>)
    <3>1. a \in Seq(Answered)
      BY <2>2
    <3> HIDE DEF a
    <3>2. <<>> \o a = a
      BY <3>1
    <3> QED BY <3>2 DEF a
  <2> QED BY <2>1, <2>3
<1> QED BY <1>1, <1>3, <1>4 DEF Mail

-----------------------------------------------------------------------------
(* Theorems *)

(* When workers run one at a time and the main thread keeps out of parentPort, a
   worker's code finds its own values in the globals. *)
THEOREM WorkersKnowThemselves == Spec => []OwnIdentity
<1>1. Inv => OwnIdentity
  BY DEF Inv, WorkersIInv, OneLive, OnlyMainCreates, OwnIdentity, Executing, Live, Alone
<1> QED BY <1>1, Always, PTL

(* The main thread runs the part of a guarded entry function meant for it and no
   worker does, worker objects have different ids, what is posted to the port of a
   worker that runs alone reaches it in that order, and the thread of a worker is gone
   when terminate has returned. *)
THEOREM WorkersSafe == Spec => []WorkersInv
<1>1. ASSUME Inv, Rest, Numbered, Mail PROVE WorkersInv
  <2>1. TerminateStops
    BY <1>1 DEF Inv, WorkersIInv, JoinedOrGone, TerminateStops, Joined
  <2>2. /\ currentId \in 0..Cardinality(Workers) /\ nextId \in 1..Cardinality(Workers) + 1
        /\ id \in [Workers -> 0..Cardinality(Workers)]
    <3> DEFINE n == Cardinality(Created)
               m == Cardinality(Workers)
    <3>1. n \in Nat /\ m \in Nat /\ n <= m
      BY <1>1, CreatedFacts
    <3>2. /\ nextId <= n + 1 /\ currentId <= n
          /\ \A w \in Workers : id[w] <= n
      BY <1>1 DEF Numbered
    <3>3. nextId \in Nat /\ nextId >= 1 /\ currentId \in Nat /\ id \in [Workers -> Nat]
      BY <1>1 DEF Inv, Types, WorkersIInv, Lifecycle, Rest
    <3> HIDE DEF n, m
    <3>4. currentId \in 0..m /\ nextId \in 1..m + 1
      BY <3>1, <3>2, <3>3
    <3>5. \A w \in Workers : id[w] \in 0..m
      BY <3>1, <3>2, <3>3
    <3> QED BY <3>3, <3>4, <3>5 DEF m
  <2>3. TypeOK
    BY <1>1, <2>2 DEF TypeOK, Inv, Types, Rest, Mail, Queues, Places
  <2> QED BY <1>1, <2>1, <2>3 DEF WorkersInv, Inv, WorkersIInv, Mail
<1>2. Inv /\ Rest /\ Numbered /\ Mail /\ [Next]_vars => Rest' /\ Numbered' /\ Mail'
  BY InvStep, RestStep, NumberedStep, MailStep
<1> QED BY <1>1, <1>2, InitRest, Always, PTL DEF Spec

=============================================================================
