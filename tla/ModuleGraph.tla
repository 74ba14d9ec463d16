----------------------------- MODULE ModuleGraph -----------------------------
(***************************************************************************)
(* How the compiler orders the modules of a program, and the order in which *)
(* the program initialises them: the root files of parseTypeScript and the  *)
(* files the TypeScript program lists from them, detectCycles and topoSort  *)
(* of ModuleResolver, the choice of the entry in generateMainC, and the     *)
(* calls of the init functions in main().  A traversal is an explicit stack *)
(* of calls of its dfs.                                                     *)
(*                                                                          *)
(* What TypeScript follows and what buildGraph takes for imports differ.    *)
(* A module that re-exports another (`export {x} from`) has it in the       *)
(* program, but no import of it.  An import by a bare name ('commander')    *)
(* that resolves to a file of the project is an import, but TypeScript does *)
(* not follow it: the file is in the program if another names it by a path, *)
(* or if the scan of the entry's text finds the name and makes it a root.   *)
(***************************************************************************)
EXTENDS Naturals, Sequences, FiniteSets, SequencesExt

CONSTANTS Modules,
          Root,    \* the file given on the command line
          Programs \* values for names, imports and roots

ASSUME ModuleGraphAssumption ==
  /\ Root \in Modules
  /\ \A p \in Programs :
       /\ p.names \in [Modules -> Seq(Modules)] /\ p.imports \in [Modules -> Seq(Modules)]
       /\ p.roots \in Seq(Modules)

VARIABLES
  names,     \* what TypeScript follows: modules named by a path, in order (rigid)
  imports,   \* imports of a ModuleNode, by a path or a bare name (rigid)
  roots,     \* root files after the entry: those of types/ that are no
             \* declarations, and what the scan of the entry's text found (rigid)
  phase,     \* "read", "cycles", "sort", "append", "init", "done"
  calls,     \* dfs calls in progress, innermost last
  visited,
  todo,      \* what the loop over the roots, or nodes.keys(), has still to reach
  keys,      \* nodes.keys(): the files of the program
  cycles,
  sortedOrder,
  entryFile,
  inited     \* init functions that ran, in order

vars == <<names, imports, roots, phase, calls, visited, todo, keys, cycles,
          sortedOrder, entryFile, inited>>

Calls == [node : Modules, ahead : Seq(Modules)]

TypeOK ==
  /\ names \in [Modules -> Seq(Modules)] /\ imports \in [Modules -> Seq(Modules)]
  /\ roots \in Seq(Modules)
  /\ phase \in {"read", "cycles", "sort", "append", "init", "done"}
  /\ calls \in Seq(Calls)
  /\ visited \subseteq Modules
  /\ todo \in Seq(Modules) /\ keys \in Seq(Modules)
  /\ cycles \in Seq(Seq(Modules))
  /\ sortedOrder \in Seq(Modules)
  /\ entryFile \in Modules
  /\ inited \in Seq(Modules)

Call(m, list) == [node |-> m, ahead |-> list]

RootFiles == <<Root>> \o roots

Init ==
  /\ \E p \in Programs : names = p.names /\ imports = p.imports /\ roots = p.roots
  /\ phase = "read"
  /\ calls = <<>> /\ visited = {} /\ todo = RootFiles
  /\ keys = <<>> /\ cycles = <<>>
  /\ sortedOrder = <<>> /\ entryFile = Root /\ inited = <<>>

-----------------------------------------------------------------------------
(* A traversal *)

Top == calls[Len(calls)]
Leaving == calls # <<>> /\ Top.ahead = <<>>
Advancing == calls # <<>> /\ Top.ahead # <<>>
Return == calls' = Front(calls)

\* the call after its loop took the next module
Advanced == [calls EXCEPT ![Len(calls)].ahead = Tail(@)]

\* dfs(m), called with `base` on the stack, enters a module it has not visited
Enter(base, m, list) ==
  /\ calls' = Append(base, Call(m, list))
  /\ visited' = visited \cup {m}

OnStack == {calls[i].node : i \in 1..Len(calls)}

\* the next dfs, from the loop over the keys (or the roots) or over imports
FromKeys == calls = <<>> /\ todo # <<>> /\ todo' = Tail(todo)
FromImports == Advancing /\ UNCHANGED todo

-----------------------------------------------------------------------------
(* The files of the program: from each root in turn, a file follows those it names *)

ReadDfs(base, m) ==
  IF m \in visited
    THEN calls' = base /\ UNCHANGED visited
    ELSE Enter(base, m, names[m])

Read ==
  /\ phase = "read"
  /\ \/ FromKeys /\ ReadDfs(calls, Head(todo)) /\ UNCHANGED keys
     \/ FromImports /\ ReadDfs(Advanced, Head(Top.ahead)) /\ UNCHANGED keys
     \/ /\ Leaving /\ Return
        /\ keys' = Append(keys, Top.node)
        /\ UNCHANGED <<visited, todo>>
  /\ UNCHANGED <<names, imports, roots, phase, cycles, sortedOrder, entryFile, inited>>

Finished == calls = <<>> /\ todo = <<>>

BeginCycles ==
  /\ phase = "read" /\ Finished
  /\ phase' = "cycles" /\ todo' = keys /\ visited' = {}
  /\ UNCHANGED <<names, imports, roots, calls, keys, cycles, sortedOrder, entryFile, inited>>

-----------------------------------------------------------------------------
(* detectCycles *)

\* stack.slice(stack.indexOf(m)).concat(m)
CycleTo(m) ==
  LET nodes == [i \in 1..Len(calls) |-> calls[i].node]
      start == CHOOSE i \in 1..Len(calls) : nodes[i] = m
  IN Append(SubSeq(nodes, start, Len(nodes)), m)

\* faulty: the test of visited comes first
CyclesDfsVisitedFirst(base, m) ==
  IF m \in visited \/ m \notin ToSet(keys) THEN calls' = base /\ UNCHANGED <<visited, cycles>>
  ELSE IF m \in OnStack
    THEN cycles' = Append(cycles, CycleTo(m)) /\ calls' = base /\ UNCHANGED visited
  ELSE Enter(base, m, imports[m]) /\ UNCHANGED cycles

CyclesDfs(base, m) ==
  IF m \in OnStack
    THEN cycles' = Append(cycles, CycleTo(m)) /\ calls' = base /\ UNCHANGED visited
  ELSE IF m \in visited \/ m \notin ToSet(keys)
    THEN calls' = base /\ UNCHANGED <<visited, cycles>>
  ELSE Enter(base, m, imports[m]) /\ UNCHANGED cycles

DetectCycles ==
  /\ phase = "cycles"
  /\ \/ FromKeys /\ CyclesDfs(calls, Head(todo))
     \/ FromImports /\ CyclesDfs(Advanced, Head(Top.ahead))
     \/ Leaving /\ Return /\ UNCHANGED <<visited, todo, cycles>>
  /\ UNCHANGED <<names, imports, roots, phase, keys, sortedOrder, entryFile, inited>>

\* faulty: starts from the last key
BeginSortReversed ==
  /\ phase = "cycles" /\ Finished
  /\ phase' = "sort" /\ todo' = Reverse(keys) /\ visited' = {}
  /\ UNCHANGED <<names, imports, roots, calls, keys, cycles, sortedOrder, entryFile, inited>>

BeginSort ==
  /\ phase = "cycles" /\ Finished
  /\ phase' = "sort" /\ todo' = keys /\ visited' = {}
  /\ UNCHANGED <<names, imports, roots, calls, keys, cycles, sortedOrder, entryFile, inited>>

-----------------------------------------------------------------------------
(* topoSort *)

InCycle == UNION {ToSet(cycles[i]) : i \in 1..Len(cycles)}

SortDfs(base, m) ==
  IF m \in visited \cup InCycle \/ m \notin ToSet(keys)
    THEN calls' = base /\ UNCHANGED visited
    ELSE Enter(base, m, imports[m])

\* faulty: a module goes before its imports
SortParentsFirst ==
  /\ phase = "sort"
  /\ \/ FromKeys /\ SortDfs(calls, Head(todo))
     \/ FromImports /\ SortDfs(Advanced, Head(Top.ahead))
     \/ Leaving /\ Return /\ UNCHANGED <<visited, todo>>
  /\ sortedOrder' = sortedOrder \o SetToSeq(visited' \ visited)
  /\ UNCHANGED <<names, imports, roots, phase, keys, cycles, entryFile, inited>>

TopoSort ==
  /\ phase = "sort"
  /\ \/ FromKeys /\ SortDfs(calls, Head(todo)) /\ UNCHANGED sortedOrder
     \/ FromImports /\ SortDfs(Advanced, Head(Top.ahead)) /\ UNCHANGED sortedOrder
     \/ /\ Leaving /\ Return
        /\ sortedOrder' = Append(sortedOrder, Top.node)
        /\ UNCHANGED <<visited, todo>>
  /\ UNCHANGED <<names, imports, roots, phase, keys, cycles, entryFile, inited>>

\* the second loop over the keys: the modules on cycles go to the end
BeginAppend ==
  /\ phase = "sort" /\ Finished
  /\ phase' = "append" /\ todo' = keys
  /\ UNCHANGED <<names, imports, roots, calls, visited, keys, cycles, sortedOrder, entryFile, inited>>

AppendCycles ==
  /\ phase = "append" /\ todo # <<>>
  /\ todo' = Tail(todo)
  /\ sortedOrder' = IF Head(todo) \in InCycle
                      THEN Append(sortedOrder, Head(todo)) ELSE sortedOrder
  /\ UNCHANGED <<names, imports, roots, phase, calls, visited, keys, cycles, entryFile, inited>>

-----------------------------------------------------------------------------
(* generateMainC, and main() of the program it generates *)

Imported == UNION {ToSet(imports[m]) : m \in ToSet(keys)}

\* faulty: the entry is the first module
EntryFirst(order) == Head(order)
\* the first module nobody imports, else the last
EntryOf(order) ==
  LET free == {i \in DOMAIN order : order[i] \notin Imported}
  IN IF free # {} THEN order[Min(free)] ELSE Last(order)

\* the unit whose top-level try statement main() takes over
TryUnit == Last(sortedOrder)

Link ==
  /\ phase = "append" /\ todo = <<>>
  /\ phase' = "init"
  /\ entryFile' = EntryOf(sortedOrder)
  /\ todo' = sortedOrder
  /\ UNCHANGED <<names, imports, roots, calls, visited, keys, cycles, sortedOrder, inited>>

\* main() calls the next init function, which runs once
InitModule ==
  /\ phase = "init" /\ todo # <<>>
  /\ todo' = Tail(todo)
  /\ inited' = IF Head(todo) \in ToSet(inited) THEN inited ELSE Append(inited, Head(todo))
  /\ UNCHANGED <<names, imports, roots, phase, calls, visited, keys, cycles, sortedOrder, entryFile>>

\* main() calls the entry function
RunEntry ==
  /\ phase = "init" /\ todo = <<>>
  /\ phase' = "done"
  /\ UNCHANGED <<names, imports, roots, calls, visited, todo, keys, cycles, sortedOrder,
                 entryFile, inited>>

Done == phase = "done" /\ UNCHANGED vars

Next == Read \/ BeginCycles \/ DetectCycles \/ BeginSort \/ TopoSort
          \/ BeginAppend \/ AppendCycles \/ Link \/ InitModule \/ RunEntry \/ Done

\* The compiler and main() are sequential programs that run.
Spec == Init /\ [][Next]_vars /\ WF_vars(Next)

-----------------------------------------------------------------------------
(* Properties *)

(* Every module of the program, on a cycle or not, is initialised exactly once
   before the entry function runs: topoSort neither drops nor repeats one. *)
EachModuleOnce ==
  phase = "done" =>
    /\ ToSet(inited) = ToSet(keys)
    /\ Len(inited) = Len(keys)

(* Every cycle detectCycles reports is one: each module imports the next, the
   last is the first, and no other is repeated. *)
CyclesAreCycles ==
  \A c \in ToSet(cycles) :
    /\ Len(c) > 1 /\ c[1] = Last(c) /\ IsInjective(Front(c))
    /\ \A i \in 1..Len(c) - 1 : c[i + 1] \in ToSet(imports[c[i]])

\* s has a cycle, when m leads to the modules in lists[m]: in some part of s every
\* module leads to one of that part
HasCycle(lists, s) ==
  \E t \in (SUBSET s) \ {{}} : \A m \in t : ToSet(lists[m]) \cap t # {}

(* detectCycles need not report every module of a cycle, as it does not follow
   a module twice; but it misses no cycle: what it does not report is acyclic,
   so the depth-first order of topoSort is a topological one. *)
NoCycleMissed ==
  phase \notin {"read", "cycles"} =>
    ~HasCycle(imports, ToSet(keys) \ InCycle)

(* detectCycles and topoSort agree with the graph: the cycles reported are cycles,
   none is missed, and no module is lost between the two. *)
GraphInv == TypeOK /\ EachModuleOnce /\ CyclesAreCycles /\ NoCycleMissed

\* the first k of a sequence
First(s, k) == {s[j] : j \in 1..k}

ImportsBefore(s) ==
  \A k \in 1..Len(s) :
    (ToSet(imports[s[k]]) \cap ToSet(keys)) \ InCycle \subseteq First(s, k)

(* A module is initialised after its imports, by path or by bare name, that are
   in the program, unless the import is on a reported cycle
   (ARCHITECTURE.md: "called in topological order"): what module-level code
   reads of another module is there. *)
ImportsFirst == ImportsBefore(inited)

\* no module names itself by way of others
Acyclic == ~HasCycle(names, ToSet(keys))

\* nor imports a file by a bare name, which TypeScript does not follow
Plain == Acyclic /\ \A m \in ToSet(keys) : ToSet(imports[m]) \subseteq ToSet(names[m])

(* A program without cycles whose files are found from the entry by paths alone is
   initialised in the order in which ECMAScript evaluates its modules, re-exported
   ones included.  (A file the entry imports by a bare name is read after the
   entry, so what the entry imports before it may be initialised later, or the
   other way round.) *)
LanguageOrder ==
  phase = "done" /\ Plain /\ roots = <<>> => inited = keys

\* every file that brings another into the program imports it
AllImported ==
  /\ \A m \in ToSet(keys) : ToSet(names[m]) \subseteq ToSet(imports[m])
  /\ ToSet(roots) \ {Root} \subseteq ToSet(imports[Root])

(* main() calls the entry function of the file that was compiled, if nothing is in
   the program without being imported, and that file is imported by none, or is
   on a reported cycle and the only root; and without cycles the try statement
   main() takes over is that file's.  (A file on a cycle that detectCycles passes
   over is neither free nor last.  On a reported one it is not the last either if a
   package it imports by a bare name, and that imports it, was read after it.) *)
EntryIsRoot ==
  phase \in {"init", "done"} /\ AllImported =>
    /\ Root \notin Imported \/ (Root \in InCycle /\ roots = <<>>) => entryFile = Root
    /\ cycles = <<>> => TryUnit = Root

-----------------------------------------------------------------------------
(* The inductive invariant *)

Leads(m) == IF phase = "read" THEN names[m] ELSE imports[m]

\* modules a traversal has left
Left == visited \ OnStack

Traversing == phase \in {"read", "cycles", "sort"}

\* The calls in progress form a path of modules that are visited, each once.
Path ==
  /\ \A i \in 1..Len(calls) :
       /\ calls[i].node \in visited
       /\ ToSet(calls[i].ahead) \subseteq ToSet(Leads(calls[i].node))
       /\ i < Len(calls) => calls[i + 1].node \in ToSet(Leads(calls[i].node))
  /\ \A i, j \in 1..Len(calls) : calls[i].node = calls[j].node => i = j

\* A module is left after those it leads to, with these exceptions.
Excused(m, n) ==
  \/ phase = "read" /\ n \in visited /\ HasCycle(names, visited)
  \/ phase # "read" /\ n \notin ToSet(keys)
  \/ phase = "cycles" /\ {m, n} \subseteq InCycle
  \/ phase = "sort" /\ n \in InCycle

Behind ==
  /\ \A m \in Left : \A n \in ToSet(Leads(m)) : n \in Left \/ Excused(m, n)
  /\ \A i \in 1..Len(calls) : \A n \in ToSet(Leads(calls[i].node)) :
       \/ n \in ToSet(calls[i].ahead) \cup Left
       \/ i < Len(calls) /\ n = calls[i + 1].node
       \/ Excused(calls[i].node, n)

\* every module but the roots is named by another of s
Named(s) == \A m \in s \ ({Root} \cup ToSet(roots)) : \E n \in s : m \in ToSet(names[n])

NamesBefore(s) == \A k \in 1..Len(s) : ToSet(names[s[k]]) \subseteq First(s, k - 1)

\* the entry is read last if it is the only root
OneRoot ==
  \/ calls = <<>> /\ visited = {} /\ todo = <<Root>>
  \/ /\ todo = <<>>
     /\ IF calls # <<>> THEN calls[1].node = Root ELSE keys # <<>> /\ Last(keys) = Root

Reading ==
  phase = "read" =>
    /\ cycles = <<>> /\ sortedOrder = <<>> /\ inited = <<>>
    /\ ToSet(keys) = Left /\ IsInjective(keys)
    /\ Root \in visited \cup ToSet(todo) /\ ToSet(todo) \subseteq {Root} \cup ToSet(roots)
    /\ Named(visited)
    /\ roots = <<>> => OneRoot
    /\ NamesBefore(keys) \/ HasCycle(names, visited)

KeysRead ==
  phase # "read" =>
    /\ IsInjective(keys) /\ Root \in ToSet(keys)
    /\ roots = <<>> => Last(keys) = Root
    /\ Named(ToSet(keys))
    /\ NamesBefore(keys) \/ ~Acyclic
    /\ InCycle \subseteq ToSet(keys)
    /\ Plain => cycles = <<>>

Detecting ==
  phase = "cycles" =>
    /\ sortedOrder = <<>> /\ inited = <<>>
    /\ ToSet(keys) = visited \cup ToSet(todo)
    /\ ~HasCycle(imports, Left \ InCycle)

Sorting ==
  phase = "sort" =>
    /\ inited = <<>>
    /\ ToSet(keys) \ InCycle \subseteq visited \cup ToSet(todo)
    /\ visited \cup ToSet(todo) \subseteq ToSet(keys) /\ visited \cap InCycle = {}
    /\ ToSet(sortedOrder) = Left /\ IsInjective(sortedOrder)
    /\ ImportsBefore(sortedOrder)
    /\ Plain =>
         IF calls = <<>> THEN keys = sortedOrder \o todo
         ELSE Len(calls) = 1 /\ keys = Append(sortedOrder, Top.node) \o todo

\* the keys the second loop of topoSort has passed
Passed == First(keys, Len(keys) - Len(todo))

Appending ==
  phase = "append" =>
    /\ inited = <<>>
    /\ Len(todo) <= Len(keys)
    /\ \A i \in 1..Len(todo) : todo[i] = keys[Len(keys) - Len(todo) + i]
    /\ ToSet(sortedOrder) = (ToSet(keys) \ InCycle) \cup (Passed \cap InCycle)
    /\ IsInjective(sortedOrder) /\ ImportsBefore(sortedOrder)
    /\ todo = <<>> /\ Root \in InCycle /\ roots = <<>> => Last(sortedOrder) = Root
    /\ Plain => sortedOrder = keys

Starting ==
  phase \in {"init", "done"} =>
    /\ ToSet(sortedOrder) = ToSet(keys)
    /\ IsInjective(sortedOrder) /\ ImportsBefore(sortedOrder)
    /\ Root \in InCycle /\ roots = <<>> => Last(sortedOrder) = Root
    /\ Plain => sortedOrder = keys
    /\ entryFile = EntryOf(sortedOrder)
    /\ sortedOrder = inited \o todo
    /\ phase = "done" => todo = <<>>

GraphIInv ==
  /\ TypeOK /\ CyclesAreCycles /\ NoCycleMissed
  /\ Traversing => Path /\ Behind
  /\ Reading /\ KeysRead /\ Detecting /\ Sorting /\ Appending /\ Starting

=============================================================================
