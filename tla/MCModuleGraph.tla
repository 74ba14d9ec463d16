---------------------------- MODULE MCModuleGraph ----------------------------
(* Instances of ModuleGraph for TLC. *)
EXTENDS ModuleGraph

CONSTANTS m1, m2, m3, m4

Lists == {<<>>} \cup {<<a>> : a \in Modules} \cup {l \in Modules \X Modules : l[1] # l[2]}

\* A module names itself or up to two others, and every one but the root is named
\* by another.  Those the root names come first: the rest are renamings.
MCNames ==
  {p \in [Modules -> Lists] :
     /\ p[Root] \in {<<>>, <<Root>>, <<m2>>, <<m2, m3>>}
     /\ \A m \in Modules \ {Root} :
          /\ p[m] = <<m>> \/ m \notin ToSet(p[m])
          /\ \E n \in Modules \ {m} : m \in ToSet(p[n])}

\* the modules imported by a bare name, those that re-export, the roots after the
\* entry: what the scan of the entry finds of the bare names, or another file
Variants ==
  ({{}} \X {{}, {Root}, {m2}} \X {<<>>})
    \cup ({{m2}, {m3}} \X {{}} \X {<<>>, <<m2>>, <<m3>>})
    \cup {<<{}, {}, <<m4>>>>}

Program(p, bare, reexporters, more) ==
  [names   |-> [m \in Modules |-> SelectSeq(p[m], LAMBDA n : n \notin bare)],
   imports |-> [m \in Modules |-> IF m \in reexporters THEN <<>> ELSE p[m]],
   roots   |-> more]

MCPrograms == {Program(p, v[1], v[2], v[3]) : p \in MCNames, v \in Variants}
=============================================================================
