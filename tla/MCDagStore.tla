------------------------------- MODULE MCDagStore -------------------------------
(* Small instances of DagStore. *)
EXTENDS DagStore, TLC

CONSTANT MaxEdges

MCEdgeLists == UNION {[1 .. k -> Edge] : k \in 0 .. MaxEdges}

(* Nodes, projects and edge types are interchangeable. *)
Symmetry == Permutations(Nodes) \cup Permutations(Projects) \cup Permutations(EdgeTypes)
================================================================================
