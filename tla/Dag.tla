---------------------------------- MODULE Dag ----------------------------------
(***************************************************************************)
(* Graph predicates over the project DAG that dagos-core keeps in SQLite   *)
(* (crates/dagos-core/src/store/dag.rs).  A node is a durable identifier;  *)
(* an edge is typed, and the same pair of nodes may carry one edge of each *)
(* type.                                                                   *)
(*                                                                         *)
(* The store asks SQLite for reachability with a recursive query: the      *)
(* least set that holds `start` and follows every edge.  Here the same set *)
(* is described from outside, as what belongs to every set closed under    *)
(* the edges, which both TLC and the proofs can use.                       *)
(***************************************************************************)
CONSTANTS
    Nodes,       \* identifiers insert_node may generate
    EdgeTypes    \* depends_on, related_to, ...

Edge == [from : Nodes, to : Nodes, type : EdgeTypes]

(* No edge of E leaves S. *)
ClosedUnder(S, E) == \A e \in E : e.from \in S => e.to \in S

(* Tx::reaches: a directed path, possibly empty, leads from start to target.
   Edges of every type count. *)
Reaches(E, start, target) ==
    \A S \in SUBSET Nodes : (start \in S /\ ClosedUnder(S, E)) => target \in S

(* No edge closes a cycle with the others. *)
Acyclic(E) == \A e \in E : ~Reaches(E, e.to, e.from)
================================================================================
