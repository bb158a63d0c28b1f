-------------------------------- MODULE DagStore --------------------------------
(***************************************************************************)
(* The durable DAG and the transaction that applies a response to it:      *)
(* Store::transaction (store.rs), insert_node, insert_edge and             *)
(* validate_edge (store/dag.rs), driven by apply_response (runtime.rs).    *)
(*                                                                         *)
(* Transactions are IMMEDIATE: one writer in the whole database, whichever *)
(* process it lives in, so one transaction view is enough.  Inside it the  *)
(* writer sees its own rows (txHome, txEdges); everyone else sees home and *)
(* edges until the commit.  A run's task node and the nodes record_findings*)
(* writes are transactions of the same shape without edges.                *)
(***************************************************************************)
EXTENDS Dag, Sequences, Naturals

CONSTANTS
    Projects,
    NoProject,
    NoTx,
    EdgeLists    \* the edge emissions a response may carry, in order

ASSUME NoProjectAssumption == NoProject \notin Projects
ASSUME EdgeListsAssumption == EdgeLists \subseteq Seq(Edge)
ASSUME NoTxAssumption ==
    NoTx \notin [project : Projects, nodes : SUBSET Nodes, edges : Seq(Edge)]

VARIABLES
    home,      \* dag_nodes: the project of each node, NoProject before it exists
    edges,     \* dag_edges
    tx,        \* the response being applied in the open transaction, or NoTx
    left,      \* its nodes still to insert
    at,        \* the index of its next edge
    txHome,    \* dag_nodes as the transaction sees it
    txEdges,   \* dag_edges as the transaction sees it
    verdict    \* response.validated, response.rejected, or nothing yet

vars == <<home, edges, tx, left, at, txHome, txEdges, verdict>>
txVars == <<tx, left, at, txHome, txEdges>>

Response == [project : Projects, nodes : SUBSET Nodes, edges : Seq(Edge)]

NoVerdict == [result |-> "none"]
Accepted(r) == [result |-> "accepted", response |-> r]
Rejected(r) == [result |-> "rejected", response |-> r]

(* Mutant of NodeInProject: nodes of every project count. *)
NodeAnywhere(n) == txHome[n] # NoProject

(* Tx::node_in_project *)
NodeInProject(n) == txHome[n] = tx.project

(* Mutants of EdgeAllowed: reachability asked the wrong way round; an edge of
   another type counts as a duplicate. *)
EdgeAllowedBackwards(e) ==
    /\ NodeInProject(e.from) /\ NodeInProject(e.to)
    /\ e.from # e.to
    /\ e \notin txEdges
    /\ ~Reaches(txEdges, e.from, e.to)

EdgeAllowedOncePerPair(e) ==
    /\ NodeInProject(e.from) /\ NodeInProject(e.to)
    /\ e.from # e.to
    /\ \A f \in txEdges : <<f.from, f.to>> # <<e.from, e.to>>
    /\ ~Reaches(txEdges, e.to, e.from)

(* Tx::validate_edge: both endpoints live in the project, the edge is not a
   self-loop, it is not there yet, and it does not close a cycle. *)
EdgeAllowed(e) ==
    /\ NodeInProject(e.from) /\ NodeInProject(e.to)
    /\ e.from # e.to
    /\ e \notin txEdges
    /\ ~Reaches(txEdges, e.to, e.from)

Init ==
    /\ home = [n \in Nodes |-> NoProject]
    /\ edges = {}
    /\ tx = NoTx
    /\ left = {}
    /\ at = 1
    /\ txHome = home
    /\ txEdges = edges
    /\ verdict = NoVerdict

(* Store::transaction takes the write lock for apply_response. *)
Begin(p, fresh, list) ==
    /\ tx = NoTx
    /\ \A n \in fresh : home[n] = NoProject
    /\ tx' = [project |-> p, nodes |-> fresh, edges |-> list]
    /\ left' = fresh
    /\ at' = 1
    /\ verdict' = NoVerdict
    /\ UNCHANGED <<home, edges, txHome, txEdges>>

InsertNode(n) ==
    /\ tx # NoTx
    /\ n \in left
    /\ txHome' = [txHome EXCEPT ![n] = tx.project]
    /\ left' = left \ {n}
    /\ UNCHANGED <<home, edges, tx, at, txEdges, verdict>>

(* Edges follow once every node of the response exists. *)
EdgeDue == tx # NoTx /\ left = {} /\ at <= Len(tx.edges)

InsertEdge ==
    /\ EdgeDue
    /\ EdgeAllowed(tx.edges[at])
    /\ txEdges' = txEdges \cup {tx.edges[at]}
    /\ at' = at + 1
    /\ UNCHANGED <<home, edges, tx, left, txHome, verdict>>

(* The transaction ends and leaves the database as it found it. *)
RollBack ==
    /\ tx' = NoTx
    /\ left' = {}
    /\ at' = 1
    /\ txHome' = home
    /\ txEdges' = edges
    /\ UNCHANGED <<home, edges>>

(* A DAG violation: nothing of the response remains, and the caller records
   response.rejected with emission_rejected. *)
RejectEdge ==
    /\ EdgeDue
    /\ ~EdgeAllowed(tx.edges[at])
    /\ RollBack
    /\ verdict' = Rejected(tx)

Commit ==
    /\ tx # NoTx
    /\ left = {}
    /\ at > Len(tx.edges)
    /\ home' = txHome
    /\ edges' = txEdges
    /\ verdict' = Accepted(tx)
    /\ tx' = NoTx
    /\ at' = 1
    /\ UNCHANGED <<left, txHome, txEdges>>

(* The process dies, panics, or SQLite fails before the commit. *)
Crash ==
    /\ tx # NoTx
    /\ RollBack
    /\ UNCHANGED verdict

Next ==
    \/ \E p \in Projects, fresh \in SUBSET Nodes, list \in EdgeLists : Begin(p, fresh, list)
    \/ \E n \in Nodes : InsertNode(n)
    \/ InsertEdge
    \/ RejectEdge
    \/ Commit
    \/ Crash

Spec == Init /\ [][Next]_vars

--------------------------------------------------------------------------------
(* Types: rows stay inside their tables, and a transaction's position is one
   apply_response can be at. *)
TypeOK ==
    /\ home \in [Nodes -> Projects \cup {NoProject}]
    /\ edges \subseteq Edge
    /\ tx \in Response \cup {NoTx}
    /\ left \subseteq Nodes
    /\ at \in Nat \ {0}
    /\ txHome \in [Nodes -> Projects \cup {NoProject}]
    /\ txEdges \subseteq Edge

(* The durable graph has no cycle, whatever order responses and their edges
   arrived in (validate_edge checks one edge at a time; runs of one project
   build on each other's edges). *)
DurableAcyclic == Acyclic(edges)

(* An edge joins two nodes that exist, in one project: no response leaves an
   edge to a node of another project or to a node whose insertion was rolled
   back (the composite foreign keys of dag_edges promise the same). *)
EdgesWithinProject ==
    \A e \in edges : home[e.from] = home[e.to] /\ home[e.from] # NoProject

(* The promise of DagPromise: a response lands whole or not at all, and it is
   refused only if the graph with all of it would be invalid, so the order of
   the emissions never decides. *)
Promise == INSTANCE DagPromise
PromiseHolds == Promise!Spec
================================================================================
