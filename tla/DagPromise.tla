------------------------------- MODULE DagPromise -------------------------------
(***************************************************************************)
(* What the store promises about a model's response: its nodes and edges   *)
(* reach the project DAG all at once, exactly when the DAG they would give *)
(* is a valid one, and not at all otherwise.  Validity is a property of    *)
(* the resulting graph: it mentions no order in which edges were tried.    *)
(***************************************************************************)
EXTENDS Dag, Sequences, Naturals

CONSTANTS
    Projects,
    NoProject    \* the home of an identifier no node has yet

VARIABLES
    home,      \* the project each durable node belongs to
    edges,     \* the durable edges
    verdict    \* what became of the latest response: its caller records it

promiseVars == <<home, edges, verdict>>

Response == [project : Projects, nodes : SUBSET Nodes, edges : Seq(Edge)]

NodesOf(h, p) == {n \in Nodes : h[n] = p}

EdgesOf(r) == {r.edges[i] : i \in 1 .. Len(r.edges)}

(* A response's nodes are new to the store. *)
Fresh(r) == \A n \in r.nodes : home[n] = NoProject

(* The DAG would stay a DAG of the project with the whole response in it. *)
Valid(r) ==
    /\ \A e \in EdgesOf(r) : {e.from, e.to} \subseteq NodesOf(home, r.project) \cup r.nodes
    /\ \A i, j \in 1 .. Len(r.edges) : r.edges[i] = r.edges[j] => i = j
    /\ EdgesOf(r) \cap edges = {}
    /\ Acyclic(edges \cup EdgesOf(r))

NoVerdict == [result |-> "none"]
Accepted(r) == [result |-> "accepted", response |-> r]
Rejected(r) == [result |-> "rejected", response |-> r]

Init ==
    /\ home = [n \in Nodes |-> NoProject]
    /\ edges = {}
    /\ verdict = NoVerdict

Apply(r) ==
    /\ Fresh(r)
    /\ Valid(r)
    /\ home' = [n \in Nodes |-> IF n \in r.nodes THEN r.project ELSE home[n]]
    /\ edges' = edges \cup EdgesOf(r)
    /\ verdict' = Accepted(r)

Refuse(r) ==
    /\ Fresh(r)
    /\ ~Valid(r)
    /\ verdict' = Rejected(r)
    /\ UNCHANGED <<home, edges>>

(* The caller has recorded the outcome and goes on. *)
Take ==
    /\ verdict' = NoVerdict
    /\ UNCHANGED <<home, edges>>

(* The response a step decides is the one its verdict names. *)
Decide ==
    /\ verdict' # NoVerdict
    /\ verdict'.response \in Response
    /\ Apply(verdict'.response) \/ Refuse(verdict'.response)

Next == Decide \/ Take

Spec == Init /\ [][Next]_promiseVars
================================================================================
