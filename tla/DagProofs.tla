------------------------------- MODULE DagProofs -------------------------------
(***************************************************************************)
(* Proofs about the DAG store: the graph lemmas validate_edge rests on, the*)
(* inductive invariant of the apply_response transaction, and that it      *)
(* implements the all-or-nothing, order-free promise of DagPromise.        *)
(***************************************************************************)
EXTENDS DagStore, TLAPS

--------------------------------------------------------------------------------
(* Graph lemmas *)

(* More edges reach at least as far. *)
LEMMA ReachesMonotone ==
    ASSUME NEW E, NEW F, E \subseteq F, NEW a, NEW b, Reaches(E, a, b)
    PROVE  Reaches(F, a, b)
BY DEF Reaches, ClosedUnder

(* Removing edges from an acyclic graph leaves it acyclic. *)
LEMMA AcyclicAntitone ==
    ASSUME NEW E, NEW F, E \subseteq F, Acyclic(F)
    PROVE  Acyclic(E)
BY ReachesMonotone DEF Acyclic

(* The check validate_edge makes is enough: an edge whose target does not
   reach its source closes no cycle, through itself or through any other
   edge. *)
LEMMA AddEdgeAcyclic ==
    ASSUME NEW E, E \subseteq Edge, Acyclic(E),
           NEW e \in Edge, ~Reaches(E, e.to, e.from)
    PROVE  Acyclic(E \cup {e})
PROOF
<1>1. PICK T \in SUBSET Nodes : e.to \in T /\ ClosedUnder(T, E) /\ e.from \notin T
  BY DEF Reaches
<1>2. SUFFICES ASSUME NEW a \in E \cup {e}
               PROVE  \E S \in SUBSET Nodes :
                        a.to \in S /\ ClosedUnder(S, E \cup {e}) /\ a.from \notin S
  BY DEF Acyclic, Reaches
<1>3. CASE a = e
  BY <1>1, <1>3 DEF ClosedUnder
<1>4. CASE a \in E
  <2>1. PICK S \in SUBSET Nodes : a.to \in S /\ ClosedUnder(S, E) /\ a.from \notin S
    BY <1>4 DEF Acyclic, Reaches
  <2>2. CASE e.from \notin S
    BY <2>1, <2>2 DEF ClosedUnder
  <2>3. CASE a.from \notin T
    <3>1. ClosedUnder(S \cup T, E \cup {e})
      BY <1>1, <2>1 DEF ClosedUnder
    <3>2. a.to \in S \cup T /\ a.from \notin S \cup T
      BY <2>1, <2>3
    <3> QED
      BY <3>1, <3>2
  <2>4. CASE a.from \in T
    <3>1. ClosedUnder(S \cap T, E \cup {e})
      BY <1>1, <2>1 DEF ClosedUnder
    <3>2. a.to \in S \cap T /\ a.from \notin S \cap T
      BY <1>1, <1>4, <2>1, <2>4 DEF ClosedUnder
    <3> QED
      BY <3>1, <3>2
  <2> QED
    BY <2>2, <2>3, <2>4
<1> QED
  BY <1>3, <1>4

--------------------------------------------------------------------------------
(* The inductive invariant *)

(* Between transactions the writer's view is the database. *)
ViewClosed ==
    tx = NoTx => /\ txHome = home /\ txEdges = edges
                 /\ left = {} /\ at = 1

(* Inside one, it is the database plus the emissions applied so far. *)
ViewOpen ==
    tx # NoTx =>
        /\ \A n \in tx.nodes : home[n] = NoProject
        /\ left \subseteq tx.nodes
        /\ txHome = [n \in Nodes |-> IF n \in tx.nodes \ left THEN tx.project ELSE home[n]]
        /\ at \in 1 .. Len(tx.edges) + 1
        /\ left # {} => at = 1
        /\ txEdges = edges \cup {tx.edges[i] : i \in 1 .. at - 1}

(* Every edge applied so far was new, to the database and to the response. *)
EdgesNew ==
    tx # NoTx =>
        /\ \A i \in 1 .. at - 1 : tx.edges[i] \notin edges
        /\ \A i, j \in 1 .. at - 1 : tx.edges[i] = tx.edges[j] => i = j

(* Edges stay inside one project in the writer's view, too; those the open
   response added are inside its own. *)
ViewWithinProject ==
    /\ \A e \in txEdges : txHome[e.from] = txHome[e.to] /\ txHome[e.from] # NoProject
    /\ tx # NoTx => \A i \in 1 .. at - 1 :
                       NodeInProject(tx.edges[i].from) /\ NodeInProject(tx.edges[i].to)

IInv ==
    /\ TypeOK
    /\ ViewClosed
    /\ ViewOpen
    /\ EdgesNew
    /\ Acyclic(edges) /\ Acyclic(txEdges)
    /\ EdgesWithinProject
    /\ ViewWithinProject
LEMMA InitIInv == Init => IInv
PROOF
<1> SUFFICES ASSUME Init PROVE IInv
  OBVIOUS
<1>1. TypeOK
  BY DEF Init, TypeOK
<1>2. Acyclic(edges) /\ Acyclic(txEdges)
  BY DEF Init, Acyclic
<1> QED
  BY <1>1, <1>2, NoTxAssumption
  DEF Init, IInv, ViewClosed, ViewOpen, EdgesNew, EdgesWithinProject, ViewWithinProject

(* A transaction that is not committed leaves everything but the writer's
   position as it was. *)
LEMMA RollBackIInv ==
    ASSUME IInv, RollBack
    PROVE  IInv'
PROOF
<1>1. TypeOK'
  BY DEF IInv, TypeOK, RollBack
<1>2. Acyclic(edges)' /\ Acyclic(txEdges)'
  BY DEF IInv, RollBack
<1> QED
  BY <1>1, <1>2
  DEF IInv, RollBack, ViewClosed, ViewOpen, EdgesNew, EdgesWithinProject, ViewWithinProject

LEMMA BeginIInv ==
    ASSUME IInv, NEW p \in Projects, NEW fresh \in SUBSET Nodes, NEW list \in EdgeLists,
           Begin(p, fresh, list)
    PROVE  IInv'
PROOF
<1>1. tx' \in Response /\ tx' # NoTx
  BY EdgeListsAssumption, NoTxAssumption DEF Begin, Response
<1>2. TypeOK'
  BY <1>1 DEF IInv, TypeOK, Begin
<1>3. Acyclic(edges)' /\ Acyclic(txEdges)'
  BY DEF IInv, Begin
<1>4. list \in Seq(Edge)
  BY EdgeListsAssumption
<1>5. ViewOpen'
  <2>1. txHome = home /\ txEdges = edges
    BY DEF IInv, ViewClosed, Begin
  <2>2. home = [n \in Nodes |-> home[n]]
    BY DEF IInv, TypeOK
  <2>3. 1 \in 1 .. Len(list) + 1
    BY <1>4
  <2> QED
    BY <1>1, <2>1, <2>2, <2>3 DEF ViewOpen, Begin
<1> QED
  BY <1>1, <1>2, <1>3, <1>5
  DEF IInv, Begin, ViewClosed, EdgesNew, EdgesWithinProject, ViewWithinProject

LEMMA InsertNodeIInv ==
    ASSUME IInv, NEW n \in Nodes, InsertNode(n)
    PROVE  IInv'
PROOF
<1>1. tx \in Response /\ tx # NoTx /\ tx.project \in Projects
  BY DEF IInv, TypeOK, InsertNode, Response
<1>2. TypeOK'
  BY <1>1 DEF IInv, TypeOK, InsertNode
<1>3. Acyclic(edges)' /\ Acyclic(txEdges)'
  BY DEF IInv, InsertNode
<1>4. ViewOpen'
  BY <1>1 DEF IInv, TypeOK, InsertNode, ViewOpen
<1>5. n \in tx.nodes /\ txHome[n] = NoProject /\ at = 1
  BY <1>1 DEF IInv, InsertNode, ViewOpen
<1>6. ViewWithinProject'
  BY <1>1, <1>5, NoProjectAssumption DEF IInv, TypeOK, InsertNode, ViewWithinProject, NodeInProject, Edge
<1> QED
  BY <1>1, <1>2, <1>3, <1>4, <1>6 DEF IInv, InsertNode, ViewClosed, EdgesNew, EdgesWithinProject

LEMMA InsertEdgeIInv ==
    ASSUME IInv, InsertEdge
    PROVE  IInv'
PROOF
<1> DEFINE e == tx.edges[at]
<1>1. tx \in Response /\ tx # NoTx /\ at \in 1 .. Len(tx.edges) /\ e \in Edge
  BY DEF IInv, TypeOK, InsertEdge, EdgeDue, Response
<1>2. TypeOK'
  BY <1>1 DEF IInv, TypeOK, InsertEdge
<1>3. Acyclic(edges)' /\ Acyclic(txEdges)'
  BY <1>1, AddEdgeAcyclic DEF IInv, TypeOK, InsertEdge, EdgeAllowed
<1>4. 1 .. at' - 1 = (1 .. at - 1) \cup {at}
  BY <1>1 DEF InsertEdge
<1>5. ViewOpen'
  <2>1. {tx.edges[i] : i \in 1 .. at' - 1} = {tx.edges[i] : i \in 1 .. at - 1} \cup {e}
    BY <1>4
  <2>2. at' \in 1 .. Len(tx.edges) + 1
    BY <1>1 DEF InsertEdge, Response
  <2> QED
    BY <1>1, <2>1, <2>2 DEF IInv, InsertEdge, EdgeDue, ViewOpen
<1>6. EdgesNew'
  <2>1. e \notin edges /\ \A i \in 1 .. at - 1 : tx.edges[i] # e
    BY <1>1 DEF IInv, InsertEdge, EdgeAllowed, ViewOpen
  <2> QED
    BY <1>1, <1>4, <2>1 DEF IInv, InsertEdge, EdgesNew
<1>7. ViewWithinProject'
  BY <1>1, <1>4, NoProjectAssumption
  DEF IInv, InsertEdge, EdgeAllowed, ViewWithinProject, NodeInProject, Response
<1> QED
  BY <1>1, <1>2, <1>3, <1>5, <1>6, <1>7
  DEF IInv, InsertEdge, ViewClosed, EdgesWithinProject

LEMMA CommitIInv ==
    ASSUME IInv, Commit
    PROVE  IInv'
PROOF
<1>1. TypeOK'
  BY DEF IInv, TypeOK, Commit
<1>2. Acyclic(edges)' /\ Acyclic(txEdges)'
  BY DEF IInv, Commit
<1>3. EdgesWithinProject' /\ ViewWithinProject'
  BY DEF IInv, Commit, EdgesWithinProject, ViewWithinProject
<1> QED
  BY <1>1, <1>2, <1>3 DEF IInv, Commit, ViewClosed, ViewOpen, EdgesNew

LEMMA NextIInv == IInv /\ [Next]_vars => IInv'
PROOF
<1> SUFFICES ASSUME IInv, [Next]_vars PROVE IInv'
  OBVIOUS
<1>1. CASE \E p \in Projects, fresh \in SUBSET Nodes, list \in EdgeLists : Begin(p, fresh, list)
  BY <1>1, BeginIInv
<1>2. CASE \E n \in Nodes : InsertNode(n)
  BY <1>2, InsertNodeIInv
<1>3. CASE InsertEdge
  BY <1>3, InsertEdgeIInv
<1>4. CASE RejectEdge
  BY <1>4, RollBackIInv DEF RejectEdge
<1>5. CASE Commit
  BY <1>5, CommitIInv
<1>6. CASE Crash
  BY <1>6, RollBackIInv DEF Crash
<1>7. CASE UNCHANGED vars
  BY <1>7 DEF vars, IInv, TypeOK, ViewClosed, ViewOpen, EdgesNew, Acyclic,
     EdgesWithinProject, ViewWithinProject, NodeInProject
<1> QED
  BY <1>1, <1>2, <1>3, <1>4, <1>5, <1>6, <1>7 DEF Next

LEMMA Invariance == Spec => []IInv
PROOF
<1> QED
  BY InitIInv, NextIInv, PTL DEF Spec

--------------------------------------------------------------------------------
(* The theorems *)

(* Every row stays inside its table and every transaction at a position
   apply_response can be at. *)
THEOREM TypeCorrect == Spec => []TypeOK
PROOF
<1>1. IInv => TypeOK
  BY DEF IInv
<1> QED
  BY <1>1, Invariance, PTL

(* Checking each edge against the graph so far (validate_edge) keeps every
   project's DAG acyclic for ever, for any number of responses and edges. *)
THEOREM AlwaysAcyclic == Spec => []DurableAcyclic
PROOF
<1>1. IInv => DurableAcyclic
  BY DEF IInv, DurableAcyclic
<1> QED
  BY <1>1, Invariance, PTL

(* No edge ever leaves its project or names a node that does not exist. *)
THEOREM AlwaysWithinProject == Spec => []EdgesWithinProject
PROOF
<1>1. IInv => EdgesWithinProject
  BY DEF IInv
<1> QED
  BY <1>1, Invariance, PTL

--------------------------------------------------------------------------------
(* The transaction implements DagPromise *)

(* What a response applied to its last edge added to the graph. *)
LEMMA CommitIsApply ==
    ASSUME IInv, Commit
    PROVE  Promise!Decide
PROOF
<1>1. tx \in Response /\ tx # NoTx /\ at = Len(tx.edges) + 1 /\ left = {}
  BY DEF IInv, TypeOK, Commit, ViewOpen, Response
<1>2. 1 .. at - 1 = 1 .. Len(tx.edges) /\ Len(tx.edges) \in Nat
  BY <1>1 DEF Response
<1>3. txEdges = edges \cup Promise!EdgesOf(tx)
  BY <1>1, <1>2 DEF IInv, ViewOpen, Promise!EdgesOf
<1>4. Promise!Fresh(tx)
  BY <1>1 DEF IInv, ViewOpen, Promise!Fresh
<1>5. Promise!Valid(tx)
  <2>1. \A e \in Promise!EdgesOf(tx) :
           {e.from, e.to} \subseteq Promise!NodesOf(home, tx.project) \cup tx.nodes
    <3>1. SUFFICES ASSUME NEW i \in 1 .. Len(tx.edges)
                   PROVE  {tx.edges[i].from, tx.edges[i].to}
                             \subseteq Promise!NodesOf(home, tx.project) \cup tx.nodes
      BY DEF Promise!EdgesOf
    <3>2. tx.edges[i].from \in Nodes /\ tx.edges[i].to \in Nodes
      <4>1. tx.edges[i] \in Edge
        BY <1>1 DEF Response
      <4> QED
        BY <4>1 DEF Edge
    <3>3. NodeInProject(tx.edges[i].from) /\ NodeInProject(tx.edges[i].to)
      BY <1>1, <1>2 DEF IInv, ViewWithinProject
    <3> QED
      BY <1>1, <3>2, <3>3 DEF IInv, ViewOpen, NodeInProject, Promise!NodesOf
  <2>2. \A i, j \in 1 .. Len(tx.edges) : tx.edges[i] = tx.edges[j] => i = j
    BY <1>1, <1>2 DEF IInv, EdgesNew
  <2>3. Promise!EdgesOf(tx) \cap edges = {}
    BY <1>1, <1>2 DEF IInv, EdgesNew, Promise!EdgesOf
  <2>4. Promise!Acyclic(edges \cup Promise!EdgesOf(tx))
    BY <1>3 DEF IInv, Promise!Acyclic, Acyclic, Promise!Reaches, Reaches,
       Promise!ClosedUnder, ClosedUnder
  <2> QED
    BY <2>1, <2>2, <2>3, <2>4 DEF Promise!Valid
<1>6. home' = [n \in Nodes |-> IF n \in tx.nodes THEN tx.project ELSE home[n]]
  BY <1>1 DEF IInv, ViewOpen, Commit
<1>7. verdict' = Promise!Accepted(tx)
  BY DEF Commit, Accepted, Promise!Accepted
<1>8. Promise!Apply(tx)
  BY <1>3, <1>4, <1>5, <1>6, <1>7 DEF Promise!Apply, Commit
<1>9. verdict'.response = tx /\ verdict' # Promise!NoVerdict
  BY <1>7 DEF Promise!Accepted, Promise!NoVerdict
<1> QED
  BY <1>1, <1>8, <1>9 DEF Promise!Decide, Promise!Response, Response, Promise!Edge, Edge

(* The edge a response is refused for makes the whole response invalid, in
   whatever order it is read. *)
LEMMA RejectIsRefuse ==
    ASSUME IInv, RejectEdge
    PROVE  Promise!Decide
PROOF
<1> DEFINE e == tx.edges[at]
<1>1. tx \in Response /\ tx # NoTx /\ at \in 1 .. Len(tx.edges) /\ e \in Edge /\ left = {}
  BY DEF IInv, TypeOK, RejectEdge, EdgeDue, Response
<1>2. e \in Promise!EdgesOf(tx)
  BY <1>1 DEF Promise!EdgesOf
<1>3. txEdges \subseteq edges \cup Promise!EdgesOf(tx)
  BY <1>1 DEF IInv, ViewOpen, Promise!EdgesOf, Response
<1>4. ~Promise!Valid(tx)
  <2>1. CASE ~(NodeInProject(e.from) /\ NodeInProject(e.to))
    <3>1. \A n \in Nodes : NodeInProject(n) <=>
             n \in Promise!NodesOf(home, tx.project) \cup tx.nodes
      BY <1>1 DEF IInv, ViewOpen, NodeInProject, Promise!NodesOf
    <3>2. e.from \in Nodes /\ e.to \in Nodes
      BY <1>1 DEF Edge
    <3> QED
      BY <1>2, <2>1, <3>1, <3>2 DEF Promise!Valid
  <2>2. CASE e.from = e.to \/ Reaches(txEdges, e.to, e.from)
    <3>1. Reaches(edges \cup Promise!EdgesOf(tx), e.to, e.from)
      <4>1. CASE e.from = e.to
        BY <4>1 DEF Reaches
      <4>2. CASE Reaches(txEdges, e.to, e.from)
        BY <1>3, <4>2, ReachesMonotone
      <4> QED
        BY <2>2, <4>1, <4>2
    <3>2. Promise!Reaches(edges \cup Promise!EdgesOf(tx), e.to, e.from)
      BY <3>1 DEF Promise!Reaches, Reaches, Promise!ClosedUnder, ClosedUnder
    <3> QED
      BY <1>2, <3>2 DEF Promise!Valid, Promise!Acyclic
  <2>3. CASE e \in txEdges
    <3>1. CASE e \in edges
      BY <1>2, <3>1 DEF Promise!Valid
    <3>2. CASE \E i \in 1 .. at - 1 : tx.edges[i] = e
      <4>1. PICK i \in 1 .. at - 1 : tx.edges[i] = e
        BY <3>2
      <4>2. i \in 1 .. Len(tx.edges) /\ i # at
        BY <1>1 DEF Response
      <4> QED
        BY <1>1, <4>1, <4>2 DEF Promise!Valid
    <3> QED
      BY <1>1, <2>3, <3>1, <3>2 DEF IInv, ViewOpen
  <2> QED
    BY <2>1, <2>2, <2>3 DEF RejectEdge, EdgeAllowed
<1>5. Promise!Fresh(tx)
  BY <1>1 DEF IInv, ViewOpen, Promise!Fresh
<1>6. verdict' = Promise!Rejected(tx)
  BY DEF RejectEdge, Rejected, Promise!Rejected
<1>7. Promise!Refuse(tx)
  BY <1>4, <1>5, <1>6 DEF Promise!Refuse, RejectEdge, RollBack
<1>8. verdict'.response = tx /\ verdict' # Promise!NoVerdict
  BY <1>6 DEF Promise!Rejected, Promise!NoVerdict
<1> QED
  BY <1>1, <1>7, <1>8 DEF Promise!Decide, Promise!Response, Response, Promise!Edge, Edge

(* A response lands whole or leaves nothing, and lands exactly when the DAG
   with all of it in is a valid one: the order of its emissions, and crashes
   at any point of the transaction, make no difference. *)
THEOREM ImplementsPromise == Spec => PromiseHolds
PROOF
<1>1. Init => Promise!Init
  BY DEF Init, Promise!Init, NoVerdict, Promise!NoVerdict
<1>2. IInv /\ [Next]_vars => [Promise!Next]_(Promise!promiseVars)
  <2> SUFFICES ASSUME IInv, [Next]_vars PROVE [Promise!Next]_(Promise!promiseVars)
    OBVIOUS
  <2> USE DEF Promise!promiseVars, Promise!Next
  <2>1. CASE \E p \in Projects, fresh \in SUBSET Nodes, list \in EdgeLists : Begin(p, fresh, list)
    BY <2>1 DEF Begin, Promise!Take, NoVerdict, Promise!NoVerdict
  <2>2. CASE \E n \in Nodes : InsertNode(n)
    BY <2>2 DEF InsertNode
  <2>3. CASE InsertEdge
    BY <2>3 DEF InsertEdge
  <2>4. CASE RejectEdge
    BY <2>4, RejectIsRefuse
  <2>5. CASE Commit
    BY <2>5, CommitIsApply
  <2>6. CASE Crash
    BY <2>6 DEF Crash, RollBack
  <2>7. CASE UNCHANGED vars
    BY <2>7 DEF vars
  <2> QED
    BY <2>1, <2>2, <2>3, <2>4, <2>5, <2>6, <2>7 DEF Next
<1> QED
  BY <1>1, <1>2, Invariance, PTL DEF Spec, PromiseHolds, Promise!Spec
================================================================================
