SPECIFICATION Spec
CONSTANTS
    Nodes = {n1, n2, n3}
    EdgeTypes = {depends_on, related_to}
    Projects = {p1, p2}
    NoProject = NoProject
    NoTx = NoTx
    MaxEdges = 2
    EdgeLists <- MCEdgeLists
SYMMETRY Symmetry
INVARIANTS
    DurableAcyclic
    EdgesWithinProject
PROPERTY PromiseHolds
