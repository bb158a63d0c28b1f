----------------------------- MODULE ContextProofs -----------------------------
(***************************************************************************)
(* What a run is shown and what is asked about it, for any projects, chats,*)
(* runs, nodes, windows and budgets: the fitting keeps its order, recall   *)
(* and the recent turns cut the history in two, the context of a run is of *)
(* its project and carries on, and a finding is remembered once.  At the   *)
(* end, for any runs, files and functions, that a review judges what       *)
(* changed, gives each function Jev's answer for it, and asks about no     *)
(* text twice.                                                             *)
(*                                                                         *)
(* Two runs of a project never overlap, so what the fitting of one looks   *)
(* at, the earlier runs of its chat and of its project, stands still until *)
(* the run ends, whatever the runs of other projects do.                   *)
(***************************************************************************)
EXTENDS Context, LintReview, FiniteSetTheorems, WellFoundedInduction, TLAPS

Stages  == {"idle", "classify", "recall", "compile", "infer", "review"}
RunRecs == [chat : Nat, at : 0..(MaxTime + 1), running : BOOLEAN, task : Nat, context : SUBSET Nat]
NodeRecs == [project : Projects \cup {Other}, kind : {"conversation", "observation"} \cup Kinds,
             finding : Findings \cup {None}, by : Nat]
Scores  == UNION {[D -> Nat] : D \in SUBSET Nat}
StepRecs == [at : Stages, policy : BOOLEAN, budget : Budgets \cup {Unknown}, score : Scores,
             all : BOOLEAN, kept : SUBSET Nat, window : 0..Window, outputs : Seq(Nat),
             earlier : Nat, compacted : SUBSET Nat, omitted : SUBSET Nat, done : BOOLEAN,
             passes : Nat]

Types == /\ chats \in Seq(Projects \cup {Other}) /\ runs \in Seq(RunRecs)
         /\ nodes \in Seq(NodeRecs) /\ step \in [Projects -> StepRecs]

(* The rows of runs, nodes and edges refer to rows of their project. *)
Rows ==
    /\ \A r \in DOMAIN runs :
          /\ runs[r].chat \in DOMAIN chats
          /\ runs[r].task \in NodesOf(ProjectOf(r)) /\ nodes[runs[r].task].by = r
          /\ runs[r].context \subseteq NodesOf(ProjectOf(r)) \ {runs[r].task}
    /\ \A n \in DOMAIN nodes : /\ nodes[n].by \in DOMAIN runs
                               /\ nodes[n].project = ProjectOf(nodes[n].by)
    /\ supersedes \subseteq (DOMAIN nodes) \X (DOMAIN nodes) \X (DOMAIN runs)
    /\ \A e \in supersedes : /\ nodes[e[1]].project = nodes[e[2]].project
                             /\ nodes[e[1]].by <= e[3]

One == \A p \in Projects : /\ step[p].at = "idle" <=> Running(p) = {}
                           /\ \A a, b \in Running(p) : a = b
                           /\ \A a \in Running(p), b \in RunsOf(p) : b <= a

(* What the step of a run says of itself. Outs are its earlier outputs, and Left counts *)
(* what a pass may still take.                                                         *)
Outs(s) == {i \in 1..s.earlier : s.outputs[i] > 0} \ s.omitted
Left(s) == Cardinality(s.kept) + Cardinality(Outs(s)) + s.window + (IF s.done THEN 0 ELSE 1)

Parts(s) == /\ IsFiniteSet(DOMAIN s.score) /\ s.kept \subseteq DOMAIN s.score
            /\ s.compacted \subseteq s.omitted /\ s.omitted \subseteq 1..s.earlier
            /\ s.earlier <= Len(s.outputs)
Starting(s) == /\ s.at \in {"idle", "classify"} => s = [Idle EXCEPT !.at = s.at]
               /\ s.at = "recall" => s = [Idle EXCEPT !.at = "recall", !.policy = s.policy]
InOrder(s) == /\ s.window < Window => s.kept = {} /\ Outs(s) = {}
              /\ s.omitted \ s.compacted # {} => s.kept = {}
              /\ \A d \in (DOMAIN s.score) \ s.kept, k \in s.kept : s.score[d] <= s.score[k]
Ending(s) == IF s.at = "compile"
             THEN s.passes + Left(s) <= Cardinality(DOMAIN s.score) + s.earlier + Window + 1
             ELSE s.passes = 0
StepOK(s) == Parts(s) /\ Starting(s) /\ InOrder(s) /\ Ending(s)

(* What the step of a run says of the rows. *)
Complete(p) == step[p].all =>
    /\ DOMAIN step[p].score = RecallCandidates(p)
    /\ {n \in NodesOf(p) : nodes[n].by < The(p)} \subseteq runs[The(p)].context
StaysOut(p) == step[p].policy /\ ~step[p].all =>
    \A e \in supersedes : e[3] < The(p) => e[2] \notin runs[The(p)].context
Fits(p) == /\ step[p].done => step[p].kept = {} /\ EarlierOutputs(p) = {} /\ RecentTurns(p) = {}
           /\ step[p].at = "infer" => step[p].done \/ ~TooLarge(p)
Untouched(s) == s.kept = DOMAIN s.score /\ s.omitted = s.compacted /\ s.window = Window
Whole(p) == \/ Untouched(step[p])
            \/ step[p].budget # Unknown /\ ~(WholeSize(p) < step[p].budget)
ViewOK(p) == /\ DOMAIN step[p].score \subseteq RecallCandidates(p)
             /\ Complete(p) /\ StaysOut(p) /\ Fits(p) /\ Whole(p)

IInv == /\ Types /\ Rows /\ One /\ RememberedOnce
        /\ \A p \in Projects : StepOK(step[p]) /\ ViewOK(p)

--------------------------------------------------------------------------------
(* The order of runs                                                                 *)

LEMMA MaxExists ==
  ASSUME NEW S \in SUBSET Nat, S # {}, NEW bound \in Nat, \A x \in S : x <= bound
  PROVE  \E m \in S : \A x \in S : x <= m
<1> DEFINE T == {n \in Nat : \A x \in S : x <= n}
<1>1. PICK m \in T : \A y \in T : ~(y < m)
  <2>1. T \subseteq Nat /\ T # {} OBVIOUS
  <2>2. \E m \in T : \A y \in T : <<y, m>> \notin OpToRel(<, Nat)
    BY <2>1, NatLessThanWellFounded, WFMin
  <2> QED BY <2>2 DEF OpToRel
<1>2. CASE m \in S BY <1>2
<1>3. CASE m \notin S
  <2>1. \A x \in S : x < m BY <1>3
  <2>2. m # 0
    <3>1. PICK x \in S : TRUE OBVIOUS
    <3>2. x \in Nat /\ x < m BY <2>1
    <3> QED BY <3>2
  <2>3. m - 1 \in T BY <2>1, <2>2
  <2> QED BY <1>1, <2>2, <2>3
<1> QED BY <1>2, <1>3

LEMMA Bounds ==
  /\ MaxTime \in Nat /\ Window \in Nat /\ JevWindow \in Nat
  /\ MaxRuns \in Nat /\ MaxNodes \in Nat /\ MaxChats \in Nat
BY BoundsAssumption

LEMMA RowOfRun ==
  ASSUME NEW all \in Seq(RunRecs), NEW r \in DOMAIN all
  PROVE  all[r] \in RunRecs /\ r \in Nat /\ r <= Len(all) /\ all[r].at \in Nat /\ all[r].at <= MaxTime + 1
<1>1. all[r] \in RunRecs /\ r \in Nat /\ r <= Len(all) OBVIOUS
<1> QED BY <1>1, Bounds DEF RunRecs

(* Before is a strict order, in which any two runs compare. *)
LEMMA BeforeOrders ==
  ASSUME NEW all \in Seq(RunRecs)
  PROVE  /\ \A a \in DOMAIN all : ~Before(all, a, a)
         /\ \A a, b \in DOMAIN all : a # b => Before(all, a, b) \/ Before(all, b, a)
         /\ \A a, b, c \in DOMAIN all : Before(all, a, b) /\ Before(all, b, c) => Before(all, a, c)
<1>1. \A a \in DOMAIN all : a \in Nat /\ all[a].at \in Nat BY RowOfRun
<1> QED BY <1>1 DEF Before

(* A chat with an earlier run has a previous one. *)
LEMMA PreviousIsLast ==
  ASSUME NEW all \in Seq(RunRecs), NEW r, Past(all, r) # {}
  PROVE  /\ Previous(all, r) \in Past(all, r)
         /\ \A o \in Past(all, r) \ {Previous(all, r)} : Before(all, o, Previous(all, r))
<1> DEFINE times == {all[q].at : q \in Past(all, r)}
           latest(t) == {q \in Past(all, r) : all[q].at = t}
<1>1. \A q \in Past(all, r) : q \in DOMAIN all /\ q \in Nat /\ q <= Len(all)
                              /\ all[q].at \in Nat /\ all[q].at <= MaxTime + 1
  BY RowOfRun DEF Past
<1>2. PICK t \in times : \A x \in times : x <= t
  <2>1. times \in SUBSET Nat /\ times # {} /\ MaxTime + 1 \in Nat /\ \A x \in times : x <= MaxTime + 1
    BY <1>1, Bounds
  <2> HIDE DEF times
  <2> QED BY <2>1, MaxExists
<1>3. latest(t) \in SUBSET Nat /\ latest(t) # {} /\ Len(all) \in Nat /\ \A x \in latest(t) : x <= Len(all)
  BY <1>1, <1>2
<1>4. PICK q \in latest(t) : \A x \in latest(t) : x <= q
  <2> HIDE DEF latest
  <2> QED BY <1>3, MaxExists
<1>5. \A o \in Past(all, r) \ {q} : Before(all, o, q)
  <2> SUFFICES ASSUME NEW o \in Past(all, r), o # q PROVE Before(all, o, q) OBVIOUS
  <2>1. all[o].at <= t /\ all[q].at = t /\ all[o].at \in Nat /\ o \in Nat /\ q \in Nat BY <1>1, <1>2, <1>4
  <2>2. all[o].at = t => o <= q BY <1>4
  <2>3. t \in Nat BY <1>1, <2>1
  <2>4. all[o].at < all[q].at \/ (all[o].at = all[q].at /\ o < q) BY <2>1, <2>2, <2>3
  <2> QED BY <2>4 DEF Before
<1>6. Previous(all, r) = CHOOSE x \in Past(all, r) : \A o \in Past(all, r) \ {x} : Before(all, o, x)
  BY DEF Previous
<1> QED BY <1>4, <1>5, <1>6

(* ... and but one. *)
LEMMA PreviousIsOne ==
  ASSUME NEW all \in Seq(RunRecs), NEW r, NEW q \in Past(all, r),
         \A o \in Past(all, r) \ {q} : Before(all, o, q)
  PROVE  Previous(all, r) = q
<1>1. /\ Previous(all, r) \in Past(all, r)
      /\ \A o \in Past(all, r) \ {Previous(all, r)} : Before(all, o, Previous(all, r))
  BY PreviousIsLast
<1>2. Past(all, r) \subseteq DOMAIN all BY DEF Past
<1>3. ASSUME Previous(all, r) # q PROVE FALSE
  <2>1. Before(all, q, Previous(all, r)) /\ Before(all, Previous(all, r), q) BY <1>1, <1>3
  <2> QED BY <1>1, <1>2, <2>1, BeforeOrders
<1> QED BY <1>3

LEMMA RunsAreFinite == ASSUME NEW all \in Seq(RunRecs) PROVE IsFiniteSet(DOMAIN all)
<1>1. IsFiniteSet(1..Len(all)) BY FS_Interval
<1> QED BY <1>1

LEMMA PastIsFinite ==
  ASSUME NEW all \in Seq(RunRecs), NEW r
  PROVE  IsFiniteSet(Past(all, r)) /\ Past(all, r) \subseteq DOMAIN all
<1>1. Past(all, r) \subseteq DOMAIN all BY DEF Past
<1> QED BY <1>1, RunsAreFinite, FS_Subset

(* The last k turns are k at most, and those of a smaller k are among them. *)
LEMMA LastTurnsAreFew ==
  ASSUME NEW all \in Seq(RunRecs), NEW r, NEW k \in Nat
  PROVE  /\ IsFiniteSet(LastTurns(all, r, k)) /\ LastTurns(all, r, k) \subseteq Past(all, r)
         /\ Cardinality(LastTurns(all, r, k)) \in Nat /\ Cardinality(LastTurns(all, r, k)) <= k
         /\ \A j \in 0..k : LastTurns(all, r, j) \subseteq LastTurns(all, r, k)
<1> DEFINE After(q) == {o \in Past(all, r) : Before(all, q, o)}
           f == [q \in LastTurns(all, r, k) |-> Cardinality(After(q))]
<1>1. IsFiniteSet(Past(all, r)) /\ Past(all, r) \subseteq DOMAIN all BY PastIsFinite
<1>2. LastTurns(all, r, k) \subseteq Past(all, r) BY DEF LastTurns
<1>3. IsFiniteSet(LastTurns(all, r, k)) BY <1>1, <1>2, FS_Subset
<1>4. \A q : IsFiniteSet(After(q)) /\ Cardinality(After(q)) \in Nat
  <2> TAKE q
  <2>1. After(q) \subseteq Past(all, r) OBVIOUS
  <2>2. IsFiniteSet(After(q)) BY <1>1, <2>1, FS_Subset
  <2> QED BY <2>2, FS_CardinalityType
<1>5. \A q \in LastTurns(all, r, k) : Cardinality(After(q)) < k BY DEF LastTurns
<1>6. \A a, b \in Past(all, r) : a # b => Cardinality(After(a)) # Cardinality(After(b))
  <2>1. ASSUME NEW a \in Past(all, r), NEW b \in Past(all, r), Before(all, a, b)
        PROVE  Cardinality(After(b)) < Cardinality(After(a))
    <3>1. After(b) \subseteq After(a) BY <1>1, <2>1, BeforeOrders
    <3>2. b \in After(a) /\ b \notin After(b) BY <1>1, <2>1, BeforeOrders
    <3>3. Cardinality(After(b)) <= Cardinality(After(a)) /\ Cardinality(After(b)) # Cardinality(After(a))
      <4> HIDE DEF After
      <4>1. After(b) # After(a) BY <3>2
      <4>2. IsFiniteSet(After(a)) BY <1>4
      <4> QED BY <3>1, <4>1, <4>2, FS_Subset
    <3>4. Cardinality(After(b)) \in Nat /\ Cardinality(After(a)) \in Nat BY <1>4
    <3> QED BY <3>3, <3>4
  <2> SUFFICES ASSUME NEW a \in Past(all, r), NEW b \in Past(all, r), a # b
               PROVE  Cardinality(After(a)) # Cardinality(After(b))
    OBVIOUS
  <2>2. Before(all, a, b) \/ Before(all, b, a) BY <1>1, BeforeOrders
  <2>3. Cardinality(After(a)) \in Nat /\ Cardinality(After(b)) \in Nat BY <1>4
  <2>4. Cardinality(After(b)) < Cardinality(After(a)) \/ Cardinality(After(a)) < Cardinality(After(b))
    BY <2>1, <2>2
  <2> QED BY <2>3, <2>4
<1>7. Cardinality(LastTurns(all, r, k)) <= k
  <2>1. \A q \in LastTurns(all, r, k) : Cardinality(After(q)) \in 0..(k - 1)
    <3> TAKE q \in LastTurns(all, r, k)
    <3>1. Cardinality(After(q)) \in Nat /\ Cardinality(After(q)) < k BY <1>4, <1>5
    <3> HIDE DEF After
    <3> QED BY <3>1
  <2>2. f \in [LastTurns(all, r, k) -> 0..(k - 1)] BY <2>1
  <2>3. f \in Injection(LastTurns(all, r, k), 0..(k - 1))
    <3>1. \A a, b \in LastTurns(all, r, k) : f[a] = f[b] => a = b BY <1>2, <1>6
    <3> QED BY <2>2, <3>1 DEF Injection, IsInjective
  <2>4. IsFiniteSet(0..(k - 1)) /\ Cardinality(0..(k - 1)) = k BY FS_Interval
  <2> HIDE DEF f
  <2> QED BY <2>3, <2>4, FS_Injection
<1>8. \A j \in 0..k : LastTurns(all, r, j) \subseteq LastTurns(all, r, k)
  <2> SUFFICES ASSUME NEW j \in 0..k, NEW q \in LastTurns(all, r, j)
               PROVE  q \in LastTurns(all, r, k)
    OBVIOUS
  <2>1. q \in Past(all, r) /\ Cardinality(After(q)) < j BY DEF LastTurns
  <2>2. Cardinality(After(q)) \in Nat BY <1>4
  <2>3. Cardinality(After(q)) < k BY <2>1, <2>2
  <2> QED BY <2>1, <2>3 DEF LastTurns
<1> QED BY <1>2, <1>3, <1>7, <1>8, FS_CardinalityType

--------------------------------------------------------------------------------
(* Frames: what a step leaves standing                                               *)

(* The runs of a project, but for their contexts. *)
SameRuns(q) ==
    /\ RunsOf(q)' = RunsOf(q)
    /\ \A r \in RunsOf(q) : /\ runs'[r].chat = runs[r].chat /\ runs'[r].at = runs[r].at
                             /\ runs'[r].running = runs[r].running

LEMMA TurnsKept ==
  ASSUME NEW q \in Projects, SameRuns(q), NEW r \in RunsOf(q)
  PROVE  Past(runs', r) = Past(runs, r) /\ \A k \in Nat : LastTurns(runs', r, k) = LastTurns(runs, r, k)
<1>1. RunsOf(q) \subseteq DOMAIN runs /\ RunsOf(q) \subseteq DOMAIN runs' BY DEF SameRuns, RunsOf
<1>2. \A x, y \in RunsOf(q) : Before(runs', x, y) <=> Before(runs, x, y) BY DEF SameRuns, Before
<1>3. Past(runs, r) = {x \in RunsOf(q) : runs[x].chat = runs[r].chat /\ Before(runs, x, r)}
  BY DEF Past, RunsOf, ProjectOf
<1>4. Past(runs', r) = {x \in RunsOf(q) : runs'[x].chat = runs'[r].chat /\ Before(runs', x, r)}
  <2>1. \A x \in DOMAIN runs' : runs'[x].chat = runs'[r].chat => x \in RunsOf(q)'
    BY <1>1 DEF SameRuns, RunsOf, ProjectOf
  <2> QED BY <1>1, <2>1 DEF Past, SameRuns
<1>5. Past(runs', r) = Past(runs, r) BY <1>2, <1>3, <1>4 DEF SameRuns
<1>6. \A x \in Past(runs, r) :
        {o \in Past(runs', r) : Before(runs', x, o)} = {o \in Past(runs, r) : Before(runs, x, o)}
  BY <1>2, <1>3, <1>5
<1> QED BY <1>5, <1>6 DEF LastTurns

LEMMA RunningIsOne ==
  ASSUME Types, One, NEW p \in Projects, step[p].at # "idle"
  PROVE  Running(p) = {The(p)} /\ The(p) \in RunsOf(p) /\ runs[The(p)].running
                               /\ The(p) \in DOMAIN runs /\ ProjectOf(The(p)) = p
<1>1. Running(p) # {} BY DEF One
<1>2. The(p) \in Running(p) BY <1>1 DEF The
<1> QED BY <1>2 DEF One, Running, RunsOf

(* What a run sees of the runs. *)
LEMMA SeenRuns ==
  ASSUME Types, One, NEW q \in Projects, step[q].at # "idle", SameRuns(q)
  PROVE  /\ Running(q)' = Running(q) /\ The(q)' = The(q)
         /\ \A k \in Nat : LastTurns(runs', The(q), k) = LastTurns(runs, The(q), k)
         /\ RecallCandidates(q)' = RecallCandidates(q)
<1>1. Running(q)' = Running(q) BY DEF SameRuns, Running
<1>2. The(q)' = The(q) BY <1>1 DEF The
<1>3. \A k \in Nat : LastTurns(runs', The(q), k) = LastTurns(runs, The(q), k) BY RunningIsOne, TurnsKept
<1>4. LastTurns(runs', The(q)', Window) = LastTurns(runs, The(q), Window) BY <1>2, <1>3, Bounds
<1>5. RecallCandidates(q)' = RecallCandidates(q) BY <1>4 DEF RecallCandidates, SameRuns
<1> QED BY <1>1, <1>2, <1>3, <1>5

(* The earlier turns of the chat are finished turns of the project. *)
LEMMA TurnsAreOfProject ==
  ASSUME Types, One, NEW p \in Projects, step[p].at # "idle", NEW k \in Nat
  PROVE  LastTurns(runs, The(p), k) \subseteq RunsOf(p) \ Running(p)
<1>1. LastTurns(runs, The(p), k) \subseteq Past(runs, The(p)) BY DEF LastTurns
<1>2. Past(runs, The(p)) \subseteq RunsOf(p) BY RunningIsOne DEF Past, RunsOf, ProjectOf
<1>3. The(p) \notin Past(runs, The(p)) BY RunningIsOne, BeforeOrders DEF Types, Past
<1> QED BY <1>1, <1>2, <1>3, RunningIsOne

--------------------------------------------------------------------------------
(* The step of a run by itself                                                       *)

LEMMA ScoreFacts ==
  /\ \A f \in Scores : f \in [DOMAIN f -> Nat] /\ DOMAIN f \subseteq Nat
  /\ \A D \in SUBSET Nat : [D -> Nat] \subseteq Scores
  /\ <<>> \in Scores /\ DOMAIN <<>> = {}
<1>1. \A f \in Scores : f \in [DOMAIN f -> Nat] /\ DOMAIN f \subseteq Nat
  <2> SUFFICES ASSUME NEW D \in SUBSET Nat, NEW f \in [D -> Nat]
               PROVE  f \in [DOMAIN f -> Nat] /\ DOMAIN f \subseteq Nat
    BY DEF Scores
  <2> QED OBVIOUS
<1>2. \A D \in SUBSET Nat : [D -> Nat] \subseteq Scores BY DEF Scores
<1>3. <<>> \in [{} -> Nat] /\ DOMAIN <<>> = {} OBVIOUS
<1> QED BY <1>1, <1>2, <1>3 DEF Scores

LEMMA LeftFacts ==
  ASSUME NEW s \in StepRecs, Parts(s)
  PROVE  /\ IsFiniteSet(s.kept) /\ Cardinality(s.kept) \in Nat /\ Cardinality(DOMAIN s.score) \in Nat
         /\ Cardinality(s.kept) <= Cardinality(DOMAIN s.score)
         /\ IsFiniteSet(Outs(s)) /\ Cardinality(Outs(s)) \in Nat /\ Cardinality(Outs(s)) <= s.earlier
         /\ s.window \in Nat /\ s.window <= Window /\ s.passes \in Nat /\ s.earlier \in Nat
<1>1. IsFiniteSet(DOMAIN s.score) /\ s.kept \in SUBSET DOMAIN s.score BY DEF Parts
<1>2. IsFiniteSet(s.kept) /\ Cardinality(s.kept) <= Cardinality(DOMAIN s.score) BY <1>1, FS_Subset
<1>3. s.earlier \in Nat /\ s.passes \in Nat /\ s.window \in 0..Window BY DEF StepRecs
<1>4. IsFiniteSet(1..s.earlier) /\ Cardinality(1..s.earlier) = s.earlier
  <2>1. \A e \in Nat : IsFiniteSet(1..e) /\ Cardinality(1..e) = IF 1 > e THEN 0 ELSE e - 1 + 1
    BY FS_Interval
  <2>2. \A e \in Nat : IsFiniteSet(1..e) /\ Cardinality(1..e) = e BY <2>1
  <2> QED BY <1>3, <2>2
<1>5. Outs(s) \in SUBSET (1..s.earlier) BY DEF Outs
<1>6. IsFiniteSet(Outs(s)) /\ Cardinality(Outs(s)) <= s.earlier BY <1>4, <1>5, FS_Subset
<1> QED BY <1>1, <1>2, <1>3, <1>6, FS_CardinalityType, Bounds

LEMMA LeftIsNat == ASSUME NEW s \in StepRecs, Parts(s) PROVE Left(s) \in Nat
BY LeftFacts DEF Left

(* An IR of which nothing is left out yet. *)
LEMMA UntouchedOK ==
  ASSUME NEW s \in StepRecs, Parts(s), Untouched(s), ~s.done, s.at = "compile", s.passes = 0
  PROVE  StepOK(s)
<1>1. Starting(s) BY DEF Starting
<1>2. InOrder(s) BY Bounds DEF InOrder, Untouched
<1>3. Ending(s) BY LeftFacts, Bounds DEF Ending, Left, Untouched
<1> QED BY <1>1, <1>2, <1>3 DEF StepOK

LEMMA RefillOK ==
  ASSUME NEW s \in StepRecs, Parts(s), s.passes = 0,
         NEW outputs \in Seq(Nat), NEW earlier \in Nat, earlier <= Len(outputs),
         NEW compacted \in SUBSET (1..earlier), NEW t, t = Refill(s, outputs, earlier, compacted)
  PROVE  /\ t \in StepRecs /\ StepOK(t) /\ Untouched(t)
         /\ ~t.done /\ t.at = "compile" /\ t.score = s.score
         /\ t.all = s.all /\ t.policy = s.policy
<1>1. t \in StepRecs
  <2>1. DOMAIN s.score \in SUBSET Nat BY ScoreFacts DEF StepRecs
  <2>2. compacted \in SUBSET Nat /\ Window \in 0..Window BY Bounds
  <2>3. t = [s EXCEPT !.at = "compile", !.outputs = outputs, !.earlier = earlier,
                      !.compacted = compacted, !.omitted = compacted, !.kept = DOMAIN s.score,
                      !.window = Window, !.done = FALSE]
    BY DEF Refill
  <2> QED BY <2>1, <2>2, <2>3 DEF StepRecs, Stages
<1>2. /\ t.kept = DOMAIN s.score /\ t.score = s.score /\ t.window = Window /\ t.omitted = compacted
      /\ t.compacted = compacted /\ t.earlier = earlier /\ t.outputs = outputs
      /\ t.passes = 0 /\ t.done = FALSE /\ t.at = "compile" /\ t.all = s.all /\ t.policy = s.policy
  BY DEF StepRecs, Refill
<1>3. Parts(t) /\ Untouched(t) BY <1>2 DEF Parts, Untouched
<1> QED BY <1>1, <1>2, <1>3, UntouchedOK

(* A pass that leaves out turns or outputs, and one that leaves out all there are. *)
LEMMA CutOK ==
  ASSUME NEW s \in StepRecs, StepOK(s), s.at = "compile",
         NEW T \in SUBSET s.kept, NEW O \in SUBSET Outs(s), T \cup O # {}, O # {} => T = s.kept,
         \A d \in T, k \in s.kept \ T : s.score[d] <= s.score[k],
         NEW t, t = [s EXCEPT !.kept = @ \ T, !.omitted = @ \cup O, !.passes = @ + 1]
  PROVE  t \in StepRecs /\ StepOK(t)
<1>1. t \in StepRecs
  <2>1. s.kept \ T \in SUBSET Nat /\ s.passes + 1 \in Nat BY DEF StepRecs
  <2>2. O \in SUBSET Nat /\ s.omitted \in SUBSET Nat BY DEF Outs, StepRecs
  <2>3. s.omitted \cup O \in SUBSET Nat BY <2>2
  <2> QED BY <2>1, <2>3 DEF StepRecs
<1>2. /\ t.kept = s.kept \ T /\ t.omitted = s.omitted \cup O /\ t.passes = s.passes + 1
      /\ t.score = s.score /\ t.compacted = s.compacted /\ t.earlier = s.earlier /\ t.at = "compile"
      /\ t.outputs = s.outputs /\ t.window = s.window /\ t.done = s.done
  BY DEF StepRecs
<1>3. Parts(s) /\ InOrder(s) /\ Ending(s) BY DEF StepOK
<1>4. Outs(t) = Outs(s) \ O BY <1>2 DEF Outs
<1>5. Parts(t) BY <1>2, <1>3 DEF Parts, Outs
<1>6. InOrder(t)
  <2>1. t.window < Window => t.kept = {} /\ Outs(t) = {} BY <1>2, <1>3, <1>4 DEF InOrder
  <2>2. t.omitted \ t.compacted # {} => t.kept = {} BY <1>2, <1>3 DEF InOrder
  <2>3. \A d \in (DOMAIN t.score) \ t.kept, k \in t.kept : t.score[d] <= t.score[k]
    BY <1>2, <1>3 DEF InOrder
  <2> QED BY <2>1, <2>2, <2>3 DEF InOrder
<1>7. Cardinality(t.kept) + Cardinality(Outs(t)) < Cardinality(s.kept) + Cardinality(Outs(s))
  <2>1. IsFiniteSet(s.kept) /\ IsFiniteSet(Outs(s)) /\ Cardinality(s.kept) \in Nat
        /\ Cardinality(Outs(s)) \in Nat
    BY <1>3, LeftFacts
  <2>2. Cardinality(t.kept) \in Nat /\ Cardinality(Outs(t)) \in Nat BY <1>1, <1>5, LeftFacts
  <2>3. t.kept \in SUBSET s.kept /\ Outs(t) \in SUBSET Outs(s) BY <1>2, <1>4
  <2>4. t.kept # s.kept \/ Outs(t) # Outs(s) BY <1>2, <1>4
  <2>5. /\ Cardinality(t.kept) <= Cardinality(s.kept)
        /\ t.kept # s.kept => Cardinality(t.kept) # Cardinality(s.kept)
    BY <2>1, <2>3, FS_Subset
  <2>6. /\ Cardinality(Outs(t)) <= Cardinality(Outs(s))
        /\ Outs(t) # Outs(s) => Cardinality(Outs(t)) # Cardinality(Outs(s))
    BY <2>1, <2>3, FS_Subset
  <2> QED BY <2>1, <2>2, <2>4, <2>5, <2>6
<1>8. Ending(t)
  <2>1. s.passes + Left(s) <= Cardinality(DOMAIN s.score) + s.earlier + Window + 1
    BY <1>3 DEF Ending
  <2>2. Cardinality(t.kept) \in Nat /\ Cardinality(Outs(t)) \in Nat BY <1>1, <1>5, LeftFacts
  <2>3. t.passes + Left(t) <= s.passes + Left(s) BY <1>2, <1>3, <1>7, <2>2, LeftFacts DEF Left
  <2>4. Left(s) \in Nat /\ Left(t) \in Nat BY <1>1, <1>3, <1>5, LeftIsNat
  <2> QED BY <1>2, <1>3, <2>1, <2>3, <2>4, LeftFacts, Bounds DEF Ending
<1>9. Starting(t) BY <1>2 DEF Starting
<1> QED BY <1>1, <1>5, <1>6, <1>8, <1>9 DEF StepOK

LEMMA EverythingOK ==
  ASSUME NEW s \in StepRecs, StepOK(s), s.at = "compile", ~s.done,
         NEW recent \in Nat, recent <= s.window,
         NEW t, t = [s EXCEPT !.kept = {}, !.omitted = @ \cup Outs(s),
                              !.window = IF recent > 0 THEN recent - 1 ELSE @,
                              !.done = (recent = 0), !.passes = @ + 1]
  PROVE  t \in StepRecs /\ StepOK(t)
<1>1. s.window \in Nat /\ s.window <= Window BY Bounds DEF StepRecs
<1>2. t \in StepRecs
  <2>1. (IF recent > 0 THEN recent - 1 ELSE s.window) \in 0..Window /\ s.passes + 1 \in Nat
    BY <1>1, Bounds DEF StepRecs
  <2>2. Outs(s) \in SUBSET Nat /\ s.omitted \in SUBSET Nat BY DEF Outs, StepRecs
  <2>3. s.omitted \cup Outs(s) \in SUBSET Nat BY <2>2
  <2> QED BY <2>1, <2>3 DEF StepRecs
<1>3. /\ t.kept = {} /\ t.omitted = s.omitted \cup Outs(s) /\ t.passes = s.passes + 1
      /\ t.score = s.score /\ t.compacted = s.compacted /\ t.earlier = s.earlier /\ t.at = "compile"
      /\ t.outputs = s.outputs /\ (t.done <=> recent = 0)
      /\ t.window = IF recent > 0 THEN recent - 1 ELSE s.window
  BY DEF StepRecs
<1>4. Parts(s) /\ InOrder(s) /\ Ending(s) BY DEF StepOK
<1>5. Outs(t) = {} BY <1>3 DEF Outs
<1>6. Parts(t) BY <1>3, <1>4 DEF Parts, Outs
<1>7. InOrder(t) BY <1>3, <1>5 DEF InOrder
<1>8. Ending(t)
  <2>1. s.passes + Left(s) <= Cardinality(DOMAIN s.score) + s.earlier + Window + 1
    BY <1>4 DEF Ending
  <2>2. Left(s) = Cardinality(s.kept) + Cardinality(Outs(s)) + s.window + 1 BY DEF Left
  <2>3. Left(t) = t.window + (IF t.done THEN 0 ELSE 1)
    <3>1. Cardinality(t.kept) = 0 /\ Cardinality(Outs(t)) = 0 BY <1>3, <1>5, FS_EmptySet
    <3>2. t.window \in Nat BY <1>1, <1>3
    <3> QED BY <3>1, <3>2 DEF Left
  <2>4. Left(t) + 1 <= s.window + 1 /\ Left(t) \in Nat BY <1>1, <1>3, <2>3
  <2> QED BY <1>1, <1>3, <1>4, <2>1, <2>2, <2>4, LeftFacts, Bounds DEF Ending
<1>9. Starting(t) BY <1>3 DEF Starting
<1> QED BY <1>2, <1>6, <1>7, <1>8, <1>9 DEF StepOK

--------------------------------------------------------------------------------
(* What a step leaves of the view of a run                                           *)

(* The nodes and edges of others, or of the run itself, come to be. *)
Grown(q) ==
    /\ \A n \in DOMAIN nodes : n \in DOMAIN nodes' /\ nodes'[n] = nodes[n]
    /\ \A n \in (DOMAIN nodes') \ DOMAIN nodes : nodes'[n].project = q => nodes'[n].by = The(q)
    /\ supersedes \subseteq supersedes'
    /\ \A e \in supersedes' \ supersedes : e[3] = The(q) \/ e[2] \notin NodesOf(q)

SameFitting(s, t) ==
    /\ t.policy = s.policy /\ t.budget = s.budget /\ t.score = s.score /\ t.all = s.all
    /\ t.kept = s.kept /\ t.window = s.window /\ t.outputs = s.outputs /\ t.earlier = s.earlier
    /\ t.compacted = s.compacted /\ t.omitted = s.omitted /\ t.done = s.done

LEMMA WholeSizeKept ==
  ASSUME Types, One, NEW q \in Projects, step[q].at # "idle", SameRuns(q),
         step'[q].score = step[q].score, step'[q].outputs = step[q].outputs,
         step'[q].compacted = step[q].compacted
  PROVE  WholeSize(q)' = WholeSize(q)
<1>1. LastTurns(runs, The(q), Window)' = LastTurns(runs, The(q), Window)
  BY SeenRuns, Bounds
<1>2. Shown(q, step[q].compacted)' = Shown(q, step[q].compacted) BY DEF Shown
<1> QED BY <1>1, <1>2 DEF WholeSize

LEMMA IrSizeKept ==
  ASSUME Types, One, NEW q \in Projects, step[q].at # "idle", SameRuns(q),
         SameFitting(step[q], step'[q])
  PROVE  /\ IrSize(q)' = IrSize(q) /\ RecentTurns(q)' = RecentTurns(q)
         /\ EarlierOutputs(q)' = EarlierOutputs(q)
<1>1. step[q].window \in Nat BY Bounds DEF Types, StepRecs
<1>2. RecentTurns(q)' = RecentTurns(q)
  <2>1. RecentTurns(q)' = LastTurns(runs', The(q)', step[q].window) BY DEF RecentTurns, SameFitting
  <2> QED BY <1>1, <2>1, SeenRuns DEF RecentTurns
<1>3. Shown(q, step[q].omitted)' = Shown(q, step[q].omitted) BY DEF Shown, SameFitting
<1>4. IrSize(q)' = IrSize(q) BY <1>2, <1>3 DEF IrSize, SameFitting
<1>5. EarlierOutputs(q)' = EarlierOutputs(q) BY DEF EarlierOutputs, SameFitting
<1> QED BY <1>2, <1>4, <1>5

LEMMA CompleteKept ==
  ASSUME Types, Rows, One, NEW q \in Projects, step[q].at # "idle", SameRuns(q), Grown(q),
         runs[The(q)].context \subseteq runs'[The(q)].context,
         step'[q].score = step[q].score, step'[q].all = step[q].all, Complete(q)
  PROVE  Complete(q)'
<1>1. The(q)' = The(q) /\ RecallCandidates(q)' = RecallCandidates(q) BY SeenRuns
<1>2. The(q) \in Nat BY RunningIsOne DEF Types
<1>3. \A n \in NodesOf(q)' : nodes'[n].by < The(q) => n \in NodesOf(q) /\ nodes[n].by < The(q)
  BY <1>2 DEF Grown, NodesOf
<1> QED BY <1>1, <1>3 DEF Complete

LEMMA StaysOutKept ==
  ASSUME Types, Rows, One, NEW q \in Projects, step[q].at # "idle", SameRuns(q), Grown(q),
         runs'[The(q)].context = runs[The(q)].context,
         step'[q].policy = step[q].policy, step'[q].all = step[q].all, StaysOut(q)
  PROVE  StaysOut(q)'
<1>1. The(q)' = The(q) BY SeenRuns
<1>2. The(q) \in DOMAIN runs /\ The(q) \in Nat /\ ProjectOf(The(q)) = q BY RunningIsOne DEF Types
<1>3. runs[The(q)].context \subseteq NodesOf(q) BY <1>2 DEF Rows
<1>4. ASSUME NEW e \in supersedes', e[3] < The(q),
             \A x \in supersedes : x[3] < The(q) => x[2] \notin runs[The(q)].context
      PROVE  e[2] \notin runs[The(q)].context
  <2>1. CASE e \in supersedes BY <1>4, <2>1
  <2>2. CASE e \notin supersedes BY <1>2, <1>3, <1>4, <2>2 DEF Grown
  <2> QED BY <2>1, <2>2
<1> QED BY <1>1, <1>4 DEF StaysOut

LEMMA SameView ==
  ASSUME Types, Rows, One, NEW q \in Projects, step[q].at # "idle", ViewOK(q),
         SameRuns(q), Grown(q), runs'[The(q)].context = runs[The(q)].context,
         SameFitting(step[q], step'[q]),
         step'[q].at = "infer" => step[q].at = "infer" \/ step[q].done \/ ~TooLarge(q)
  PROVE  ViewOK(q)'
<1>1. Complete(q)' BY CompleteKept DEF SameFitting, ViewOK
<1>2. StaysOut(q)' BY StaysOutKept DEF SameFitting, ViewOK
<1>3. TooLarge(q)' <=> TooLarge(q) BY IrSizeKept DEF TooLarge, SameFitting
<1>4. Fits(q)' BY <1>3, IrSizeKept DEF SameFitting, Fits, ViewOK
<1>5. WholeSize(q)' = WholeSize(q) BY WholeSizeKept DEF SameFitting
<1>6. Whole(q)' BY <1>5 DEF SameFitting, Whole, Untouched, ViewOK
<1>7. (DOMAIN step[q].score \subseteq RecallCandidates(q))' BY SeenRuns DEF SameFitting, ViewOK
<1> QED BY <1>1, <1>2, <1>4, <1>6, <1>7 DEF ViewOK

(* A step that has nothing of its run yet. *)
LEMMA FreshView ==
  ASSUME NEW q \in Projects, DOMAIN step'[q].score = {}, ~step'[q].all, ~step'[q].policy,
         ~step'[q].done, step'[q].at # "infer", Untouched(step'[q])
  PROVE  ViewOK(q)'
BY DEF ViewOK, Complete, StaysOut, Fits, Whole

LEMMA IdleIsOK ==
  /\ Idle \in StepRecs /\ StepOK(Idle) /\ Untouched(Idle) /\ DOMAIN Idle.score = {}
  /\ Idle.at = "idle" /\ ~Idle.all /\ ~Idle.policy /\ ~Idle.done
<1>1. Idle \in StepRecs BY ScoreFacts, Bounds DEF Idle, StepRecs, Stages
<1>2. Parts(Idle) /\ Outs(Idle) = {} BY FS_EmptySet, ScoreFacts DEF Idle, Parts, Outs
<1>3. Untouched(Idle) BY ScoreFacts DEF Untouched, Idle
<1>4. InOrder(Idle) BY <1>2, Bounds DEF InOrder, Idle
<1>5. Starting(Idle) BY DEF Starting, Idle
<1>6. Ending(Idle) BY DEF Ending, Idle
<1> QED BY <1>1, <1>2, <1>3, <1>4, <1>5, <1>6, ScoreFacts DEF StepOK, Idle

(* The views of the runs of other projects. *)
LEMMA OtherViews ==
  ASSUME IInv, NEW q \in Projects, step'[q] = step[q], SameRuns(q), Grown(q),
         \A r \in RunsOf(q) : runs'[r].context = runs[r].context
  PROVE  StepOK(step'[q]) /\ ViewOK(q)'
<1>1. StepOK(step[q]) /\ ViewOK(q) /\ Types /\ Rows /\ One BY DEF IInv
<1>2. CASE step[q].at # "idle"
  <2>1. The(q) \in RunsOf(q) BY <1>1, <1>2, RunningIsOne
  <2>2. SameFitting(step[q], step'[q]) BY DEF SameFitting
  <2> QED BY <1>1, <1>2, <2>1, <2>2, SameView
<1>3. CASE step[q].at = "idle"
  <2>1. step[q] = [Idle EXCEPT !.at = "idle"] BY <1>1, <1>3 DEF StepOK, Starting
  <2>2. step[q] = Idle BY <2>1 DEF Idle
  <2> QED BY <2>2, IdleIsOK, FreshView
<1> QED BY <1>2, <1>3

--------------------------------------------------------------------------------
(* Steps of a run that leave the rows alone                                          *)

LEMMA StandStill ==
  ASSUME UNCHANGED <<chats, runs, nodes, supersedes>>, NEW q \in Projects
  PROVE  SameRuns(q) /\ Grown(q)
<1>1. SameRuns(q) BY DEF SameRuns, RunsOf, ProjectOf
<1> QED BY <1>1 DEF Grown

LEMMA StepAlone ==
  ASSUME IInv, NEW p \in Projects, NEW t \in StepRecs, step' = [step EXCEPT ![p] = t],
         UNCHANGED <<chats, runs, nodes, supersedes>>,
         step[p].at # "idle", t.at # "idle", StepOK(t), ViewOK(p)'
  PROVE  IInv'
<1>1. step'[p] = t /\ \A q \in Projects \ {p} : step'[q] = step[q] BY DEF IInv, Types
<1>2. Types' BY DEF IInv, Types
<1>3. Rows' BY DEF IInv, Rows, NodesOf, ProjectOf
<1>4. One' BY <1>1 DEF IInv, One, Running, RunsOf, ProjectOf
<1>5. RememberedOnce' BY DEF IInv, RememberedOnce, NodesOf
<1>6. \A q \in Projects : StepOK(step'[q]) /\ ViewOK(q)'
  <2> SUFFICES ASSUME NEW q \in Projects, q # p PROVE StepOK(step'[q]) /\ ViewOK(q)'
    BY <1>1
  <2> QED BY <1>1, StandStill, OtherViews
<1> QED BY <1>2, <1>3, <1>4, <1>5, <1>6 DEF IInv

(* What is recalled for a run. *)
LEMMA HoldOK ==
  ASSUME NEW s \in StepRecs, StepOK(s), s.at = "recall", NEW t \in StepRecs,
         IsFiniteSet(DOMAIN t.score), t.at = "compile", t.kept = DOMAIN t.score,
         t.done = s.done, t.passes = s.passes, t.window = s.window, t.omitted = s.omitted,
         t.compacted = s.compacted, t.outputs = s.outputs, t.earlier = s.earlier
  PROVE  StepOK(t) /\ Untouched(t) /\ ~t.done /\ ~s.all
<1>1. s = [Idle EXCEPT !.at = "recall", !.policy = s.policy] BY DEF StepOK, Starting
<1>2. /\ s.done = FALSE /\ s.passes = 0 /\ s.omitted = {} /\ s.compacted = {}
      /\ s.window = Window /\ s.outputs = <<>> /\ s.earlier = 0 /\ s.all = FALSE
  BY <1>1 DEF Idle
<1>3. Parts(t) BY <1>2 DEF Parts
<1>4. Untouched(t) BY <1>2 DEF Untouched
<1>5. ~t.done /\ t.passes = 0 BY <1>2
<1> QED BY <1>2, <1>3, <1>4, <1>5, UntouchedOK

LEMMA RecallableAreFinite ==
  ASSUME Types, NEW p \in Projects, NEW D \in SUBSET RecallCandidates(p)
  PROVE  IsFiniteSet(D) /\ D \subseteq Nat
<1>1. D \in SUBSET DOMAIN runs /\ runs \in Seq(RunRecs) BY DEF RecallCandidates, RunsOf, Types
<1>2. IsFiniteSet(DOMAIN runs) BY <1>1, RunsAreFinite
<1> QED BY <1>1, <1>2, FS_Subset

LEMMA RecallTurnsStep == ASSUME IInv, NEW p \in Projects, RecallTurns(p) PROVE IInv'
<1>1. PICK relevant \in SUBSET RecallCandidates(p) :
        \E budget \in Budgets : \E score \in [relevant -> 1..2] : Hold(p, score, FALSE, budget)
  BY DEF RecallTurns
<1>2. PICK budget \in Budgets, score \in [relevant -> 1..2] : Hold(p, score, FALSE, budget)
  BY <1>1
<1>3. step[p].at = "recall" /\ UNCHANGED <<chats, runs, nodes, supersedes>> BY DEF RecallTurns
<1>4. Types /\ step[p] \in StepRecs /\ StepOK(step[p]) BY DEF IInv, Types
<1>5. score \in Scores /\ DOMAIN score = relevant /\ relevant \in SUBSET Nat /\ IsFiniteSet(relevant)
  <2>1. relevant \in SUBSET Nat /\ IsFiniteSet(relevant) BY <1>4, RecallableAreFinite
  <2>2. score \in [relevant -> Nat] OBVIOUS
  <2> QED BY <2>1, <2>2, ScoreFacts
<1>6. PICK t : t = [step[p] EXCEPT !.at = "compile", !.score = score, !.all = FALSE,
                                   !.kept = DOMAIN score, !.budget = budget]
  OBVIOUS
<1>7. step' = [step EXCEPT ![p] = t] /\ step'[p] = t BY <1>2, <1>6 DEF Hold, IInv, Types
<1>8. t \in StepRecs BY <1>4, <1>5, <1>6 DEF StepRecs, Stages
<1>9. /\ t.at = "compile" /\ t.score = score /\ t.kept = DOMAIN t.score /\ ~t.all
       /\ t.done = step[p].done /\ t.passes = step[p].passes /\ t.window = step[p].window
       /\ t.omitted = step[p].omitted /\ t.compacted = step[p].compacted
       /\ t.outputs = step[p].outputs /\ t.earlier = step[p].earlier /\ t.policy = step[p].policy
  BY <1>4, <1>6 DEF StepRecs
<1>10. StepOK(t) /\ Untouched(t) /\ ~t.done /\ ~step[p].all
  BY <1>3, <1>4, <1>5, <1>8, <1>9, HoldOK
<1>11. Types /\ Rows /\ One /\ ViewOK(p) /\ SameRuns(p) /\ Grown(p) BY <1>3, StandStill DEF IInv
<1>12. ViewOK(p)'
  <2>1. Complete(p)' BY <1>9, <1>7 DEF Complete
  <2>2. step'[p].all = step[p].all BY <1>4, <1>8, <1>9, <1>10, <1>7 DEF StepRecs
  <2>3. StaysOut(p)' BY <1>3, <1>9, <1>7, <1>11, <2>2, StaysOutKept DEF ViewOK
  <2>4. Fits(p)' BY <1>9, <1>10, <1>7 DEF Fits
  <2>5. Whole(p)' BY <1>10, <1>7 DEF Whole
  <2>6. (DOMAIN step[p].score \subseteq RecallCandidates(p))' BY <1>3, <1>5, <1>9, <1>7, <1>11, SeenRuns
  <2> QED BY <2>1, <2>3, <2>4, <2>5, <2>6 DEF ViewOK
<1> QED BY <1>3, <1>8, <1>9, <1>10, <1>7, <1>12, StepAlone

LEMMA SendStep == ASSUME IInv, NEW p \in Projects, Send(p) PROVE IInv'
<1>1. /\ step[p].at = "compile" /\ (~TooLarge(p) \/ step[p].done)
      /\ UNCHANGED <<chats, runs, nodes, supersedes>>
  BY DEF Send
<1>2. PICK t : t = [step[p] EXCEPT !.at = "infer", !.passes = 0] OBVIOUS
<1>3. step' = [step EXCEPT ![p] = t] /\ step'[p] = t BY <1>2 DEF Send, IInv, Types
<1>4. step[p] \in StepRecs /\ StepOK(step[p]) BY DEF IInv, Types
<1>5. t \in StepRecs BY <1>2, <1>4 DEF StepRecs, Stages
<1>6. SameFitting(step[p], t) /\ t.at = "infer" /\ t.passes = 0 BY <1>2, <1>4 DEF SameFitting, StepRecs
<1>7. StepOK(t)
  <2>1. Parts(t) BY <1>4, <1>6 DEF StepOK, Parts, SameFitting
  <2>2. Outs(t) = Outs(step[p]) BY <1>6 DEF Outs, SameFitting
  <2>3. InOrder(t) BY <1>4, <1>6, <2>2 DEF StepOK, InOrder, SameFitting
  <2> QED BY <1>6, <2>1, <2>3 DEF StepOK, Starting, Ending
<1>8. ViewOK(p)' BY <1>1, <1>3, <1>6, SameView, StandStill DEF IInv
<1> QED BY <1>1, <1>3, <1>5, <1>6, <1>7, <1>8, StepAlone

LEMMA OutsOfStep == ASSUME NEW p PROVE EarlierOutputs(p) = Outs(step[p]) /\ EarlierOutputs(p)' = Outs(step'[p])
BY DEF EarlierOutputs, Outs

(* A pass of the fitting: what it leaves out was in the way of the budget. *)
LEMMA PassView ==
  ASSUME IInv, NEW p \in Projects, step[p].at = "compile", TooLarge(p), ~step[p].done,
         UNCHANGED <<chats, runs, nodes, supersedes>>,
         NEW t \in StepRecs, step'[p] = t, t.at = "compile",
         t.score = step[p].score, t.outputs = step[p].outputs, t.compacted = step[p].compacted,
         t.all = step[p].all, t.policy = step[p].policy, t.budget = step[p].budget,
         t.done => t.kept = {} /\ Outs(t) = {} /\ t.window = step[p].window /\ RecentTurns(p) = {}
  PROVE  ViewOK(p)'
<1>1. Types /\ Rows /\ One /\ ViewOK(p) /\ SameRuns(p) /\ Grown(p) BY StandStill DEF IInv
<1>2. Complete(p)' BY <1>1, CompleteKept DEF ViewOK
<1>3. StaysOut(p)' BY <1>1, StaysOutKept DEF ViewOK
<1>4. Fits(p)'
  <2>1. ASSUME t.done PROVE RecentTurns(p)' = {}
    <3>1. step[p].window \in Nat BY <1>1, Bounds DEF Types, StepRecs
    <3>2. LastTurns(runs', The(p)', step[p].window) = LastTurns(runs, The(p), step[p].window)
      BY <1>1, <3>1, SeenRuns
    <3> QED BY <2>1, <3>2 DEF RecentTurns
  <2> QED BY <2>1, OutsOfStep DEF Fits
<1>5. step[p].budget # Unknown /\ ~(WholeSize(p) < step[p].budget)
  <2>1. ASSUME Untouched(step[p]) PROVE IrSize(p) = WholeSize(p)
    BY <2>1 DEF Untouched, IrSize, WholeSize, RecentTurns
  <2> QED BY <1>1, <2>1 DEF TooLarge, ViewOK, Whole
<1>6. Whole(p)' BY <1>1, <1>5, WholeSizeKept DEF Whole
<1>7. (DOMAIN step[p].score \subseteq RecallCandidates(p))' BY <1>1, SeenRuns DEF ViewOK
<1> QED BY <1>2, <1>3, <1>4, <1>6, <1>7 DEF ViewOK

LEMMA LeaveOutStep == ASSUME IInv, NEW p \in Projects, LeaveOut(p) PROVE IInv'
<1> DEFINE s == step[p]
           recent == Cardinality(RecentTurns(p))
<1>1. /\ s.at = "compile" /\ TooLarge(p) /\ ~s.done
      /\ UNCHANGED <<chats, runs, nodes, supersedes>>
  BY DEF LeaveOut
<1>2. Types /\ s \in StepRecs /\ StepOK(s) BY DEF IInv, Types
<1>3. EarlierOutputs(p) = Outs(s) BY OutsOfStep
<1>4. CASE \E cut \in Enough(p) :
             step' = [step EXCEPT ![p].kept = @ \ cut.turns,
                                  ![p].omitted = @ \cup cut.outputs, ![p].passes = @ + 1]
  <2>1. PICK cut \in Enough(p) :
             step' = [step EXCEPT ![p].kept = @ \ cut.turns,
                                  ![p].omitted = @ \cup cut.outputs, ![p].passes = @ + 1]
    BY <1>4
  <2>2. /\ cut.turns \in SUBSET s.kept /\ cut.outputs \in SUBSET Outs(s)
        /\ cut.turns \cup cut.outputs # {} /\ (cut.outputs # {} => cut.turns = s.kept)
        /\ \A d \in cut.turns, k \in s.kept \ cut.turns : GoesBefore(p, d, k)
    BY <1>3 DEF Enough, Cuts
  <2>3. \A d \in cut.turns, k \in s.kept \ cut.turns : s.score[d] <= s.score[k]
    <3>1. s.score \in [DOMAIN s.score -> Nat] BY <1>2, ScoreFacts DEF StepRecs
    <3>2. \A d \in s.kept : s.score[d] \in Nat BY <1>2, <3>1 DEF StepOK, Parts
    <3> QED BY <2>2, <3>2 DEF GoesBefore
  <2>4. PICK t : t = [s EXCEPT !.kept = @ \ cut.turns, !.omitted = @ \cup cut.outputs,
                               !.passes = @ + 1]
    OBVIOUS
  <2>5. t \in StepRecs /\ StepOK(t) BY <1>1, <1>2, <2>2, <2>3, <2>4, CutOK
  <2>6. step' = [step EXCEPT ![p] = t] /\ step'[p] = t BY <1>2, <2>1, <2>4 DEF Types
  <2>7. /\ t.at = "compile" /\ t.score = s.score /\ t.outputs = s.outputs /\ t.compacted = s.compacted
        /\ t.all = s.all /\ t.policy = s.policy /\ t.budget = s.budget /\ ~t.done
    BY <1>1, <1>2, <2>4 DEF StepRecs
  <2>8. ViewOK(p)' BY <1>1, <2>5, <2>6, <2>7, PassView
  <2> QED BY <1>1, <2>5, <2>6, <2>7, <2>8, StepAlone
<1>5. CASE step' = [step EXCEPT ![p].kept = {}, ![p].omitted = @ \cup EarlierOutputs(p),
                                ![p].window = IF recent > 0 THEN recent - 1 ELSE @,
                                ![p].done = (recent = 0), ![p].passes = @ + 1]
  <2>1. runs \in Seq(RunRecs) /\ s.window \in Nat BY <1>2, Bounds DEF Types, StepRecs
  <2>2. recent \in Nat /\ recent <= s.window /\ IsFiniteSet(RecentTurns(p))
    BY <2>1, LastTurnsAreFew DEF RecentTurns
  <2>3. PICK t : t = [s EXCEPT !.kept = {}, !.omitted = @ \cup Outs(s),
                               !.window = IF recent > 0 THEN recent - 1 ELSE @,
                               !.done = (recent = 0), !.passes = @ + 1]
    OBVIOUS
  <2>4. t \in StepRecs /\ StepOK(t) BY <1>1, <1>2, <2>2, <2>3, EverythingOK
  <2>5. step' = [step EXCEPT ![p] = t] /\ step'[p] = t BY <1>2, <1>3, <1>5, <2>3 DEF Types
  <2>6. /\ t.at = "compile" /\ t.score = s.score /\ t.outputs = s.outputs /\ t.compacted = s.compacted
        /\ t.all = s.all /\ t.policy = s.policy /\ t.budget = s.budget /\ (t.done <=> recent = 0)
        /\ t.kept = {} /\ t.omitted = s.omitted \cup Outs(s) /\ t.earlier = s.earlier
        /\ t.window = IF recent > 0 THEN recent - 1 ELSE s.window
    BY <1>1, <1>2, <2>3 DEF StepRecs
  <2>7. t.done => t.kept = {} /\ Outs(t) = {} /\ t.window = s.window /\ RecentTurns(p) = {}
    <3>1. Outs(t) = {} BY <2>6 DEF Outs
    <3>2. recent = 0 => RecentTurns(p) = {} BY <2>2, FS_EmptySet
    <3> QED BY <2>2, <2>6, <3>1, <3>2
  <2>8. ViewOK(p)' BY <1>1, <2>4, <2>5, <2>6, <2>7, PassView
  <2> QED BY <1>1, <2>4, <2>5, <2>6, <2>8, StepAlone
<1> QED BY <1>4, <1>5 DEF LeaveOut

--------------------------------------------------------------------------------
(* Steps of a run that change its context                                            *)

LEMMA OwnTask ==
  ASSUME IInv, NEW p \in Projects, step[p].at # "idle"
  PROVE  /\ The(p) \in DOMAIN runs /\ The(p) \in Nat /\ ProjectOf(The(p)) = p
         /\ runs[The(p)] \in RunRecs
         /\ runs[The(p)].context \subseteq Candidates(p) /\ Candidates(p) \subseteq NodesOf(p)
         /\ Candidates(p) \subseteq Nat
         /\ \A n \in NodesOf(p) : nodes[n].by < The(p) => n \in Candidates(p)
<1>1. The(p) \in DOMAIN runs /\ ProjectOf(The(p)) = p BY RunningIsOne DEF IInv
<1>2. The(p) \in Nat /\ runs[The(p)] \in RunRecs BY <1>1 DEF IInv, Types
<1>3. runs[The(p)].context \subseteq NodesOf(p) \ {runs[The(p)].task} BY <1>1 DEF IInv, Rows
<1>4. nodes[runs[The(p)].task].by = The(p) BY <1>1 DEF IInv, Rows
<1>5. NodesOf(p) \subseteq Nat BY DEF NodesOf, IInv, Types
<1> QED BY <1>1, <1>2, <1>3, <1>4, <1>5 DEF Candidates

LEMMA ContextStep ==
  ASSUME IInv, NEW p \in Projects, step[p].at # "idle",
         NEW C \in SUBSET Candidates(p), runs' = [runs EXCEPT ![The(p)].context = C],
         UNCHANGED <<chats, nodes, supersedes>>,
         NEW t \in StepRecs, step' = [step EXCEPT ![p] = t], t.at # "idle", StepOK(t)
  PROVE  /\ SameRuns(p) /\ Grown(p) /\ step'[p] = t /\ runs'[The(p)].context = C /\ The(p)' = The(p)
         /\ RecallCandidates(p)' = RecallCandidates(p)
         /\ ViewOK(p)' => IInv'
<1> DEFINE r == The(p)
<1>1. /\ r \in DOMAIN runs /\ r \in Nat /\ ProjectOf(r) = p /\ runs[r] \in RunRecs
      /\ Candidates(p) \subseteq Nat /\ Types /\ Rows /\ One
  BY OwnTask DEF IInv
<1>2. /\ DOMAIN runs' = DOMAIN runs /\ runs'[r] = [runs[r] EXCEPT !.context = C]
      /\ \A x \in DOMAIN runs : x # r => runs'[x] = runs[x]
  BY <1>1 DEF Types
<1>3. \A x \in DOMAIN runs : /\ runs'[x].chat = runs[x].chat /\ runs'[x].at = runs[x].at
                             /\ runs'[x].running = runs[x].running /\ runs'[x].task = runs[x].task
                             /\ x # r => runs'[x].context = runs[x].context
  BY <1>1, <1>2 DEF RunRecs
<1>4. runs'[r].context = C BY <1>1, <1>2 DEF RunRecs
<1>5. \A q \in Projects : RunsOf(q)' = RunsOf(q) BY <1>2, <1>3 DEF RunsOf, ProjectOf
<1>6. \A q \in Projects : SameRuns(q) /\ Grown(q)
  BY <1>3, <1>5 DEF SameRuns, Grown, RunsOf
<1>7. step'[p] = t /\ \A q \in Projects \ {p} : step'[q] = step[q] BY <1>1 DEF Types
<1>8. Types'
  <2>1. [runs[r] EXCEPT !.context = C] \in RunRecs
    <3>1. C \in SUBSET Nat BY <1>1
    <3> QED BY <1>1, <3>1 DEF RunRecs
  <2>2. runs' \in Seq(RunRecs) BY <1>1, <2>1 DEF Types
  <2> QED BY <1>1, <2>2 DEF Types
<1>9. Rows'
  <2>1. \A q : NodesOf(q)' = NodesOf(q) BY DEF NodesOf
  <2>2. \A x \in DOMAIN runs : ProjectOf(x)' = ProjectOf(x) BY <1>3 DEF ProjectOf
  <2>3. C \subseteq NodesOf(ProjectOf(r)) \ {runs[r].task} BY <1>1 DEF Candidates
  <2>4. \A x \in DOMAIN runs' :
          /\ runs'[x].chat \in DOMAIN chats'
          /\ runs'[x].task \in NodesOf(ProjectOf(x))' /\ nodes'[runs'[x].task].by = x
          /\ runs'[x].context \subseteq NodesOf(ProjectOf(x))' \ {runs'[x].task}
    <3> SUFFICES ASSUME NEW x \in DOMAIN runs
                 PROVE  /\ runs'[x].chat \in DOMAIN chats'
                        /\ runs'[x].task \in NodesOf(ProjectOf(x))' /\ nodes'[runs'[x].task].by = x
                        /\ runs'[x].context \subseteq NodesOf(ProjectOf(x))' \ {runs'[x].task}
      BY <1>2
    <3>1. NodesOf(ProjectOf(x))' = NodesOf(ProjectOf(x)) BY <2>2 DEF NodesOf
    <3>2. /\ runs[x].chat \in DOMAIN chats
          /\ runs[x].task \in NodesOf(ProjectOf(x)) /\ nodes[runs[x].task].by = x
          /\ runs[x].context \subseteq NodesOf(ProjectOf(x)) \ {runs[x].task}
      BY <1>1 DEF Rows
    <3> QED BY <1>3, <1>4, <2>3, <3>1, <3>2
  <2>5. \A n \in DOMAIN nodes' : nodes'[n].by \in DOMAIN runs' /\ nodes'[n].project = ProjectOf(nodes[n].by)'
    <3> SUFFICES ASSUME NEW n \in DOMAIN nodes
                 PROVE  nodes[n].by \in DOMAIN runs /\ nodes[n].project = ProjectOf(nodes[n].by)'
      BY <1>2
    <3>1. nodes[n].by \in DOMAIN runs /\ nodes[n].project = ProjectOf(nodes[n].by) BY <1>1 DEF Rows
    <3>2. runs'[nodes[n].by].chat = runs[nodes[n].by].chat BY <1>3, <3>1
    <3> QED BY <3>1, <3>2 DEF ProjectOf
  <2>6. /\ supersedes' \subseteq (DOMAIN nodes') \X (DOMAIN nodes') \X (DOMAIN runs')
        /\ \A e \in supersedes' : /\ nodes'[e[1]].project = nodes'[e[2]].project
                                  /\ nodes'[e[1]].by <= e[3]
    BY <1>1, <1>2 DEF Rows
  <2> QED BY <2>4, <2>5, <2>6 DEF Rows
<1>10. One'
  <2>1. \A q \in Projects : Running(q)' = Running(q) BY <1>6 DEF SameRuns, Running
  <2> QED BY <1>1, <1>5, <1>7, <2>1 DEF One
<1>11. RememberedOnce' BY DEF IInv, RememberedOnce, NodesOf
<1>12. \A q \in Projects \ {p} : StepOK(step'[q]) /\ ViewOK(q)'
  <2> SUFFICES ASSUME NEW q \in Projects \ {p} PROVE StepOK(step'[q]) /\ ViewOK(q)' OBVIOUS
  <2>1. \A x \in RunsOf(q) : x \in DOMAIN runs /\ x # r BY <1>1 DEF RunsOf
  <2>2. \A x \in RunsOf(q) : runs'[x].context = runs[x].context BY <1>3, <2>1
  <2> QED BY <1>6, <1>7, <2>2, OtherViews
<1>13. The(p)' = The(p) /\ RecallCandidates(p)' = RecallCandidates(p) BY <1>1, <1>6, SeenRuns
<1> QED BY <1>4, <1>6, <1>7, <1>8, <1>9, <1>10, <1>11, <1>12, <1>13 DEF IInv

LEMMA ClassifiedOK ==
  ASSUME NEW s \in StepRecs, StepOK(s), s.at = "classify", NEW t,
         \/ t = [s EXCEPT !.at = "recall", !.policy = FALSE]
         \/ t = [s EXCEPT !.at = "recall", !.policy = TRUE]
  PROVE  /\ t \in StepRecs /\ StepOK(t) /\ Untouched(t) /\ DOMAIN t.score = {}
         /\ t.at = "recall" /\ ~t.all /\ ~t.done
<1>1. s = [Idle EXCEPT !.at = "classify"] BY DEF StepOK, Starting
<1>2. /\ t = [Idle EXCEPT !.at = "recall", !.policy = t.policy] /\ t \in StepRecs
      /\ t.at = "recall" /\ t.all = FALSE /\ t.done = FALSE /\ t.kept = {} /\ t.score = <<>>
      /\ t.omitted = {} /\ t.compacted = {} /\ t.window = Window /\ t.passes = 0 /\ t.earlier = 0
      /\ t.outputs = <<>>
  <2>1. CASE t = [s EXCEPT !.at = "recall", !.policy = FALSE] BY <1>1, <2>1 DEF Idle, StepRecs, Stages
  <2>2. CASE t = [s EXCEPT !.at = "recall", !.policy = TRUE] BY <1>1, <2>2 DEF Idle, StepRecs, Stages
  <2> QED BY <2>1, <2>2
<1>3. Untouched(t) /\ DOMAIN t.score = {} BY <1>2, ScoreFacts DEF Untouched
<1>4. Parts(t) /\ Outs(t) = {} BY <1>2, <1>3, FS_EmptySet DEF Parts, Outs
<1>5. InOrder(t) /\ Starting(t) /\ Ending(t) BY <1>2, <1>4, Bounds DEF InOrder, Starting, Ending
<1> QED BY <1>2, <1>3, <1>4, <1>5 DEF StepOK

LEMMA ApplyStep ==
  ASSUME IInv, NEW p \in Projects, step[p].at = "classify",
         NEW answer, \A e \in answer : e[1] \in Candidates(p),
         \/ Apply(p, answer, FALSE)
         \/ Apply(p, answer, TRUE) /\ answer = PolicyAnswer(p)
  PROVE  IInv'
<1> DEFINE r == The(p)
           out == {e[1] : e \in {x \in answer : ~x[2]}}
           C == (runs[r].context \cup {e[1] : e \in {x \in answer : x[2]}}) \ out
<1>1. /\ runs' = [runs EXCEPT ![r].context = C] /\ UNCHANGED <<chats, nodes, supersedes>>
      /\ \/ step' = [step EXCEPT ![p].at = "recall", ![p].policy = FALSE]
         \/ /\ step' = [step EXCEPT ![p].at = "recall", ![p].policy = TRUE]
            /\ answer = PolicyAnswer(p)
  <2>1. CASE Apply(p, answer, FALSE) BY <2>1 DEF Apply
  <2>2. CASE Apply(p, answer, TRUE) /\ answer = PolicyAnswer(p) BY <2>2 DEF Apply
  <2> QED BY <2>1, <2>2
<1>2. C \in SUBSET Candidates(p) BY OwnTask
<1>3. step[p] \in StepRecs /\ StepOK(step[p]) /\ step \in [Projects -> StepRecs] BY DEF IInv, Types
<1>4. PICK t : /\ step' = [step EXCEPT ![p] = t]
               /\ \/ t = [step[p] EXCEPT !.at = "recall", !.policy = FALSE]
                  \/ t = [step[p] EXCEPT !.at = "recall", !.policy = TRUE] /\ answer = PolicyAnswer(p)
  <2>1. CASE step' = [step EXCEPT ![p].at = "recall", ![p].policy = FALSE] BY <1>3, <2>1
  <2>2. CASE /\ step' = [step EXCEPT ![p].at = "recall", ![p].policy = TRUE]
             /\ answer = PolicyAnswer(p)
    BY <1>3, <2>2
  <2> QED BY <1>1, <2>1, <2>2
<1>5. /\ t \in StepRecs /\ StepOK(t) /\ Untouched(t) /\ DOMAIN t.score = {}
      /\ t.at = "recall" /\ ~t.all /\ ~t.done
  BY <1>3, <1>4, ClassifiedOK
<1>6. t.policy => answer = PolicyAnswer(p) BY <1>3, <1>4 DEF StepRecs
<1>7. /\ step'[p] = t /\ runs'[r].context = C /\ The(p)' = r /\ (ViewOK(p)' => IInv')
  <2> HIDE DEF C
  <2> QED BY <1>1, <1>2, <1>4, <1>5, ContextStep
<1>8. StaysOut(p)'
  <2>1. ASSUME t.policy, NEW e \in supersedes, e[3] < r PROVE e[2] \notin C
    <3> e \in (DOMAIN nodes) \X (DOMAIN nodes) \X (DOMAIN runs) BY DEF IInv, Rows
    <3>0. e[1] \in DOMAIN nodes /\ nodes[e[1]].by \in Nat /\ e[3] \in Nat /\ r \in Nat
      <4>1. e[1] \in DOMAIN nodes /\ e[3] \in DOMAIN runs OBVIOUS
      <4>2. nodes[e[1]].by \in DOMAIN runs BY <4>1 DEF IInv, Rows
      <4>3. DOMAIN runs \subseteq Nat BY DEF IInv, Types
      <4> QED BY <4>1, <4>2, <4>3, OwnTask
    <3>1. /\ e[1] \in DOMAIN nodes /\ e[2] \in DOMAIN nodes
          /\ nodes[e[1]].project = nodes[e[2]].project /\ nodes[e[1]].by < r
      BY <2>1, <3>0 DEF IInv, Rows
    <3>2. e[2] \in Candidates(p) => e[1] \in Candidates(p)
      BY <3>1, OwnTask DEF Candidates, NodesOf
    <3>3. e[2] \in Candidates(p) => e[2] \in Superseded(p) BY <3>2 DEF Superseded
    <3>4. e[2] \in Candidates(p) /\ e[2] \in Superseded(p) => e[2] \in out
      <4>1. SUFFICES ASSUME e[2] \in Candidates(p), e[2] \in Superseded(p) PROVE e[2] \in out
        OBVIOUS
      <4> DEFINE keep == e[2] \notin Superseded(p)
                         /\ (e[2] \in Talk(p) => e[2] \in Newest(Talk(p), JevWindow))
      <4>2. <<e[2], keep>> \in answer BY <1>6, <2>1, <4>1 DEF PolicyAnswer
      <4>3. keep = FALSE BY <4>1
      <4>4. PICK w \in answer : w = <<e[2], FALSE>> BY <4>2, <4>3
      <4>5. w[1] = e[2] /\ ~w[2] BY <4>4
      <4> QED BY <4>5
    <3> QED BY <1>2, <3>3, <3>4
  <2> HIDE DEF C
  <2> QED BY <1>1, <1>7, <2>1 DEF StaysOut
<1>9. ViewOK(p)'
  <2>1. Complete(p)' BY <1>5, <1>7 DEF Complete
  <2>2. Fits(p)' BY <1>5, <1>7 DEF Fits
  <2>3. Whole(p)' BY <1>5, <1>7 DEF Whole
  <2> QED BY <1>5, <1>7, <1>8, <2>1, <2>2, <2>3 DEF ViewOK
<1> QED BY <1>7, <1>9

LEMMA ClassifyStep == ASSUME IInv, NEW p \in Projects, Classify(p) PROVE IInv'
<1>1. step[p].at = "classify" BY DEF Classify
<1>2. CASE Apply(p, PolicyAnswer(p), TRUE)
  <2>1. \A e \in PolicyAnswer(p) : e[1] \in Candidates(p) BY DEF PolicyAnswer
  <2> QED BY <1>1, <1>2, <2>1, ApplyStep
<1>3. ASSUME NEW answer, Valid(p, answer), Apply(p, answer, FALSE) PROVE IInv'
  <2>1. \A e \in answer : e[1] \in Candidates(p) BY <1>3 DEF Valid
  <2> QED BY <1>1, <1>3, <2>1, ApplyStep
<1>4. Apply(p, PolicyAnswer(p), TRUE) \/ \E answer : Valid(p, answer) /\ Apply(p, answer, FALSE)
  BY DEF Classify
<1> QED BY <1>2, <1>3, <1>4

LEMMA RecallEverythingStep == ASSUME IInv, NEW p \in Projects, RecallEverything(p) PROVE IInv'
<1> DEFINE r == The(p)
           old == RecallCandidates(p)
           rank == [x \in old |-> 1 + Cardinality({q \in old : Before(runs, q, x)})]
           C == runs[r].context \cup Candidates(p)
<1>1. /\ step[p].at = "recall" /\ UNCHANGED <<chats, nodes, supersedes>>
      /\ runs' = [runs EXCEPT ![r].context = C]
  BY DEF RecallEverything
<1>2. PICK budget \in Budgets : Hold(p, rank, TRUE, budget) BY DEF RecallEverything
<1>3. Types /\ step[p] \in StepRecs /\ StepOK(step[p]) BY DEF IInv, Types
<1>4. C = Candidates(p) BY <1>1, OwnTask
<1>5. rank \in Scores /\ DOMAIN rank = old /\ old \in SUBSET Nat /\ IsFiniteSet(old)
  <2>1. old \in SUBSET Nat /\ IsFiniteSet(old) BY <1>3, RecallableAreFinite
  <2>2. \A x \in old : Cardinality({q \in old : Before(runs, q, x)}) \in Nat
    BY <2>1, FS_Subset, FS_CardinalityType
  <2>3. rank \in [old -> Nat] BY <2>2
  <2> HIDE DEF rank, old
  <2> QED BY <2>1, <2>3, ScoreFacts
<1> HIDE DEF rank
<1>6. PICK t : t = [step[p] EXCEPT !.at = "compile", !.score = rank, !.all = TRUE,
                                   !.kept = DOMAIN rank, !.budget = budget]
  OBVIOUS
<1>7. step' = [step EXCEPT ![p] = t] BY <1>2, <1>3, <1>6 DEF Hold, Types
<1>8. t \in StepRecs BY <1>3, <1>5, <1>6 DEF StepRecs, Stages
<1>9. /\ t.at = "compile" /\ t.score = rank /\ t.kept = DOMAIN t.score /\ t.all
      /\ t.done = step[p].done /\ t.passes = step[p].passes /\ t.window = step[p].window
      /\ t.omitted = step[p].omitted /\ t.compacted = step[p].compacted
      /\ t.outputs = step[p].outputs /\ t.earlier = step[p].earlier
  BY <1>3, <1>6 DEF StepRecs
<1>10. StepOK(t) /\ Untouched(t) /\ ~t.done BY <1>1, <1>3, <1>5, <1>8, <1>9, HoldOK
<1>11. /\ step'[p] = t /\ runs'[r].context = Candidates(p) /\ The(p)' = r
       /\ RecallCandidates(p)' = RecallCandidates(p) /\ (ViewOK(p)' => IInv')
  <2>1. Candidates(p) \in SUBSET Candidates(p) /\ runs' = [runs EXCEPT ![r].context = Candidates(p)]
    BY <1>1, <1>4
  <2> QED BY <1>1, <1>7, <1>8, <1>9, <1>10, <2>1, ContextStep
<1>12. ViewOK(p)'
  <2>1. Complete(p)'
    <3>1. NodesOf(p)' = NodesOf(p) BY <1>1 DEF NodesOf
    <3>2. \A n \in NodesOf(p) : nodes[n].by < r => n \in Candidates(p) BY <1>1, OwnTask
    <3> QED BY <1>1, <1>5, <1>9, <1>11, <3>1, <3>2 DEF Complete
  <2>2. StaysOut(p)' BY <1>9, <1>11 DEF StaysOut
  <2>3. Fits(p)' BY <1>9, <1>10, <1>11 DEF Fits
  <2>4. Whole(p)' BY <1>10, <1>11 DEF Whole
  <2>5. (DOMAIN step[p].score \subseteq RecallCandidates(p))' BY <1>5, <1>9, <1>11
  <2> QED BY <2>1, <2>2, <2>3, <2>4, <2>5 DEF ViewOK
<1> QED BY <1>11, <1>12

--------------------------------------------------------------------------------
(* Steps of a run that add nodes                                                     *)

NewRows(p) ==
    /\ chats' = chats /\ DOMAIN runs' = DOMAIN runs
    /\ \A x \in DOMAIN runs : /\ runs'[x].chat = runs[x].chat /\ runs'[x].at = runs[x].at
                              /\ runs'[x].task = runs[x].task /\ runs'[x].context = runs[x].context
    /\ nodes' \in Seq(NodeRecs)
    /\ \A n \in DOMAIN nodes : n \in DOMAIN nodes' /\ nodes'[n] = nodes[n]
    /\ \A n \in (DOMAIN nodes') \ DOMAIN nodes :
          /\ nodes'[n].project = p /\ nodes'[n].by = The(p)
          /\ nodes'[n].finding # None => nodes'[n].finding \notin Known(p)
    /\ supersedes \subseteq supersedes'
    /\ \A e \in supersedes' \ supersedes :
          /\ e \in (DOMAIN nodes') \X (DOMAIN nodes') \X (DOMAIN runs) /\ e[3] = The(p)
          /\ nodes'[e[1]].project = p /\ nodes'[e[2]].project = p /\ nodes'[e[1]].by <= The(p)

LEMMA NewRowsOK ==
  ASSUME IInv, NEW p \in Projects, step[p].at # "idle", NewRows(p)
  PROVE  Rows' /\ RememberedOnce' /\ \A q \in Projects : Grown(q) /\ RunsOf(q)' = RunsOf(q)
<1>1. The(p) \in DOMAIN runs /\ ProjectOf(The(p)) = p /\ Rows BY OwnTask DEF IInv
<1>2. \A x \in DOMAIN runs : ProjectOf(x)' = ProjectOf(x) BY DEF NewRows, ProjectOf
<1>3. \A q \in Projects : RunsOf(q)' = RunsOf(q) BY <1>2 DEF NewRows, RunsOf
<1>4. \A q : NodesOf(q) \subseteq NodesOf(q)' BY DEF NewRows, NodesOf
<1>5. \A e \in supersedes' \ supersedes : e[3] = The(p) BY DEF NewRows
<1>6. Rows'
  <2>1. ASSUME NEW x \in DOMAIN runs
        PROVE  /\ runs'[x].chat \in DOMAIN chats' /\ runs'[x].task \in NodesOf(ProjectOf(x))'
               /\ nodes'[runs'[x].task].by = x
               /\ runs'[x].context \subseteq NodesOf(ProjectOf(x))' \ {runs'[x].task}
    <3>1. /\ runs[x].chat \in DOMAIN chats /\ runs[x].task \in NodesOf(ProjectOf(x))
          /\ nodes[runs[x].task].by = x
          /\ runs[x].context \subseteq NodesOf(ProjectOf(x)) \ {runs[x].task}
      BY <1>1 DEF Rows
    <3>2. NodesOf(ProjectOf(x)) \subseteq NodesOf(ProjectOf(x))'
      BY <1>2 DEF NewRows, NodesOf
    <3>3. runs[x].task \in DOMAIN nodes BY <3>1 DEF NodesOf
    <3>4. runs'[x].task = runs[x].task /\ runs'[x].context = runs[x].context
          /\ runs'[x].chat = runs[x].chat /\ chats' = chats
      BY DEF NewRows
    <3>5. nodes'[runs[x].task] = nodes[runs[x].task] BY <3>3 DEF NewRows
    <3> QED BY <3>1, <3>2, <3>4, <3>5
  <2>2. ASSUME NEW n \in DOMAIN nodes'
        PROVE  nodes'[n].by \in DOMAIN runs /\ nodes'[n].project = chats'[runs'[nodes'[n].by].chat]
    <3>1. CASE n \in DOMAIN nodes
      <4>1. nodes[n].by \in DOMAIN runs /\ nodes[n].project = ProjectOf(nodes[n].by)
        BY <1>1, <3>1 DEF Rows
      <4>2. nodes'[n] = nodes[n] BY <3>1 DEF NewRows
      <4> QED BY <4>1, <4>2 DEF NewRows, ProjectOf
    <3>2. CASE n \notin DOMAIN nodes
      <4>1. nodes'[n].project = p /\ nodes'[n].by = The(p) BY <3>2 DEF NewRows
      <4> QED BY <1>1, <4>1 DEF NewRows, ProjectOf
    <3> QED BY <3>1, <3>2
  <2>3. supersedes' \subseteq (DOMAIN nodes') \X (DOMAIN nodes') \X (DOMAIN runs')
    <3>1. DOMAIN nodes \subseteq DOMAIN nodes' /\ DOMAIN runs' = DOMAIN runs BY DEF NewRows
    <3> QED BY <1>1, <3>1 DEF NewRows, Rows
  <2>4. \A e \in supersedes' : /\ nodes'[e[1]].project = nodes'[e[2]].project
                              /\ nodes'[e[1]].by <= e[3]
    <3>1. \A e \in supersedes : e[1] \in DOMAIN nodes /\ e[2] \in DOMAIN nodes
                                /\ nodes[e[1]].project = nodes[e[2]].project
                                /\ nodes[e[1]].by <= e[3]
      BY <1>1 DEF Rows
    <3>2. \A e \in supersedes : nodes'[e[1]] = nodes[e[1]] /\ nodes'[e[2]] = nodes[e[2]]
      BY <3>1 DEF NewRows
    <3> QED BY <1>5, <3>1, <3>2 DEF NewRows
  <2>5. DOMAIN runs' = DOMAIN runs BY DEF NewRows
  <2> QED BY <2>1, <2>2, <2>3, <2>4, <2>5 DEF Rows, ProjectOf
<1>7. RememberedOnce'
  <2> SUFFICES ASSUME NEW q \in Projects, NEW m \in NodesOf(q)', NEW n \in NodesOf(q)',
                      nodes'[m].finding # None, nodes'[m].finding = nodes'[n].finding
               PROVE  nodes'[m].by = nodes'[n].by
    BY DEF RememberedOnce
  <2>1. m \in DOMAIN nodes' /\ n \in DOMAIN nodes' /\ nodes'[m].project = q /\ nodes'[n].project = q
    BY DEF NodesOf
  <2>2. ASSUME NEW a \in DOMAIN nodes, nodes'[a].project = q, nodes'[a].finding # None,
               NEW b \in (DOMAIN nodes') \ DOMAIN nodes, nodes'[b].project = q
        PROVE  nodes'[a].finding # nodes'[b].finding
    <3>1. q = p /\ nodes'[a] = nodes[a] BY <2>2 DEF NewRows
    <3>2. nodes[a].finding \in Known(p) BY <2>2, <3>1 DEF Known, NodesOf
    <3> QED BY <2>2, <3>1, <3>2 DEF NewRows
  <2>3. CASE m \in DOMAIN nodes /\ n \in DOMAIN nodes
    <3>1. nodes'[m] = nodes[m] /\ nodes'[n] = nodes[n] BY <2>3 DEF NewRows
    <3>2. m \in NodesOf(q) /\ n \in NodesOf(q) BY <2>1, <2>3, <3>1 DEF NodesOf
    <3> QED BY <3>1, <3>2 DEF IInv, RememberedOnce
  <2>4. CASE m \notin DOMAIN nodes /\ n \notin DOMAIN nodes BY <2>1, <2>4 DEF NewRows
  <2>5. CASE (m \in DOMAIN nodes) # (n \in DOMAIN nodes) BY <2>1, <2>2, <2>5
  <2> QED BY <2>3, <2>4, <2>5
<1>8. \A q \in Projects : Grown(q)
  <2> SUFFICES ASSUME NEW q \in Projects PROVE Grown(q) OBVIOUS
  <2>1. \A e \in supersedes' \ supersedes : e[3] = The(q) \/ e[2] \notin NodesOf(q)
    <3> SUFFICES ASSUME NEW e \in supersedes' \ supersedes, q # p PROVE e[2] \notin NodesOf(q)
      BY <1>5
    <3>1. nodes'[e[2]].project = p BY DEF NewRows
    <3> QED BY <3>1 DEF NodesOf, NewRows
  <2>2. \A n \in (DOMAIN nodes') \ DOMAIN nodes : nodes'[n].project = q => nodes'[n].by = The(q)
    BY DEF NewRows
  <2> QED BY <2>1, <2>2 DEF Grown, NewRows
<1> QED BY <1>3, <1>6, <1>7, <1>8

(* A response adds nodes and edges of its run. *)
LEMMA EmitRows ==
  ASSUME IInv, NEW p \in Projects, step[p].at # "idle", Emit(p), UNCHANGED <<chats, runs>>
  PROVE  NewRows(p)
<1> DEFINE r == The(p)
<1>1. PICK kinds \in BoundedSeq(Kinds, 1) :
          LET new  == [i \in DOMAIN kinds |-> [Task(p, r) EXCEPT !.kind = kinds[i]]]
              ends == Visible(p) \cup (Len(nodes) + 1 .. Len(nodes) + Len(new))
          IN /\ nodes' = nodes \o new
             /\ \E edges \in AtMost(MaxEdges - Cardinality(supersedes), ends \X ends) :
                    supersedes' = supersedes \cup {<<e[1], e[2], r>> : e \in edges}
  BY DEF Emit
<1>2. PICK k \in 0..1 : kinds \in [1..k -> Kinds] BY <1>1 DEF BoundedSeq, SeqOf
<1>3. PICK new : new = [i \in 1..k |-> [Task(p, r) EXCEPT !.kind = kinds[i]]] OBVIOUS
<1>4. /\ nodes \in Seq(NodeRecs) /\ r \in Nat /\ r \in DOMAIN runs /\ Rows /\ One
      /\ Running(p) = {r}
  BY OwnTask, RunningIsOne DEF IInv, Types
<1>5. \A i \in 1..k : /\ new[i] \in NodeRecs /\ new[i].project = p /\ new[i].by = r
                      /\ new[i].finding = None
  BY <1>2, <1>3, <1>4 DEF Task, NodeRecs
<1>6. new \in Seq(NodeRecs) /\ Len(new) = k
  <2>1. new \in [1..k -> NodeRecs] BY <1>3, <1>5
  <2> QED BY <2>1
<1>7. DOMAIN kinds = 1..k BY <1>2
<1> DEFINE ends == Visible(p) \cup (Len(nodes) + 1 .. Len(nodes) + k)
<1>8. /\ nodes' = nodes \o new
      /\ \E edges \in SUBSET (ends \X ends) :
             supersedes' = supersedes \cup {<<e[1], e[2], r>> : e \in edges}
  <2>1. new = [i \in DOMAIN kinds |-> [Task(p, r) EXCEPT !.kind = kinds[i]]] BY <1>3, <1>7
  <2>2. /\ nodes' = nodes \o new
        /\ \E edges \in AtMost(MaxEdges - Cardinality(supersedes), ends \X ends) :
               supersedes' = supersedes \cup {<<e[1], e[2], r>> : e \in edges}
    BY <1>1, <1>6, <2>1
  <2>3. \A n, S : AtMost(n, S) \subseteq SUBSET S BY DEF AtMost, BoundedSeq, SeqOf, ToSet
  <2> HIDE DEF ends
  <2> QED BY <2>2, <2>3
<1>9. /\ nodes' \in Seq(NodeRecs) /\ DOMAIN nodes = 1..Len(nodes) /\ Len(nodes) \in Nat
      /\ DOMAIN nodes' = 1..(Len(nodes) + k)
      /\ \A n \in 1..Len(nodes) : nodes'[n] = nodes[n]
      /\ \A n \in (Len(nodes) + 1)..(Len(nodes) + k) : nodes'[n] = new[n - Len(nodes)]
  BY <1>4, <1>6, <1>8
<1>10. \A n \in DOMAIN nodes : n \in DOMAIN nodes' /\ nodes'[n] = nodes[n] BY <1>9
<1>11. \A n \in (Len(nodes) + 1)..(Len(nodes) + k) :
         n \in DOMAIN nodes' /\ nodes'[n].project = p /\ nodes'[n].by = r /\ nodes'[n].finding = None
  <2> TAKE n \in (Len(nodes) + 1)..(Len(nodes) + k)
  <2>1. n - Len(nodes) \in 1..k /\ n \in DOMAIN nodes' BY <1>9
  <2> QED BY <1>5, <1>9, <2>1
<1>12. \A n \in (DOMAIN nodes') \ DOMAIN nodes : n \in (Len(nodes) + 1)..(Len(nodes) + k)
  BY <1>9
<1>13. \A n \in ends : n \in DOMAIN nodes' /\ nodes'[n].project = p /\ nodes'[n].by <= r
  <2>1. ASSUME NEW n \in Visible(p) PROVE n \in DOMAIN nodes' /\ nodes'[n].project = p /\ nodes'[n].by <= r
    <3>1. n \in NodesOf(p) BY <1>4, OwnTask DEF Visible, Rows
    <3>2. n \in DOMAIN nodes /\ nodes[n].project = p BY <3>1 DEF NodesOf
    <3>3. nodes[n].by \in RunsOf(p) BY <1>4, <3>2 DEF Rows, RunsOf
    <3>4. nodes[n].by <= r BY <1>4, <3>3 DEF One
    <3> QED BY <1>10, <3>2, <3>4
  <2> QED BY <1>4, <1>11, <2>1
<1>14. \A e \in supersedes' \ supersedes :
          /\ e \in (DOMAIN nodes') \X (DOMAIN nodes') \X (DOMAIN runs) /\ e[3] = r
          /\ nodes'[e[1]].project = p /\ nodes'[e[2]].project = p /\ nodes'[e[1]].by <= r
  <2>1. PICK edges \in SUBSET (ends \X ends) :
            supersedes' = supersedes \cup {<<e[1], e[2], r>> : e \in edges}
    BY <1>8
  <2> HIDE DEF ends
  <2> TAKE e \in supersedes' \ supersedes
  <2>2. PICK f \in edges : e = <<f[1], f[2], r>> BY <2>1
  <2>3. f[1] \in ends /\ f[2] \in ends OBVIOUS
  <2> QED BY <1>4, <1>13, <2>2, <2>3
<1> QED BY <1>8, <1>9, <1>10, <1>11, <1>12, <1>14 DEF NewRows

LEMMA GrowStep ==
  ASSUME IInv, NEW p \in Projects, step[p].at # "idle", NewRows(p), UNCHANGED <<chats, runs>>,
         NEW t \in StepRecs, step' = [step EXCEPT ![p] = t], t.at # "idle", StepOK(t)
  PROVE  SameRuns(p) /\ Grown(p) /\ step'[p] = t /\ (ViewOK(p)' => IInv')
<1>1. Types /\ Rows /\ One BY DEF IInv
<1>2. Rows' /\ RememberedOnce' /\ \A q \in Projects : Grown(q) BY NewRowsOK
<1>3. step'[p] = t /\ \A q \in Projects \ {p} : step'[q] = step[q] BY <1>1 DEF Types
<1>4. \A q \in Projects : SameRuns(q) BY DEF SameRuns, RunsOf, ProjectOf
<1>5. \A q \in Projects \ {p} : StepOK(step'[q]) /\ ViewOK(q)' BY <1>2, <1>3, <1>4, OtherViews
<1>6. Types' BY <1>1 DEF Types, NewRows
<1>7. One'
  <2>1. \A q \in Projects : Running(q)' = Running(q) /\ RunsOf(q)' = RunsOf(q)
    BY <1>4 DEF SameRuns, Running
  <2> QED BY <1>1, <1>3, <2>1 DEF One
<1> QED BY <1>2, <1>3, <1>4, <1>5, <1>6, <1>7 DEF IInv

(* A step that starts again from what was recalled. *)
LEMMA RefillStep ==
  ASSUME IInv, NEW p \in Projects, step[p].at \in {"infer", "review"},
         UNCHANGED <<chats, runs>>, NewRows(p),
         NEW outputs \in Seq(Nat), NEW earlier \in Nat, earlier <= Len(outputs),
         NEW compacted \in SUBSET (1..earlier),
         step' = [step EXCEPT ![p] = Refill(step[p], outputs, earlier, compacted)]
  PROVE  IInv'
<1>1. PICK t : t = Refill(step[p], outputs, earlier, compacted) OBVIOUS
<1>2. step' = [step EXCEPT ![p] = t] BY <1>1
<1>3. step[p] \in StepRecs /\ Parts(step[p]) /\ step[p].passes = 0 BY DEF IInv, Types, StepOK, Ending
<1>4. /\ t \in StepRecs /\ StepOK(t) /\ Untouched(t) /\ ~t.done /\ t.at = "compile"
      /\ t.score = step[p].score /\ t.all = step[p].all /\ t.policy = step[p].policy
  BY <1>1, <1>3, RefillOK
<1>5. /\ SameRuns(p) /\ Grown(p) /\ step'[p] = t /\ (ViewOK(p)' => IInv')
      /\ Types /\ Rows /\ One /\ ViewOK(p)
  BY <1>2, <1>4, GrowStep DEF IInv
<1>6. ViewOK(p)'
  <2>1. Complete(p)' BY <1>4, <1>5, CompleteKept DEF ViewOK
  <2>2. StaysOut(p)' BY <1>4, <1>5, StaysOutKept DEF ViewOK
  <2>3. Fits(p)' BY <1>4, <1>5 DEF Fits
  <2>4. Whole(p)' BY <1>4, <1>5 DEF Whole
  <2>5. (DOMAIN step[p].score \subseteq RecallCandidates(p))' BY <1>4, <1>5, SeenRuns DEF ViewOK
  <2> QED BY <2>1, <2>2, <2>3, <2>4, <2>5 DEF ViewOK
<1> QED BY <1>5, <1>6

LEMMA CallToolStep == ASSUME IInv, NEW p \in Projects, CallTool(p) PROVE IInv'
<1> DEFINE old == step[p].outputs
<1>1. step[p].at = "infer" /\ UNCHANGED <<chats, runs>> /\ Emit(p) /\ Len(old) < Len(Sizes)
  BY DEF CallTool
<1>2. PICK size \in Sizes[Len(old) + 1], out \in SUBSET Compactable(old, Len(old)) :
        step' = [step EXCEPT ![p] = Refill(step[p], Append(old, size), Len(old), out)]
  BY DEF CallTool
<1>3. old \in Seq(Nat) /\ Len(old) \in Nat BY DEF IInv, Types, StepRecs
<1>4. size \in Nat
  <2>1. Sizes \in Seq(SUBSET Nat) /\ Len(old) + 1 \in 1..Len(Sizes) BY <1>1, <1>3, BoundsAssumption
  <2> QED BY <2>1
<1>5. Append(old, size) \in Seq(Nat) /\ Len(old) <= Len(Append(old, size)) BY <1>3, <1>4
<1>6. out \in SUBSET (1..Len(old)) BY DEF Compactable
<1>7. NewRows(p) BY <1>1, EmitRows
<1> QED BY <1>1, <1>2, <1>3, <1>5, <1>6, <1>7, RefillStep

LEMMA HandBackStep == ASSUME IInv, NEW p \in Projects, HandBack(p) PROVE IInv'
<1>1. step[p].at = "review" /\ UNCHANGED <<chats, runs, nodes, supersedes>> BY DEF HandBack
<1>2. PICK out \in SUBSET Compactable(step[p].outputs, step[p].earlier) :
        step' = [step EXCEPT ![p] = Refill(step[p], step[p].outputs, step[p].earlier, out)]
  BY DEF HandBack
<1>3. /\ step[p].outputs \in Seq(Nat) /\ step[p].earlier \in Nat
      /\ step[p].earlier <= Len(step[p].outputs)
  BY DEF IInv, Types, StepRecs, StepOK, Parts
<1>4. out \in SUBSET (1..step[p].earlier) BY DEF Compactable
<1>5. NewRows(p) BY <1>1 DEF NewRows, IInv, Types
<1> QED BY <1>1, <1>2, <1>3, <1>4, <1>5, RefillStep

LEMMA ReplyStep == ASSUME IInv, NEW p \in Projects, Reply(p) PROVE IInv'
<1>1. step[p].at = "infer" /\ UNCHANGED <<chats, runs>> /\ Emit(p) BY DEF Reply
<1>2. Types /\ Rows /\ One /\ ViewOK(p) /\ step[p] \in StepRecs /\ StepOK(step[p])
  BY DEF IInv, Types
<1>3. PICK t : t = [step[p] EXCEPT !.at = "review"] OBVIOUS
<1>4. step' = [step EXCEPT ![p] = t] BY <1>2, <1>3 DEF Reply, Types
<1>5. t \in StepRecs BY <1>2, <1>3 DEF StepRecs, Stages
<1>6. SameFitting(step[p], t) /\ t.at = "review" /\ t.passes = step[p].passes
  BY <1>2, <1>3 DEF SameFitting, StepRecs
<1>7. StepOK(t)
  <2>1. Parts(t) BY <1>2, <1>6 DEF StepOK, Parts, SameFitting
  <2>2. Outs(t) = Outs(step[p]) BY <1>6 DEF Outs, SameFitting
  <2>3. InOrder(t) BY <1>2, <1>6, <2>2 DEF StepOK, InOrder, SameFitting
  <2> QED BY <1>1, <1>2, <1>6, <2>1, <2>3 DEF StepOK, Starting, Ending
<1>8. SameRuns(p) /\ Grown(p) /\ step'[p] = t /\ (ViewOK(p)' => IInv')
  <2>1. NewRows(p) BY <1>1, EmitRows
  <2> QED BY <1>1, <1>4, <1>5, <1>6, <1>7, <2>1, GrowStep
<1>9. ViewOK(p)' BY <1>1, <1>2, <1>6, <1>8, SameView
<1> QED BY <1>8, <1>9

(* The end of a run, with the nodes it leaves. *)
LEMMA FinishStep ==
  ASSUME IInv, NEW p \in Projects, step[p].at # "idle", Finish(p), UNCHANGED <<chats, supersedes>>,
         nodes' \in Seq(NodeRecs),
         \A n \in DOMAIN nodes : n \in DOMAIN nodes' /\ nodes'[n] = nodes[n],
         \A n \in (DOMAIN nodes') \ DOMAIN nodes :
            /\ nodes'[n].project = p /\ nodes'[n].by = The(p)
            /\ nodes'[n].finding # None => nodes'[n].finding \notin Known(p)
  PROVE  IInv'
<1> DEFINE r == The(p)
<1>1. /\ r \in DOMAIN runs /\ ProjectOf(r) = p /\ runs[r] \in RunRecs /\ Running(p) = {r}
      /\ Types /\ One
  BY OwnTask, RunningIsOne DEF IInv
<1>2. runs' = [runs EXCEPT ![r].running = FALSE] BY DEF Finish
<1>3. /\ DOMAIN runs' = DOMAIN runs /\ runs'[r] = [runs[r] EXCEPT !.running = FALSE]
      /\ \A x \in DOMAIN runs : x # r => runs'[x] = runs[x]
  BY <1>1, <1>2 DEF Types
<1>4. /\ runs'[r].running = FALSE
      /\ \A x \in DOMAIN runs : /\ runs'[x].chat = runs[x].chat /\ runs'[x].at = runs[x].at
                                /\ runs'[x].task = runs[x].task /\ runs'[x].context = runs[x].context
  BY <1>1, <1>3 DEF RunRecs
<1>5. NewRows(p) BY <1>3, <1>4 DEF NewRows
<1>6. Rows' /\ RememberedOnce' /\ \A q \in Projects : Grown(q) /\ RunsOf(q)' = RunsOf(q)
  BY <1>5, NewRowsOK
<1>7. step'[p] = Idle /\ \A q \in Projects \ {p} : step'[q] = step[q] BY <1>1 DEF Finish, Types
<1>8. \A q \in Projects \ {p} : \A x \in RunsOf(q) : x \in DOMAIN runs /\ x # r
  BY <1>1 DEF RunsOf
<1>9. \A q \in Projects \ {p} : SameRuns(q) BY <1>3, <1>6, <1>8 DEF SameRuns
<1>10. \A q \in Projects \ {p} : StepOK(step'[q]) /\ ViewOK(q)'
  <2> TAKE q \in Projects \ {p}
  <2>1. \A x \in RunsOf(q) : runs'[x].context = runs[x].context BY <1>4, <1>8
  <2> QED BY <1>6, <1>7, <1>9, <2>1, OtherViews
<1>11. StepOK(step'[p]) /\ ViewOK(p)' BY <1>7, IdleIsOK, FreshView
<1>12. Types'
  <2>1. [runs[r] EXCEPT !.running = FALSE] \in RunRecs BY <1>1 DEF RunRecs
  <2>2. runs' \in Seq(RunRecs) BY <1>1, <1>2, <2>1 DEF Types
  <2>3. step' \in [Projects -> StepRecs] BY <1>1, IdleIsOK DEF Finish, Types
  <2> QED BY <1>1, <2>2, <2>3 DEF Types
<1>13. One'
  <2>1. Running(p)' = {}
    <3>1. \A x \in RunsOf(p) : runs[x].running => x = r BY <1>1 DEF Running
    <3>2. \A x \in RunsOf(p) : x # r => runs'[x] = runs[x] BY <1>3 DEF RunsOf
    <3> QED BY <1>4, <1>6, <3>1, <3>2 DEF Running
  <2>2. \A q \in Projects \ {p} : Running(q)' = Running(q) /\ RunsOf(q)' = RunsOf(q)
    BY <1>9 DEF SameRuns, Running
  <2> QED BY <1>1, <1>7, <2>1, <2>2, IdleIsOK DEF One
<1> QED BY <1>6, <1>10, <1>11, <1>12, <1>13 DEF IInv

LEMMA RememberStep == ASSUME IInv, NEW p \in Projects, Remember(p) PROVE IInv'
<1>1. step[p].at = "review" /\ Finish(p) /\ UNCHANGED <<chats, supersedes>> BY DEF Remember
<1>2. PICK new \in BoundedSeq(Findings \ Known(p), 2) :
        nodes' = nodes \o [i \in DOMAIN new |->
                    [Task(p, The(p)) EXCEPT !.kind = "observation", !.finding = new[i]]]
  BY DEF Remember
<1> DEFINE row == [i \in DOMAIN new |->
                     [Task(p, The(p)) EXCEPT !.kind = "observation", !.finding = new[i]]]
<1>3. nodes \in Seq(NodeRecs) /\ The(p) \in Nat BY <1>1, OwnTask DEF IInv, Types
<1>4. PICK k \in 0..2 : new \in [1..k -> Findings \ Known(p)] BY DEF BoundedSeq, SeqOf
<1>5. \A i \in 1..k : /\ row[i] \in NodeRecs /\ row[i].project = p /\ row[i].by = The(p)
                      /\ row[i].finding \notin Known(p)
  BY <1>3, <1>4 DEF Task, NodeRecs
<1>6. row \in Seq(NodeRecs) /\ Len(row) = k
  <2>1. row = [i \in 1..k |-> row[i]] BY <1>4
  <2> HIDE DEF row
  <2>2. row \in [1..k -> NodeRecs] BY <1>5, <2>1
  <2> QED BY <2>2
<1> HIDE DEF row
<1>7. nodes' = nodes \o row BY <1>2 DEF row
<1>8. /\ nodes' \in Seq(NodeRecs) /\ DOMAIN nodes = 1..Len(nodes) /\ Len(nodes) \in Nat
      /\ DOMAIN nodes' = 1..(Len(nodes) + k)
      /\ \A n \in 1..Len(nodes) : nodes'[n] = nodes[n]
      /\ \A n \in (Len(nodes) + 1)..(Len(nodes) + k) : nodes'[n] = row[n - Len(nodes)]
  BY <1>3, <1>4, <1>6, <1>7
<1>9. \A n \in DOMAIN nodes : n \in DOMAIN nodes' /\ nodes'[n] = nodes[n] BY <1>8
<1>10. \A n \in (DOMAIN nodes') \ DOMAIN nodes :
         /\ nodes'[n].project = p /\ nodes'[n].by = The(p)
         /\ nodes'[n].finding # None => nodes'[n].finding \notin Known(p)
  <2> TAKE n \in (DOMAIN nodes') \ DOMAIN nodes
  <2>1. n \in (Len(nodes) + 1)..(Len(nodes) + k) /\ n - Len(nodes) \in 1..k BY <1>4, <1>8
  <2> QED BY <1>5, <1>8, <2>1
<1> QED BY <1>1, <1>8, <1>9, <1>10, FinishStep

LEMMA FailStep == ASSUME IInv, NEW p \in Projects, FailRun(p) PROVE IInv'
BY FinishStep DEF FailRun, IInv, Types

--------------------------------------------------------------------------------
(* The start of a run                                                                *)

(* The rows a start adds: a run in a chat of the project with what was carried for it, *)
(* and its task.                                                                       *)
LEMMA StartRows ==
  ASSUME Types, Rows, NEW p \in Projects, NEW thread \in 0..MaxChats, NEW now \in 1..MaxTime,
         StartIn(p, thread, now)
  PROVE  LET r == Len(runs) + 1
         IN /\ r \in Nat /\ chats' \in Seq(Projects \cup {Other})
            /\ \A c \in DOMAIN chats : c \in DOMAIN chats' /\ chats'[c] = chats[c]
            /\ runs' \in Seq(RunRecs) /\ DOMAIN runs = 1..Len(runs) /\ DOMAIN runs' = 1..r
            /\ \A x \in DOMAIN runs : runs'[x] = runs[x]
            /\ runs'[r].chat \in DOMAIN chats' /\ chats'[runs'[r].chat] = p
            /\ runs'[r].running = TRUE /\ runs'[r].task = Len(nodes) + 1 /\ runs'[r].at = now
            /\ runs'[r].context = Carried(runs', r) /\ runs'[r].context \subseteq NodesOf(p)
            /\ Past(runs', r) \subseteq DOMAIN runs
<1> DEFINE r == Len(runs) + 1
           c == IF thread = 0 THEN Len(chats) + 1 ELSE thread
           run == [chat |-> c, at |-> now, running |-> TRUE, task |-> Len(nodes) + 1, context |-> {}]
           all == Append(runs, run)
<1>1. Len(runs) \in Nat /\ Len(chats) \in Nat /\ Len(nodes) \in Nat /\ r \in Nat
      /\ DOMAIN runs = 1..Len(runs) /\ DOMAIN chats = 1..Len(chats)
  BY DEF Types
<1>2. /\ chats' \in Seq(Projects \cup {Other}) /\ c \in DOMAIN chats' /\ c \in Nat /\ chats'[c] = p
      /\ \A x \in DOMAIN chats : x \in DOMAIN chats' /\ chats'[x] = chats[x]
  <2>1. CASE thread = 0
    <3>1. chats' = Append(chats, p) BY <2>1, <1>1 DEF StartIn
    <3> QED BY <1>1, <2>1, <3>1 DEF Types
  <2>2. CASE thread # 0
    <3>1. thread \in DOMAIN chats /\ chats[thread] = p /\ chats' = chats BY <2>2 DEF StartIn
    <3> QED BY <1>1, <2>2, <3>1 DEF Types
  <2> QED BY <2>1, <2>2
<1>3. run \in RunRecs
  <2>1. now \in 0..(MaxTime + 1) BY Bounds
  <2> QED BY <1>1, <1>2, <2>1 DEF RunRecs
<1> HIDE DEF c
<1>4. /\ all \in Seq(RunRecs) /\ Len(all) = r /\ DOMAIN all = 1..r /\ all[r] = run
      /\ \A x \in DOMAIN runs : all[x] = runs[x]
  <2> HIDE DEF run
  <2> QED BY <1>1, <1>3 DEF Types
<1>5. runs' = [all EXCEPT ![r].context = Carried(all, r)]
  <2>1. runs' = [all EXCEPT ![Len(all)].context = Carried(all, Len(all))] BY DEF StartIn, c
  <2> QED BY <1>4, <2>1
<1>6. all[r].chat = c /\ Past(all, r) \subseteq DOMAIN runs
  <2> HIDE DEF all
  <2>1. all[r].chat = c BY <1>4 DEF run
  <2>2. r \notin Past(all, r) BY <1>1, <1>4, BeforeOrders DEF Past
  <2>3. Past(all, r) \subseteq 1..r BY <1>4 DEF Past
  <2>4. \A x \in 1..r : x # r => x \in 1..Len(runs) BY <1>1
  <2> QED BY <1>1, <2>1, <2>2, <2>3, <2>4
<1> HIDE DEF all
<1>7. Carried(all, r) \subseteq NodesOf(p)
  <2>1. CASE Past(all, r) = {} BY <2>1 DEF Carried, Previous
  <2>2. CASE Past(all, r) # {}
    <3>1. PICK q \in Past(all, r) : q = Previous(all, r) BY <1>4, <2>2, PreviousIsLast
    <3>2. q \in DOMAIN runs /\ q \in Nat /\ q # 0 /\ all[q] = runs[q] /\ runs[q].chat = c
      BY <1>1, <1>4, <1>6, <3>1 DEF Past
    <3>3. runs[q].chat \in DOMAIN chats /\ runs[q].context \subseteq NodesOf(ProjectOf(q))
      BY <3>2 DEF Rows
    <3>4. ProjectOf(q) = p BY <1>2, <3>2, <3>3 DEF ProjectOf
    <3> QED BY <3>1, <3>2, <3>3, <3>4 DEF Carried
  <2> QED BY <2>1, <2>2
<1>8. Carried(all, r) \in SUBSET Nat BY <1>7 DEF NodesOf, Types
<1>9. PICK new \in RunRecs : new = [run EXCEPT !.context = Carried(all, r)]
  BY <1>3, <1>8 DEF RunRecs
<1>10. /\ new.chat = c /\ new.at = now /\ new.running = TRUE /\ new.task = Len(nodes) + 1
       /\ new.context = Carried(all, r)
  BY <1>3, <1>9 DEF RunRecs
<1> HIDE DEF run
<1>11. runs' = [all EXCEPT ![r] = new] BY <1>1, <1>4, <1>5, <1>9
<1>12. /\ runs' \in Seq(RunRecs) /\ DOMAIN runs' = 1..r /\ runs'[r] = new
       /\ \A x \in DOMAIN runs : runs'[x] = runs[x]
  BY <1>1, <1>4, <1>11
<1>13. Past(runs', r) = Past(all, r) /\ Carried(runs', r) = Carried(all, r)
  <2>1. new.chat = all[r].chat /\ new.at = all[r].at BY <1>4, <1>6, <1>10, <1>3 DEF run
  <2>2. \A x \in 1..r : runs'[x].chat = all[x].chat /\ runs'[x].at = all[x].at
    BY <1>1, <1>4, <1>12, <2>1
  <2>3. \A x, y \in 1..r : Before(runs', x, y) <=> Before(all, x, y) BY <2>2 DEF Before
  <2>4. r \in 1..r BY <1>1
  <2>5. Past(runs', r) = Past(all, r) BY <1>4, <1>12, <2>2, <2>3, <2>4 DEF Past
  <2>6. Past(all, r) \subseteq 1..r BY <1>4 DEF Past
  <2>7. Previous(runs', r) = Previous(all, r)
    <3>1. CASE Past(all, r) = {} BY <2>5, <3>1 DEF Previous
    <3>2. CASE Past(all, r) # {}
      <4>1. /\ Previous(all, r) \in Past(all, r)
            /\ \A o \in Past(all, r) \ {Previous(all, r)} : Before(all, o, Previous(all, r))
        BY <1>4, <3>2, PreviousIsLast
      <4>2. \A o \in Past(runs', r) \ {Previous(all, r)} : Before(runs', o, Previous(all, r))
        BY <2>3, <2>5, <2>6, <4>1
      <4> QED BY <1>12, <2>5, <4>1, <4>2, PreviousIsOne
    <3> QED BY <3>1, <3>2
  <2>8. Previous(all, r) # 0 => runs'[Previous(all, r)] = all[Previous(all, r)]
    <3>1. CASE Past(all, r) = {} BY <3>1 DEF Previous
    <3>2. CASE Past(all, r) # {}
      <4>1. Previous(all, r) \in DOMAIN runs BY <1>4, <1>6, <3>2, PreviousIsLast
      <4> QED BY <1>4, <1>12, <4>1
    <3> QED BY <3>1, <3>2
  <2> QED BY <2>5, <2>7, <2>8 DEF Carried
<1> QED BY <1>1, <1>2, <1>6, <1>7, <1>10, <1>12, <1>13

LEMMA StartStep ==
  ASSUME IInv, NEW p \in Projects, NEW thread \in 0..MaxChats, NEW now \in 1..MaxTime,
         StartIn(p, thread, now)
  PROVE  IInv'
<1>1. PICK r : r = Len(runs) + 1 OBVIOUS
<1>2. Types /\ Rows /\ One /\ RememberedOnce BY DEF IInv
<1>3. /\ r \in Nat /\ chats' \in Seq(Projects \cup {Other})
      /\ \A c \in DOMAIN chats : c \in DOMAIN chats' /\ chats'[c] = chats[c]
      /\ runs' \in Seq(RunRecs) /\ DOMAIN runs = 1..Len(runs) /\ DOMAIN runs' = 1..r
      /\ \A x \in DOMAIN runs : runs'[x] = runs[x]
      /\ runs'[r].chat \in DOMAIN chats' /\ chats'[runs'[r].chat] = p
      /\ runs'[r].running = TRUE /\ runs'[r].task = Len(nodes) + 1
      /\ runs'[r].context \subseteq NodesOf(p)
  BY <1>1, <1>2, StartRows
<1>4. Running(p) = {} /\ nodes' = Append(nodes, Task(p, r)) /\ supersedes' = supersedes
      /\ step' = [step EXCEPT ![p] = [Idle EXCEPT !.at = "classify"]]
  BY <1>1 DEF StartIn
<1>5. PICK n : n = Len(nodes) + 1 OBVIOUS
<1>6. /\ DOMAIN nodes' = DOMAIN nodes \cup {n} /\ n \notin DOMAIN nodes /\ nodes' \in Seq(NodeRecs)
      /\ \A m \in DOMAIN nodes : nodes'[m] = nodes[m]
      /\ nodes'[n].project = p /\ nodes'[n].by = r /\ nodes'[n].finding = None
  <2>1. PICK new \in NodeRecs : new = Task(p, r) BY <1>3 DEF Task, NodeRecs
  <2>2. new.project = p /\ new.by = r /\ new.finding = None BY <2>1 DEF Task
  <2>3. nodes \in Seq(NodeRecs) BY <1>2 DEF Types
  <2>4. /\ nodes' \in Seq(NodeRecs) /\ Len(nodes) \in Nat /\ DOMAIN nodes' = 1..(Len(nodes) + 1)
        /\ DOMAIN nodes = 1..Len(nodes) /\ nodes'[n] = new
        /\ \A m \in DOMAIN nodes : nodes'[m] = nodes[m]
    BY <1>4, <1>5, <2>1, <2>3
  <2> QED BY <1>5, <2>2, <2>4
<1>7. DOMAIN runs' = DOMAIN runs \cup {r} /\ r \notin DOMAIN runs
  <2>1. Len(runs) \in Nat BY <1>2 DEF Types
  <2> QED BY <1>1, <1>3, <2>1
<1>8. ProjectOf(r)' = p /\ \A x \in DOMAIN runs : ProjectOf(x)' = ProjectOf(x)
  BY <1>2, <1>3 DEF ProjectOf, Rows
<1>9. /\ RunsOf(p)' = RunsOf(p) \cup {r}
      /\ \A q \in Projects \ {p} : RunsOf(q)' = RunsOf(q)
  BY <1>7, <1>8 DEF RunsOf
<1>10. /\ NodesOf(p)' = NodesOf(p) \cup {n}
       /\ \A q : q # p => NodesOf(q)' = NodesOf(q)
  BY <1>6 DEF NodesOf
<1>11. \A q \in Projects \ {p} : SameRuns(q) BY <1>3, <1>9 DEF SameRuns, RunsOf
<1>12. \A q \in Projects \ {p} : Grown(q) BY <1>4, <1>6 DEF Grown
<1>13. PICK t : t = [Idle EXCEPT !.at = "classify"] OBVIOUS
<1>14. t \in StepRecs /\ StepOK(t) /\ Untouched(t) /\ DOMAIN t.score = {} /\ t.at = "classify"
       /\ ~t.all /\ ~t.policy /\ ~t.done
  <2>1. t \in StepRecs BY <1>13, IdleIsOK DEF StepRecs, Stages
  <2>2. /\ t.at = "classify" /\ t.all = FALSE /\ t.policy = FALSE /\ t.done = FALSE /\ t.passes = 0
        /\ t.score = <<>> /\ t.kept = {} /\ t.omitted = {} /\ t.compacted = {} /\ t.window = Window
        /\ t.earlier = 0 /\ t.outputs = <<>>
    BY <1>13 DEF Idle
  <2>3. Untouched(t) BY <2>2, ScoreFacts DEF Untouched
  <2>4. Parts(t) /\ Outs(t) = {} BY <2>2, FS_EmptySet, ScoreFacts DEF Parts, Outs
  <2>5. InOrder(t) BY <2>2, <2>4, Bounds DEF InOrder
  <2>6. Starting(t) BY <1>13, <2>2 DEF Starting
  <2>7. Ending(t) BY <2>2 DEF Ending
  <2> QED BY <2>1, <2>2, <2>3, <2>4, <2>5, <2>6, <2>7, ScoreFacts DEF StepOK
<1>15. step' = [step EXCEPT ![p] = t] BY <1>4, <1>13
<1>16. step'[p] = t /\ \A q \in Projects \ {p} : step'[q] = step[q] BY <1>2, <1>15 DEF Types
<1>17. Types' BY <1>2, <1>3, <1>6, <1>14, <1>15 DEF Types
<1>18. Rows'
  <2>1. ASSUME NEW x \in DOMAIN runs'
        PROVE  /\ runs'[x].chat \in DOMAIN chats'
               /\ runs'[x].task \in NodesOf(ProjectOf(x))' /\ nodes'[runs'[x].task].by = x
               /\ runs'[x].context \subseteq NodesOf(ProjectOf(x))' \ {runs'[x].task}
    <3>1. CASE x \in DOMAIN runs
      <4>1. /\ runs[x].chat \in DOMAIN chats
            /\ runs[x].task \in NodesOf(ProjectOf(x)) /\ nodes[runs[x].task].by = x
            /\ runs[x].context \subseteq NodesOf(ProjectOf(x)) \ {runs[x].task}
        BY <1>2, <3>1 DEF Rows
      <4>2. NodesOf(ProjectOf(x)) \subseteq NodesOf(ProjectOf(x))' BY <1>6, <1>8, <3>1 DEF NodesOf
      <4>3. runs[x].task \in DOMAIN nodes BY <4>1 DEF NodesOf
      <4> QED BY <1>3, <1>6, <3>1, <4>1, <4>2, <4>3
    <3>2. CASE x = r
      <4>1. NodesOf(ProjectOf(x))' = NodesOf(p) \cup {n} BY <1>8, <1>10, <3>2 DEF NodesOf
      <4>2. n \notin NodesOf(p) BY <1>6 DEF NodesOf
      <4> QED BY <1>3, <1>5, <1>6, <3>2, <4>1, <4>2
    <3> QED BY <1>7, <3>1, <3>2
  <2>2. ASSUME NEW m \in DOMAIN nodes'
        PROVE  nodes'[m].by \in DOMAIN runs' /\ nodes'[m].project = chats'[runs'[nodes'[m].by].chat]
    <3>1. CASE m \in DOMAIN nodes
      <4>1. nodes[m].by \in DOMAIN runs /\ nodes[m].project = ProjectOf(nodes[m].by)
        BY <1>2, <3>1 DEF Rows
      <4> QED BY <1>6, <1>7, <1>8, <3>1, <4>1 DEF ProjectOf
    <3>2. CASE m = n BY <1>3, <1>6, <1>7, <3>2
    <3> QED BY <1>6, <3>1, <3>2
  <2>3. /\ supersedes' \subseteq (DOMAIN nodes') \X (DOMAIN nodes') \X (DOMAIN runs')
        /\ \A e \in supersedes' : /\ nodes'[e[1]].project = nodes'[e[2]].project
                                  /\ nodes'[e[1]].by <= e[3]
    <3>1. \A e \in supersedes : e \in (DOMAIN nodes) \X (DOMAIN nodes) \X (DOMAIN runs)
                                /\ nodes[e[1]].project = nodes[e[2]].project
                                /\ nodes[e[1]].by <= e[3]
      BY <1>2 DEF Rows
    <3> QED BY <1>4, <1>6, <1>7, <3>1
  <2> QED BY <2>1, <2>2, <2>3 DEF Rows, ProjectOf
<1>19. One'
  <2>1. Running(p)' = {r}
    <3>1. \A x \in RunsOf(p) : x \in DOMAIN runs /\ ~runs[x].running
      BY <1>4 DEF Running, RunsOf
    <3> QED BY <1>3, <1>9, <3>1 DEF Running
  <2>2. \A q \in Projects \ {p} : Running(q)' = Running(q) BY <1>11 DEF SameRuns, Running
  <2>3. \A x \in RunsOf(p)' : x <= r BY <1>1, <1>3, <1>9 DEF RunsOf
  <2> QED BY <1>2, <1>9, <1>14, <1>16, <2>1, <2>2, <2>3 DEF One
<1>20. RememberedOnce'
  <2> SUFFICES ASSUME NEW q \in Projects, NEW a \in NodesOf(q)', NEW b \in NodesOf(q)',
                      nodes'[a].finding # None, nodes'[a].finding = nodes'[b].finding
               PROVE  nodes'[a].by = nodes'[b].by
    BY DEF RememberedOnce
  <2>1. a # n /\ b # n BY <1>6
  <2>2. a \in NodesOf(q) /\ b \in NodesOf(q) BY <1>10, <2>1
  <2>3. nodes'[a] = nodes[a] /\ nodes'[b] = nodes[b] BY <1>6, <2>2 DEF NodesOf
  <2> QED BY <1>2, <2>2, <2>3 DEF RememberedOnce
<1>21. StepOK(step'[p]) /\ ViewOK(p)' BY <1>14, <1>16, FreshView
<1>22. \A q \in Projects \ {p} : StepOK(step'[q]) /\ ViewOK(q)'
  <2> TAKE q \in Projects \ {p}
  <2>1. \A x \in RunsOf(q) : runs'[x].context = runs[x].context BY <1>3 DEF RunsOf
  <2> QED BY <1>11, <1>12, <1>16, <2>1, OtherViews
<1> QED BY <1>17, <1>18, <1>19, <1>20, <1>21, <1>22 DEF IInv

--------------------------------------------------------------------------------
(* The inductive invariant                                                           *)

LEMMA InitIInv == Init => IInv
<1> SUFFICES ASSUME Init PROVE IInv OBVIOUS
<1>1. PICK run \in RunRecs : run = [chat |-> 1, at |-> 1, running |-> FALSE, task |-> 1, context |-> {}]
  <2>1. 1 \in 0..(MaxTime + 1) BY Bounds
  <2> QED BY <2>1 DEF RunRecs
<1>2. run.chat = 1 /\ run.running = FALSE /\ run.task = 1 /\ run.context = {} BY <1>1
<1>3. PICK task \in NodeRecs : task = Task(Other, 1) BY DEF Task, NodeRecs
<1>4. task.project = Other /\ task.by = 1 /\ task.finding = None BY <1>3 DEF Task
<1>5. /\ runs = <<run>> /\ nodes = <<task>> /\ chats = <<Other>> /\ supersedes = {}
      /\ step = [p \in Projects |-> Idle]
  BY <1>1, <1>3 DEF Init
<1>6. Types BY <1>5, IdleIsOK DEF Types
<1>7. DOMAIN runs = {1} /\ DOMAIN nodes = {1} /\ DOMAIN chats = {1} /\ runs[1] = run /\ nodes[1] = task
      /\ chats[1] = Other
  BY <1>5
<1>8. Rows BY <1>2, <1>4, <1>5, <1>7 DEF Rows, NodesOf, ProjectOf
<1>9. \A p \in Projects : step[p] = Idle BY <1>5
<1>10. One BY <1>2, <1>7, <1>9, IdleIsOK DEF One, Running, RunsOf
<1>11. RememberedOnce BY <1>4, <1>7 DEF RememberedOnce, NodesOf
<1>12. \A p \in Projects : StepOK(step[p]) /\ ViewOK(p)
  BY <1>9, IdleIsOK DEF ViewOK, Complete, StaysOut, Fits, Whole
<1> QED BY <1>6, <1>8, <1>10, <1>11, <1>12 DEF IInv

LEMMA NextIInv == IInv /\ [Next]_vars => IInv'
<1> SUFFICES ASSUME IInv, [Next]_vars PROVE IInv' OBVIOUS
<1>1. CASE UNCHANGED vars
  <2>1. UNCHANGED <<chats, runs, nodes, supersedes>> /\ step' = step BY <1>1 DEF vars
  <2>2. Types' /\ One' BY <2>1 DEF IInv, Types, One, Running, RunsOf, ProjectOf
  <2>3. Rows' /\ RememberedOnce' BY <2>1 DEF IInv, Rows, RememberedOnce, NodesOf, ProjectOf
  <2>4. \A q \in Projects : StepOK(step'[q]) /\ ViewOK(q)' BY <2>1, StandStill, OtherViews
  <2> QED BY <2>2, <2>3, <2>4 DEF IInv
<1>2. CASE Next
  <2>1. PICK p \in Projects :
            \/ \E c \in 0..MaxChats, now \in 1..MaxTime : StartIn(p, c, now)
            \/ Classify(p) \/ RecallTurns(p) \/ RecallEverything(p) \/ Send(p) \/ LeaveOut(p)
            \/ CallTool(p) \/ Reply(p) \/ HandBack(p) \/ Remember(p) \/ FailRun(p)
    BY <1>2 DEF Next
  <2>2. CASE \E c \in 0..MaxChats, now \in 1..MaxTime : StartIn(p, c, now) BY <2>2, StartStep
  <2>3. CASE Classify(p) BY <2>3, ClassifyStep
  <2>4. CASE RecallTurns(p) BY <2>4, RecallTurnsStep
  <2>5. CASE RecallEverything(p) BY <2>5, RecallEverythingStep
  <2>6. CASE Send(p) BY <2>6, SendStep
  <2>7. CASE LeaveOut(p) BY <2>7, LeaveOutStep
  <2>8. CASE CallTool(p) BY <2>8, CallToolStep
  <2>9. CASE Reply(p) BY <2>9, ReplyStep
  <2>10. CASE HandBack(p) BY <2>10, HandBackStep
  <2>11. CASE Remember(p) BY <2>11, RememberStep
  <2>12. CASE FailRun(p) BY <2>12, FailStep
  <2> QED BY <2>1, <2>2, <2>3, <2>4, <2>5, <2>6, <2>7, <2>8, <2>9, <2>10, <2>11, <2>12
<1> QED BY <1>1, <1>2

LEMMA AlwaysIInv == Spec => []IInv
BY InitIInv, NextIInv, PTL DEF Spec

--------------------------------------------------------------------------------
(* What is promised of a run's context, of recall and of the fitting                 *)

LEMMA TypesHold == IInv => TypeOK
<1> SUFFICES ASSUME IInv PROVE TypeOK OBVIOUS
<1>1. Types /\ Rows /\ One BY DEF IInv
<1>2. \A r \in DOMAIN runs : /\ runs[r].chat \in DOMAIN chats /\ runs[r].context \subseteq DOMAIN nodes
                             /\ runs[r].running \in BOOLEAN
  <2> TAKE r \in DOMAIN runs
  <2>1. runs[r] \in RunRecs BY <1>1, RowOfRun DEF Types
  <2>2. runs[r].running \in BOOLEAN BY <2>1 DEF RunRecs
  <2> QED BY <1>1, <2>2 DEF Rows, NodesOf
<1>3. \A p \in Projects : /\ Cardinality(Running(p)) <= 1
                          /\ (step[p].at = "idle") = (Running(p) = {})
                          /\ step[p].window \in 0..Window
                          /\ step[p].kept \subseteq DOMAIN step[p].score
                          /\ step[p].omitted \subseteq DOMAIN step[p].outputs
  <2> TAKE p \in Projects
  <2>1. step[p] \in StepRecs /\ Parts(step[p]) BY <1>1 DEF IInv, Types, StepOK
  <2>2. Cardinality(Running(p)) <= 1
    <3>1. CASE Running(p) = {} BY <3>1, FS_EmptySet
    <3>2. CASE Running(p) # {}
      <4>1. PICK r \in Running(p) : TRUE BY <3>2
      <4>2. \A a, b \in Running(p) : a = b BY <1>1 DEF One
      <4>3. Running(p) = {r} BY <4>1, <4>2
      <4> QED BY <4>3, FS_Singleton
    <3> QED BY <3>1, <3>2
  <2>3. step[p].omitted \subseteq DOMAIN step[p].outputs
    <3>1. /\ step[p].outputs \in Seq(Nat) /\ step[p].earlier \in Nat
          /\ step[p].earlier <= Len(step[p].outputs) /\ step[p].omitted \subseteq 1..step[p].earlier
      BY <2>1 DEF StepRecs, Parts
    <3> QED BY <3>1
  <2>4. step[p].window \in 0..Window BY <2>1 DEF StepRecs
  <2> QED BY <1>1, <2>1, <2>2, <2>3, <2>4 DEF One, Parts
<1> QED BY <1>1, <1>2, <1>3 DEF TypeOK, Types, Rows

(* The active context of a run stays inside its project, and out of what was         *)
(* superseded, through carrying, answers of any content and the policy classifier    *)
(* (carry_context, apply_activations, the fallback of ValidatingContextManager).     *)
THEOREM SoundContext == Spec => []ContextIsSound
<1>1. IInv => ContextBelongs BY DEF IInv, Rows, ContextBelongs
<1>2. IInv => SupersededStaysOut
  <2> SUFFICES ASSUME IInv, NEW p \in Projects, NEW r \in Running(p), step[p].policy, ~step[p].all,
                      NEW e \in supersedes, e[3] < r
               PROVE  e[2] \notin runs[r].context
    BY DEF SupersededStaysOut
  <2>1. step[p].at # "idle" BY DEF IInv, One
  <2>2. r = The(p) BY <2>1, RunningIsOne DEF IInv
  <2> QED BY <2>2 DEF IInv, ViewOK, StaysOut
<1> QED BY <1>1, <1>2, AlwaysIInv, TypesHold, PTL DEF ContextIsSound

(* What a run sends is fitted to its model's window: it is sent whole when it fits,   *)
(* leaves out turns, outputs and recent turns in this order, the least relevant      *)
(* first, stops when it fits or nothing is left, and ends (compile_ir).              *)
THEOREM OrderedFitting == Spec => []FittingIsOrdered
<1>1. IInv => FitsOrBare
  BY DEF IInv, ViewOK, Fits, FitsOrBare, Sent, TooLarge
<1>2. IInv => DropsInOrder
  <2> SUFFICES ASSUME IInv, NEW p \in Projects
               PROVE  /\ step[p].window < Window => step[p].kept = {} /\ EarlierOutputs(p) = {}
                      /\ step[p].omitted \ step[p].compacted # {} => step[p].kept = {}
                      /\ \A d \in (DOMAIN step[p].score) \ step[p].kept, k \in step[p].kept :
                             step[p].score[d] <= step[p].score[k]
                      /\ step[p].omitted \subseteq 1..step[p].earlier
    BY DEF DropsInOrder
  <2> QED BY OutsOfStep DEF IInv, StepOK, InOrder, Parts
<1>3. IInv => WholeWhenItFits
  BY DEF IInv, ViewOK, Whole, Untouched, WholeWhenItFits
<1>4. IInv => FittingEnds
  <2> SUFFICES ASSUME IInv, NEW p \in Projects
               PROVE  step[p].passes <= Cardinality(DOMAIN step[p].score) + step[p].earlier + Window + 1
    BY DEF FittingEnds
  <2>1. step[p] \in StepRecs /\ Parts(step[p]) /\ Ending(step[p]) BY DEF IInv, Types, StepOK
  <2>2. Left(step[p]) \in Nat BY <2>1, LeftIsNat
  <2> QED BY <2>1, <2>2, LeftFacts, Bounds DEF Ending
<1> QED BY <1>1, <1>2, <1>3, <1>4, AlwaysIInv, PTL DEF FittingIsOrdered

(* Recall and the recent turns cut the history of the project exactly in two: no     *)
(* turn twice, and none forgotten when everything is asked for (recall_candidates,   *)
(* recall_everything and recent_run_outcomes).                                       *)
THEOREM ExactRecall == Spec => []RecallIsExact
<1>1. IInv => TurnsOnce
  <2> SUFFICES ASSUME IInv, NEW p \in Projects, step[p].at = "infer"
               PROVE  /\ step[p].kept \cap RecentTurns(p) = {}
                      /\ step[p].kept \cup RecentTurns(p) \subseteq RunsOf(p) \ Running(p)
                      /\ runs[The(p)].task \notin runs[The(p)].context
    BY DEF TurnsOnce, Sent
  <2>1. Types /\ One /\ runs \in Seq(RunRecs) /\ step[p].window \in 0..Window /\ Window \in Nat
    BY Bounds DEF IInv, Types, StepRecs
  <2>2. step[p].kept \subseteq RecallCandidates(p) BY DEF IInv, StepOK, Parts, ViewOK
  <2>3. RecentTurns(p) \subseteq LastTurns(runs, The(p), Window)
    BY <2>1, LastTurnsAreFew DEF RecentTurns
  <2>4. RecallCandidates(p) \subseteq RunsOf(p) \ Running(p) BY DEF RecallCandidates, Running
  <2>5. LastTurns(runs, The(p), Window) \subseteq RunsOf(p) \ Running(p)
    BY <2>1, TurnsAreOfProject
  <2>6. runs[The(p)].task \notin runs[The(p)].context BY OwnTask DEF Candidates
  <2> QED BY <2>2, <2>3, <2>4, <2>5, <2>6 DEF RecallCandidates
<1>2. IInv => NothingForgotten
  <2> SUFFICES ASSUME IInv, NEW p \in Projects, step[p].at = "infer", step[p].all,
                      step[p].budget = Unknown
               PROVE  /\ step[p].kept \cup RecentTurns(p) = RunsOf(p) \ Running(p)
                      /\ {n \in NodesOf(p) : nodes[n].by < The(p)} \subseteq runs[The(p)].context
    BY DEF NothingForgotten, Sent
  <2>1. Types /\ One /\ Window \in Nat BY Bounds DEF IInv
  <2>2. step[p].kept = RecallCandidates(p) /\ step[p].window = Window
    BY DEF IInv, ViewOK, Whole, Untouched, Complete
  <2>3. LastTurns(runs, The(p), Window) \subseteq RunsOf(p) \ Running(p) BY <2>1, TurnsAreOfProject
  <2>4. RunsOf(p) \ Running(p) = {r \in RunsOf(p) : ~runs[r].running} BY DEF Running
  <2> QED BY <2>2, <2>3, <2>4 DEF RecentTurns, RecallCandidates, IInv, ViewOK, Complete
<1> QED BY <1>1, <1>2, AlwaysIInv, PTL DEF RecallIsExact

(* No two runs record the same finding: the project remembers it once                *)
(* (record_findings).                                                                *)
THEOREM FindingsRememberedOnce == Spec => []RememberedOnce
<1>1. IInv => RememberedOnce BY DEF IInv
<1> QED BY <1>1, AlwaysIInv, PTL

(* A run starts with the context its chat's last run ended with, two runs of one     *)
(* instant included, as long as the clock was never set back between the chat's runs *)
(* (start_in, previous_run).                                                         *)
THEOREM ContextCarriesOn == Spec => CarriesOn
<1> DEFINE Same(r) == {q \in DOMAIN runs' : runs'[q].chat = runs'[r].chat}
<1>1. ASSUME IInv, [Next]_vars, NEW r \in (DOMAIN runs') \ DOMAIN runs,
             \A a, b \in Same(r) : a < b => runs'[a].at <= runs'[b].at, Same(r) # {r}
      PROVE  runs'[r].context = runs[Max(Same(r) \ {r})].context
  <2>1. PICK p \in Projects : \E c \in 0..MaxChats, now \in 1..MaxTime : StartIn(p, c, now)
    <3>1. CASE UNCHANGED vars BY <1>1, <3>1 DEF vars
    <3>2. CASE Next
      <4>1. PICK p \in Projects :
                \/ \E c \in 0..MaxChats, now \in 1..MaxTime : StartIn(p, c, now)
                \/ Classify(p) \/ RecallTurns(p) \/ RecallEverything(p) \/ Send(p) \/ LeaveOut(p)
                \/ CallTool(p) \/ Reply(p) \/ HandBack(p) \/ Remember(p) \/ FailRun(p)
        BY <3>2 DEF Next
      <4>2. \/ \E c \in 0..MaxChats, now \in 1..MaxTime : StartIn(p, c, now)
            \/ DOMAIN runs' = DOMAIN runs
        <5>1. \A x, y : runs' = [runs EXCEPT ![x].context = y] => DOMAIN runs' = DOMAIN runs
          BY DEF IInv, Types
        <5>2. \A x, y : runs' = [runs EXCEPT ![x].running = y] => DOMAIN runs' = DOMAIN runs
          BY DEF IInv, Types
        <5>3. Classify(p) \/ RecallEverything(p) => DOMAIN runs' = DOMAIN runs
          BY <5>1 DEF Classify, RecallEverything, Apply
        <5>4. Remember(p) \/ FailRun(p) => DOMAIN runs' = DOMAIN runs
          BY <5>2 DEF Remember, FailRun, Finish
        <5>5. RecallTurns(p) \/ Send(p) \/ LeaveOut(p) \/ CallTool(p) \/ Reply(p) \/ HandBack(p)
                => runs' = runs
          BY DEF RecallTurns, Send, LeaveOut, CallTool, Reply, HandBack
        <5> QED BY <4>1, <5>3, <5>4, <5>5
      <4> QED BY <1>1, <4>2
    <3> QED BY <1>1, <3>1, <3>2
  <2>2. PICK c \in 0..MaxChats, now \in 1..MaxTime : StartIn(p, c, now) BY <2>1
  <2>3. PICK new : new = Len(runs) + 1 OBVIOUS
  <2>4. /\ new \in Nat /\ runs' \in Seq(RunRecs) /\ DOMAIN runs = 1..Len(runs) /\ DOMAIN runs' = 1..new
        /\ \A x \in DOMAIN runs : runs'[x] = runs[x]
        /\ runs'[new].context = Carried(runs', new) /\ Past(runs', new) \subseteq DOMAIN runs
    BY <1>1, <2>2, <2>3, StartRows DEF IInv
  <2>5. Len(runs) \in Nat BY <1>1 DEF IInv, Types
  <2>6. r = new BY <2>3, <2>4, <2>5
  <2>7. \A x \in DOMAIN runs' : x \in Nat /\ x <= new /\ runs'[x].at \in Nat BY <2>4, RowOfRun
  <2>8. Past(runs', r) = Same(r) \ {r}
    <3>1. r \in Same(r) /\ r \notin Past(runs', r) BY <2>3, <2>4, <2>5, <2>6
    <3>2. Past(runs', r) \subseteq Same(r) BY DEF Past
    <3>3. ASSUME NEW q \in Same(r), q # r PROVE q \in Past(runs', r)
      <4>1. q < r /\ runs'[q].at <= runs'[r].at BY <1>1, <2>6, <2>7, <3>1, <3>3
      <4> QED BY <2>6, <2>7, <4>1 DEF Past, Before
    <3> QED BY <3>1, <3>2, <3>3
  <2>9. Past(runs', r) # {} /\ Past(runs', r) \subseteq Nat BY <1>1, <2>7, <2>8
  <2>10. PICK m \in Past(runs', r) : \A x \in Past(runs', r) : x <= m
    <3>1. \A x \in Past(runs', r) : x <= new BY <2>7, <2>8
    <3> QED BY <2>4, <2>9, <3>1, MaxExists
  <2>11. Max(Past(runs', r)) = m
    <3>1. \A x \in Past(runs', r) : (\A y \in Past(runs', r) : x >= y) => x = m
      BY <2>9, <2>10
    <3>2. \A y \in Past(runs', r) : m >= y BY <2>9, <2>10
    <3> QED BY <2>10, <3>1, <3>2 DEF Max
  <2>12. Previous(runs', r) = m
    <3>1. \A o \in Past(runs', r) \ {m} : Before(runs', o, m)
      <4> TAKE o \in Past(runs', r) \ {m}
      <4>1. o < m /\ o \in Same(r) /\ m \in Same(r) BY <2>8, <2>9, <2>10
      <4>2. runs'[o].at <= runs'[m].at BY <1>1, <4>1
      <4> QED BY <2>7, <4>1, <4>2 DEF Before
    <3> QED BY <2>4, <2>10, <3>1, PreviousIsOne
  <2>13. m # 0 /\ m \in DOMAIN runs BY <2>4, <2>6, <2>10
  <2> QED BY <2>4, <2>6, <2>8, <2>11, <2>12, <2>13 DEF Carried
<1>2. IInv /\ [Next]_vars =>
        [\A r \in (DOMAIN runs') \ DOMAIN runs :
            LET same == {q \in DOMAIN runs' : runs'[q].chat = runs'[r].chat}
            IN (\A a, b \in same : a < b => runs'[a].at <= runs'[b].at) /\ same # {r} =>
                  runs'[r].context = runs[Max(same \ {r})].context]_vars
  BY <1>1
<1> QED BY <1>2, AlwaysIInv, PTL DEF Spec, CarriesOn

--------------------------------------------------------------------------------
(* The reviewer of the review loop, for any runs, files and functions. *)

(* What a run has copied is what its files were when it began, and a file not   *)
(* taken for changed is as it was then; the files it named late aside.          *)
CopiesOK(r) ==
    /\ ~began[r] => DOMAIN copies[r] = {}
    /\ \A x \in DOMAIN copies[r] \ late[r] : copies[r][x] = origin[r][x]
    /\ began[r] => \A x \in Files \ modified[r] : disk[x] = origin[r][x]

(* Two open requests ask about the same text, or one about a text already       *)
(* judged, only if the text was asked about twice at once.                      *)
AskedOK ==
    /\ \A r \in Runs : \A u \in waiting[r] : u[2] \in DOMAIN cache => u[2] \in twice
    /\ \A q, r \in Runs : \A u \in waiting[q], w \in waiting[r] :
          u[2] = w[2] => u[2] \in twice \/ (q = r /\ u = w)

(* Every answer is remembered. *)
KnownOK ==
    /\ answered \subseteq DOMAIN cache
    /\ \A r \in Runs : \A u \in DOMAIN verdicts[r] \cup found[r] : u[2] \in DOMAIN cache

MapsOK ==
    /\ DOMAIN copies = Runs /\ DOMAIN verdicts = Runs
    /\ waiting \in [Runs -> SUBSET Units] /\ found \in [Runs -> SUBSET Units]
    /\ origin \in [Runs -> [Files -> Content]] /\ late \in [Runs -> SUBSET Files]

ReviewInv ==
    /\ ReviewTypeOK /\ MapsOK /\ VerdictsMatch
    /\ \A r \in Runs : CopiesOK(r)
    /\ AskedOK /\ KnownOK

--------------------------------------------------------------------------------
(* The functions a review judges: a cut of a list without ties.                 *)

(* A file has at most one text of a function, so of two functions that changed  *)
(* one is read first.                                                           *)
LEMMA ChangedUnitsCompare ==
  ASSUME ReviewTypeOK, NEW r \in Runs
  PROVE  /\ ChangedUnits(r) \subseteq Units
         /\ \A u, w \in ChangedUnits(r) : u = w \/ Precedes(u, w) \/ Precedes(w, u)
<1>1. \A u \in ChangedUnits(r) :
          /\ u[1] \in Files /\ u[2][1] \in Functs
          /\ u = <<u[1], <<u[2][1], disk[u[1]][u[2][1]]>>>> /\ u \in Units
  <2> SUFFICES ASSUME NEW x \in DOMAIN copies[r] \cup modified[r],
                      NEW t \in TextsOf(disk[x]) \ Earlier(r, x)
               PROVE  /\ x \in Files /\ t[1] \in Functs
                      /\ t = <<t[1], disk[x][t[1]]>> /\ <<x, t>> \in Units
    BY DEF ChangedUnits
  <2>1. x \in Files BY DEF ReviewTypeOK
  <2>2. PICK f \in Functs : t = <<f, disk[x][f]>> /\ disk[x][f] # 0 BY DEF TextsOf
  <2>3. disk[x][f] \in 1 .. MaxVersion
    BY <2>1, <2>2, ReviewBoundsAssumption DEF ReviewTypeOK, Content, Versions
  <2> QED BY <2>1, <2>2, <2>3 DEF Units, Texts
<1>2. \A u, w \in ChangedUnits(r) : u[1] = w[1] /\ u[2][1] = w[2][1] => u = w
  BY <1>1
<1> QED BY <1>1, <1>2, ReviewBoundsAssumption DEF Precedes

LEMMA UnitsAreFinite == ASSUME NEW S, S \subseteq Units PROVE IsFiniteSet(S)
<1>1. IsFiniteSet(1 .. MaxVersion) BY FS_Interval, ReviewBoundsAssumption
<1>2. IsFiniteSet(Texts) BY <1>1, FS_Product, ReviewBoundsAssumption DEF Texts
<1>3. IsFiniteSet(Units) BY <1>2, FS_Product, ReviewBoundsAssumption DEF Units
<1> QED BY <1>3, FS_Subset

(* The cut takes everything, or MAX_UNITS of it. *)
LEMMA FirstUnitsCut ==
  ASSUME NEW S, S \subseteq Units,
         \A u, w \in S : u = w \/ Precedes(u, w) \/ Precedes(w, u)
  PROVE  /\ Cardinality(FirstUnits(S)) <= MaxUnits
         /\ FirstUnits(S) = S \/ Cardinality(FirstUnits(S)) = MaxUnits
<1> DEFINE Below(u) == {w \in S : Precedes(w, u)}
           First == FirstUnits(S)
<1>1. /\ \A u \in S : IsFiniteSet(Below(u)) /\ Cardinality(Below(u)) \in Nat
      /\ IsFiniteSet(First) /\ Cardinality(First) \in Nat /\ MaxUnits \in Nat
  <2>1. \A u \in S : Below(u) \subseteq Units OBVIOUS
  <2>2. First \subseteq Units BY DEF FirstUnits
  <2> QED BY <2>1, <2>2, UnitsAreFinite, FS_CardinalityType, ReviewBoundsAssumption
<1>2. \A u, v, w \in S : Precedes(u, v) /\ Precedes(v, w) => Precedes(u, w)
  <2>1. \A u \in S : u[1] \in Nat /\ u[2][1] \in Nat
    BY ReviewBoundsAssumption DEF Units, Texts
  <2> QED BY <2>1 DEF Precedes
<1>3. \A u \in S : ~Precedes(u, u)
  <2>1. \A u \in S : u[1] \in Nat /\ u[2][1] \in Nat
    BY ReviewBoundsAssumption DEF Units, Texts
  <2> QED BY <2>1 DEF Precedes
<1>4. First = {u \in S : Cardinality(Below(u)) < MaxUnits} BY DEF FirstUnits
<1>5. \A u, w \in S : Precedes(u, w) => Below(u) \subseteq Below(w) /\ Cardinality(Below(u)) <= Cardinality(Below(w))
  <2> SUFFICES ASSUME NEW u \in S, NEW w \in S, Precedes(u, w)
               PROVE  Below(u) \subseteq Below(w) /\ Cardinality(Below(u)) <= Cardinality(Below(w))
    OBVIOUS
  <2>1. Below(u) \subseteq Below(w) BY <1>2
  <2>2. IsFiniteSet(Below(w)) BY <1>1
  <2> HIDE DEF Below
  <2> QED BY <2>1, <2>2, FS_Subset
<1>6. Cardinality(First) <= MaxUnits
  <2>1. CASE First = {} BY <2>1, <1>1, FS_EmptySet
  <2>2. CASE First # {}
    <3> DEFINE Ranks == {Cardinality(Below(u)) : u \in First}
    <3>1. \A u \in First : Cardinality(Below(u)) \in Nat /\ Cardinality(Below(u)) <= MaxUnits
      <4> HIDE DEF Below
      <4> QED BY <1>1, <1>4
    <3> HIDE DEF Below
    <3>9. Ranks \subseteq Nat /\ Ranks # {} /\ \A x \in Ranks : x <= MaxUnits
      BY <3>1, <2>2
    <3>2. PICK k \in Ranks : \A x \in Ranks : x <= k BY <3>9, <1>1, MaxExists
    <3>3. PICK m \in First : Cardinality(Below(m)) = k BY <3>2
    <3> USE DEF Below
    <3>4. First \subseteq Below(m) \cup {m}
      <4> SUFFICES ASSUME NEW u \in First, u # m, ~Precedes(u, m) PROVE FALSE BY <1>4
      <4>1. u \in S /\ m \in S /\ Precedes(m, u) BY <1>4, <3>3
      <4>2. Below(m) \cup {m} \subseteq Below(u) BY <4>1, <1>2
      <4>3. m \notin Below(m) BY <1>3, <1>4
      <4>4. IsFiniteSet(Below(m)) /\ IsFiniteSet(Below(u)) /\ Cardinality(Below(m)) \in Nat
            /\ Cardinality(Below(u)) \in Nat BY <4>1, <1>1
      <4>5. Cardinality(Below(u)) <= k BY <3>2
      <4> HIDE DEF Below
      <4>6. Cardinality(Below(m) \cup {m}) = Cardinality(Below(m)) + 1 BY <4>3, <4>4, FS_AddElement
      <4>7. Cardinality(Below(m) \cup {m}) <= Cardinality(Below(u)) BY <4>2, <4>4, FS_Subset
      <4> QED BY <3>3, <4>4, <4>5, <4>6, <4>7
    <3>5. m \in S /\ Cardinality(Below(m)) < MaxUnits /\ m \notin Below(m)
      BY <1>3, <1>4, <3>3
    <3>6. IsFiniteSet(Below(m)) /\ Cardinality(Below(m)) \in Nat BY <3>5, <1>1
    <3> HIDE DEF Below, First
    <3>7. /\ IsFiniteSet(Below(m) \cup {m})
          /\ Cardinality(Below(m) \cup {m}) = Cardinality(Below(m)) + 1
      BY <3>5, <3>6, FS_AddElement
    <3>8. Cardinality(First) <= Cardinality(Below(m) \cup {m}) BY <3>4, <3>7, FS_Subset
    <3> QED BY <1>1, <3>5, <3>6, <3>7, <3>8
  <2> QED BY <2>1, <2>2
<1>7. ASSUME First # S PROVE Cardinality(First) >= MaxUnits
  <2> DEFINE Ranks == {Cardinality(Below(u)) : u \in S \ First}
  <2>0. S \ First # {} /\ \A u \in S \ First : Cardinality(Below(u)) \in Nat
    <3> HIDE DEF Below
    <3> QED BY <1>1, <1>4, <1>7
  <2>1. Ranks \subseteq Nat /\ Ranks # {}
    <3> HIDE DEF Below
    <3> QED BY <2>0
  <2>2. \E k \in Ranks : \A x \in Ranks : <<x, k>> \notin OpToRel(<, Nat)
    BY <2>1, NatLessThanWellFounded, WFMin
  <2>3. PICK m \in S \ First : \A u \in S \ First : ~(Cardinality(Below(u)) < Cardinality(Below(m)))
    BY <2>1, <2>2 DEF OpToRel
  <2>4. Below(m) \subseteq First
    <3> SUFFICES ASSUME NEW u \in Below(m), u \notin First PROVE FALSE OBVIOUS
    <3>1. u \in S /\ m \in S /\ Precedes(u, m) OBVIOUS
    <3>2. Below(u) \cup {u} \subseteq Below(m) /\ u \notin Below(u) BY <3>1, <1>2, <1>3
    <3>3. /\ IsFiniteSet(Below(u)) /\ Cardinality(Below(u)) \in Nat
          /\ IsFiniteSet(Below(m)) /\ Cardinality(Below(m)) \in Nat BY <3>1, <1>1
    <3>4. ~(Cardinality(Below(u)) < Cardinality(Below(m))) BY <3>1, <2>3
    <3> HIDE DEF Below
    <3>5. Cardinality(Below(u) \cup {u}) = Cardinality(Below(u)) + 1 BY <3>2, <3>3, FS_AddElement
    <3>6. Cardinality(Below(u) \cup {u}) <= Cardinality(Below(m)) BY <3>2, <3>3, FS_Subset
    <3> QED BY <3>3, <3>4, <3>5, <3>6
  <2>5. Cardinality(Below(m)) \in Nat /\ ~(Cardinality(Below(m)) < MaxUnits) BY <1>1, <1>4
  <2> HIDE DEF Below, First
  <2>6. Cardinality(Below(m)) <= Cardinality(First) BY <2>4, <1>1, FS_Subset
  <2> QED BY <1>1, <2>5, <2>6
<1> QED BY <1>1, <1>6, <1>7
--------------------------------------------------------------------------------
(* The invariant of the reviewer *)

LEMMA ReviewInitInv == ReviewInit => ReviewInv
<1> SUFFICES ASSUME ReviewInit PROVE ReviewInv OBVIOUS
<1> USE DEF ReviewInit
<1>1. DOMAIN EmptyMap = {} BY DEF EmptyMap
<1>2. Cardinality({}) = 0 /\ MaxUnits \in Nat /\ MaxFindings \in Nat
  BY FS_EmptySet, ReviewBoundsAssumption
<1>3. ReviewTypeOK
  <2>1. /\ \A r \in Runs : DOMAIN copies[r] = {} /\ Range(copies[r]) \subseteq Content
        /\ DOMAIN cache \subseteq Texts
    BY <1>1 DEF Range
  <2>2. disk \in [Files -> Content] BY ReviewBoundsAssumption DEF Content, Versions
  <2>3. \A r \in Runs : /\ Cardinality(units[r]) <= MaxUnits /\ Cardinality(found[r]) <= MaxFindings
                       /\ found[r] \subseteq Units /\ ~asking[r]
    BY <1>2
  <2> QED BY <2>1, <2>2, <2>3 DEF ReviewTypeOK
<1>4. MapsOK BY ReviewBoundsAssumption DEF MapsOK, Content, Versions
<1>5. VerdictsMatch /\ AskedOK /\ KnownOK BY <1>1 DEF VerdictsMatch, AskedOK, KnownOK
<1>6. \A r \in Runs : CopiesOK(r) BY <1>1 DEF CopiesOK
<1> QED BY <1>3, <1>4, <1>5, <1>6 DEF ReviewInv

LEMMA BeforeCallInv == ASSUME ReviewInv, NEW r \in Runs, BeforeCall(r) PROVE ReviewInv'
<1> USE DEF ReviewInv
<1>1. PICK named \in SUBSET Files :
          /\ copies' = [copies EXCEPT ![r] = Copied(r, named)]
          /\ late' = [late EXCEPT ![r] = @ \cup
                 {x \in named \ DOMAIN copies[r] : began[r] /\ x \in modified[r]}]
  BY DEF BeforeCall
<1>2. /\ began' = [began EXCEPT ![r] = TRUE]
      /\ origin' = IF began[r] THEN origin ELSE [origin EXCEPT ![r] = disk]
      /\ began[r] => modified' = modified
      /\ modified' = modified \/ \E recent \in SUBSET Files : modified' = [modified EXCEPT ![r] = recent]
      /\ UNCHANGED <<disk, cache, reviews, twice, answered>>
  BY DEF BeforeCall
<1>3. /\ DOMAIN Copied(r, named) = DOMAIN copies[r] \cup named
      /\ \A x \in DOMAIN copies[r] \cup named :
            Copied(r, named)[x] = IF x \in DOMAIN copies[r] THEN copies[r][x] ELSE disk[x]
  BY DEF Copied
<1>4. ReviewTypeOK'
  <2>1. \A q \in Runs : DOMAIN copies'[q] \subseteq Files /\ Range(copies'[q]) \subseteq Content
    BY <1>1, <1>3, <1>2 DEF ReviewTypeOK, MapsOK, Range
  <2>2. modified' \in [Runs -> SUBSET Files] /\ began' \in [Runs -> BOOLEAN]
    BY <1>2 DEF ReviewTypeOK
  <2> QED BY <1>2, <2>1, <2>2 DEF ReviewTypeOK, reviews
<1>5. MapsOK'
  <2>1. origin' \in [Runs -> [Files -> Content]] BY <1>2 DEF MapsOK, ReviewTypeOK
  <2>2. late' \in [Runs -> SUBSET Files] BY <1>1 DEF MapsOK
  <2> QED BY <1>1, <1>2, <2>1, <2>2 DEF MapsOK, reviews
<1>6. \A q \in Runs : CopiesOK(q)'
  <2>1. ASSUME NEW q \in Runs, q # r PROVE CopiesOK(q)'
    <3>1. /\ copies'[q] = copies[q] /\ late'[q] = late[q] /\ (began'[q] <=> began[q])
          /\ origin'[q] = origin[q] /\ modified'[q] = modified[q]
      BY <1>1, <1>2, <2>1 DEF MapsOK, ReviewTypeOK
    <3> QED BY <1>2, <3>1 DEF CopiesOK
  <2>2. CopiesOK(r)'
    <3>1. /\ copies'[r] = Copied(r, named) /\ began'[r]
          /\ late'[r] = late[r] \cup {x \in named \ DOMAIN copies[r] : began[r] /\ x \in modified[r]}
          /\ origin'[r] = IF began[r] THEN origin[r] ELSE disk
          /\ began[r] => modified'[r] = modified[r]
      BY <1>1, <1>2 DEF MapsOK, ReviewTypeOK
    <3>2. \A x \in DOMAIN copies'[r] \ late'[r] : copies'[r][x] = origin'[r][x]
      <4>1. CASE began[r] BY <4>1, <1>3, <3>1 DEF CopiesOK
      <4>2. CASE ~began[r] BY <4>2, <1>3, <3>1 DEF CopiesOK
      <4> QED BY <4>1, <4>2
    <3>3. \A x \in Files \ modified'[r] : disk'[x] = origin'[r][x]
      BY <1>2, <3>1 DEF CopiesOK
    <3> QED BY <3>1, <3>2, <3>3 DEF CopiesOK
  <2> QED BY <2>1, <2>2
<1>7. VerdictsMatch' /\ AskedOK' /\ KnownOK'
  BY <1>2 DEF VerdictsMatch, AskedOK, KnownOK, reviews
<1> QED BY <1>4, <1>5, <1>6, <1>7

LEMMA ChangeInv ==
  ASSUME ReviewInv, NEW x \in Files, NEW f \in Functs, NEW v \in Versions, Change(x, f, v)
  PROVE  ReviewInv'
<1> USE DEF ReviewInv, Change
<1>1. disk' \in [Files -> Content] /\ \A y \in Files \ {x} : disk'[y] = disk[y]
  BY DEF ReviewTypeOK, Content
<1>2. ReviewTypeOK' BY <1>1 DEF ReviewTypeOK, reviews
<1>3. MapsOK' BY DEF MapsOK, reviews
<1>4. \A q \in Runs : CopiesOK(q)'
  <2> SUFFICES ASSUME NEW q \in Runs PROVE CopiesOK(q)' OBVIOUS
  <2>1. began[q] => modified'[q] = modified[q] \cup {x} OBVIOUS
  <2> QED BY <1>1, <2>1 DEF CopiesOK
<1>5. VerdictsMatch' /\ AskedOK' /\ KnownOK' BY DEF VerdictsMatch, AskedOK, KnownOK, reviews
<1> QED BY <1>2, <1>3, <1>4, <1>5

(* A review looks at the files and asks: answers it takes from the cache are    *)
(* those of the cache, and a text is asked about again only if it is open.      *)
LEMMA ReviewStepInv == ASSUME ReviewInv, NEW r \in Runs, Review(r) PROVE ReviewInv'
<1> USE DEF ReviewInv
<1> DEFINE judged == FirstUnits(ChangedUnits(r))
           asked == Unanswered(judged)
           open == {w[2] : w \in UNION {waiting[q] : q \in Runs}}
<1>1. /\ judged \subseteq Units /\ Cardinality(judged) <= MaxUnits
      /\ asked \subseteq judged /\ \A u \in asked : u[2] \notin DOMAIN cache
      /\ \A u \in judged \ asked : u[2] \in DOMAIN cache
  BY ChangedUnitsCompare, FirstUnitsCut DEF FirstUnits, Unanswered
<1>2. /\ units' = [units EXCEPT ![r] = judged]
      /\ waiting' = [waiting EXCEPT ![r] = asked]
      /\ verdicts' = [verdicts EXCEPT ![r] = [u \in judged \ asked |-> cache[u[2]]]]
      /\ asking' = [asking EXCEPT ![r] = TRUE]
      /\ found' = [found EXCEPT ![r] = {}]
      /\ UNCHANGED <<disk, began, copies, modified, cache, origin, late, answered>>
  BY DEF Review
<1>3. twice' = twice \cup {t \in Texts :
          \E u \in asked : u[2] = t /\ (t \in open \/ \E w \in asked \ {u} : w[2] = t)}
  BY DEF Review
<1> HIDE DEF judged, asked
<1>4. ReviewTypeOK'
  BY <1>1, <1>2, FS_EmptySet, ReviewBoundsAssumption DEF ReviewTypeOK, MapsOK
<1>5. MapsOK' BY <1>1, <1>2 DEF MapsOK
<1>6. \A q \in Runs : CopiesOK(q)' BY <1>2 DEF CopiesOK
<1>7. VerdictsMatch' BY <1>1, <1>2, <1>3 DEF VerdictsMatch, MapsOK
<1>8. KnownOK' BY <1>1, <1>2 DEF KnownOK, MapsOK
<1>9. AskedOK'
  <2>1. \A q \in Runs : waiting'[q] = IF q = r THEN asked ELSE waiting[q]
    BY <1>2 DEF MapsOK
  <2>2. \A u \in asked : u[2] \in Texts BY <1>1 DEF Units
  <2>3. \A q \in Runs : \A w \in waiting[q] : w[2] \in open OBVIOUS
  <2> HIDE DEF open
  <2>4. \A u \in asked : u[2] \in open => u[2] \in twice' BY <1>3, <2>2
  <2>5. \A u, w \in asked : u[2] = w[2] => u[2] \in twice' \/ u = w BY <1>3, <2>2
  <2>6. twice \subseteq twice' BY <1>3
  <2>7. ASSUME NEW q \in Runs, NEW u \in waiting'[q], u[2] \in DOMAIN cache'
        PROVE  u[2] \in twice'
    BY <1>1, <1>2, <2>1, <2>6, <2>7 DEF AskedOK
  <2>8. ASSUME NEW p \in Runs, NEW q \in Runs, NEW u \in waiting'[p], NEW w \in waiting'[q],
               u[2] = w[2]
        PROVE  u[2] \in twice' \/ (p = q /\ u = w)
    <3>1. CASE p = r /\ q = r BY <3>1, <2>1, <2>5, <2>8
    <3>2. CASE p = r /\ q # r BY <3>2, <2>1, <2>3, <2>4, <2>8
    <3>3. CASE p # r /\ q = r BY <3>3, <2>1, <2>3, <2>4, <2>8
    <3>4. CASE p # r /\ q # r BY <3>4, <2>1, <2>6, <2>8 DEF AskedOK
    <3> QED BY <3>1, <3>2, <3>3, <3>4
  <2> QED BY <2>7, <2>8 DEF AskedOK
<1> QED BY <1>4, <1>5, <1>6, <1>7, <1>8, <1>9

(* The other requests of the text are of texts asked about twice. *)
LEMMA AnswerInv ==
  ASSUME ReviewInv, NEW r \in Runs, NEW u \in waiting[r], NEW applies \in BOOLEAN,
         Answer(r, u, applies)
  PROVE  ReviewInv'
<1> USE DEF ReviewInv
<1>1. /\ waiting' = [waiting EXCEPT ![r] = @ \ {u}]
      /\ verdicts' = [verdicts EXCEPT ![r] = With(@, u, applies)]
      /\ cache' = With(cache, u[2], applies)
      /\ answered' = answered \cup {u[2]}
      /\ UNCHANGED <<disk, began, copies, modified, asking, units, found, origin, late, twice>>
  BY DEF Answer
<1>2. /\ DOMAIN cache' = DOMAIN cache \cup {u[2]} /\ cache'[u[2]] = applies
      /\ \A t \in DOMAIN cache \ {u[2]} : cache'[t] = cache[t]
  BY <1>1 DEF With
<1>3. /\ DOMAIN verdicts'[r] = DOMAIN verdicts[r] \cup {u} /\ verdicts'[r][u] = applies
      /\ \A w \in DOMAIN verdicts[r] \ {u} : verdicts'[r][w] = verdicts[r][w]
      /\ \A q \in Runs \ {r} : verdicts'[q] = verdicts[q]
  BY <1>1 DEF With, MapsOK
<1>4. u \in Units /\ u[2] \in Texts BY DEF MapsOK, Units
<1>5. \A q \in Runs : waiting'[q] = IF q = r THEN waiting[r] \ {u} ELSE waiting[q]
  BY <1>1 DEF MapsOK
<1>6. u[2] \in DOMAIN cache => u[2] \in twice BY DEF AskedOK
<1>7. ReviewTypeOK' BY <1>1, <1>2, <1>3, <1>4, <1>5 DEF ReviewTypeOK
<1>8. MapsOK' BY <1>1 DEF MapsOK
<1>9. \A q \in Runs : CopiesOK(q)' BY <1>1 DEF CopiesOK
<1>10. VerdictsMatch'
  <2>1. ASSUME NEW q \in Runs, NEW w \in DOMAIN verdicts'[q], w[2] \in DOMAIN cache' \ twice'
        PROVE  verdicts'[q][w] = cache'[w[2]]
    <3>1. CASE q = r /\ w = u BY <3>1, <1>2, <1>3
    <3>2. CASE ~(q = r /\ w = u)
      <4>1. w \in DOMAIN verdicts[q] /\ verdicts'[q][w] = verdicts[q][w] BY <1>3, <2>1, <3>2
      <4>2. w[2] \in DOMAIN cache BY <4>1 DEF KnownOK
      <4>3. w[2] # u[2] BY <4>2, <1>1, <1>6, <2>1
      <4> QED BY <4>1, <4>2, <4>3, <1>1, <1>2, <2>1 DEF VerdictsMatch
    <3> QED BY <3>1, <3>2
  <2>2. ASSUME NEW q \in Runs, NEW w \in found'[q], w[2] \in DOMAIN cache' \ twice'
        PROVE  cache'[w[2]]
    <3>1. w[2] \in DOMAIN cache BY <1>1 DEF KnownOK
    <3>2. w[2] # u[2] BY <3>1, <1>1, <1>6, <2>2
    <3> QED BY <3>1, <3>2, <1>1, <1>2, <2>2 DEF VerdictsMatch
  <2> QED BY <2>1, <2>2 DEF VerdictsMatch
<1>11. AskedOK'
  <2>1. ASSUME NEW q \in Runs, NEW w \in waiting'[q], w[2] \in DOMAIN cache'
        PROVE  w[2] \in twice'
    <3>1. w \in waiting[q] /\ ~(q = r /\ w = u) BY <1>5, <2>1
    <3> QED BY <3>1, <1>1, <1>2, <2>1 DEF AskedOK
  <2> QED BY <2>1, <1>1, <1>5 DEF AskedOK
<1>12. KnownOK' BY <1>1, <1>2, <1>3 DEF KnownOK
<1> QED BY <1>7, <1>8, <1>9, <1>10, <1>11, <1>12

(* A finding is about a text Jev has judged, and found at fault. *)
FoundOK ==
    /\ found \in [Runs -> SUBSET Units]
    /\ \A r \in Runs : Cardinality(found[r]) <= MaxFindings
    /\ \A r \in Runs : \A u \in found[r] :
          u[2] \in DOMAIN cache /\ (u[2] \notin twice => cache[u[2]])

LocalsOK ==
    /\ asking \in [Runs -> BOOLEAN] /\ units \in [Runs -> SUBSET Units]
    /\ waiting \in [Runs -> SUBSET Units] /\ DOMAIN verdicts = Runs
    /\ \A r \in Runs : Cardinality(units[r]) <= MaxUnits
    /\ \A r \in Runs : asking[r] => DOMAIN verdicts[r] \cup waiting[r] = units[r]

(* The locals of a review are dropped, the answers it got stay. *)
LEMMA ForgetInv ==
  ASSUME ReviewInv, NEW r \in Runs, Forget(r), FoundOK', UNCHANGED <<cache, twice, answered>>
  PROVE  VerdictsMatch' /\ AskedOK' /\ KnownOK' /\ LocalsOK'
<1> USE DEF ReviewInv, FoundOK
<1>1. /\ \A q \in Runs : waiting'[q] = IF q = r THEN {} ELSE waiting[q]
      /\ \A q \in Runs : verdicts'[q] = IF q = r THEN EmptyMap ELSE verdicts[q]
      /\ \A q \in Runs : units'[q] = IF q = r THEN {} ELSE units[q]
      /\ \A q \in Runs : asking'[q] <=> q # r /\ asking[q]
      /\ DOMAIN EmptyMap = {} /\ Cardinality({}) = 0
  BY FS_EmptySet DEF Forget, MapsOK, ReviewTypeOK, EmptyMap
<1>2. VerdictsMatch' BY <1>1 DEF VerdictsMatch
<1>3. AskedOK' BY <1>1 DEF AskedOK
<1>4. KnownOK' BY <1>1 DEF KnownOK
<1>5. LocalsOK' BY <1>1, ReviewBoundsAssumption DEF LocalsOK, Forget, MapsOK, ReviewTypeOK
<1> QED BY <1>2, <1>3, <1>4, <1>5

LEMMA FailInv == ASSUME ReviewInv, NEW r \in Runs, Fail(r) PROVE ReviewInv'
<1> USE DEF ReviewInv, Fail
<1>1. FoundOK' BY DEF FoundOK, MapsOK, ReviewTypeOK, KnownOK, VerdictsMatch
<1>2. VerdictsMatch' /\ AskedOK' /\ KnownOK' /\ LocalsOK' BY <1>1, ForgetInv
<1>3. ReviewTypeOK' /\ MapsOK' BY <1>1, <1>2 DEF ReviewTypeOK, MapsOK, FoundOK, LocalsOK
<1>4. \A q \in Runs : CopiesOK(q)' BY DEF CopiesOK
<1> QED BY <1>2, <1>3, <1>4

(* All verdicts are there, and those it finds at fault are Jev's. *)
LEMMA FinishReviewInv == ASSUME ReviewInv, NEW r \in Runs, FinishReview(r) PROVE ReviewInv'
<1> USE DEF ReviewInv
<1>1. PICK most \in SUBSET Reported(r) :
          Cardinality(most) <= MaxFindings /\ found' = [found EXCEPT ![r] = most]
  BY DEF FinishReview
<1>2. /\ asking[r] /\ waiting[r] = {} /\ Forget(r)
      /\ UNCHANGED <<disk, began, copies, modified, cache, origin, late, twice, answered>>
  BY DEF FinishReview
<1>3. \A u \in most : u \in Units /\ u \in DOMAIN verdicts[r] /\ verdicts[r][u]
  BY <1>1, <1>2 DEF Reported, ReviewTypeOK
<1>4. \A q \in Runs : found'[q] = IF q = r THEN most ELSE found[q] BY <1>1 DEF MapsOK
<1>5. FoundOK'
  <2>1. found' \in [Runs -> SUBSET Units] BY <1>1, <1>3 DEF MapsOK
  <2> QED BY <1>1, <1>2, <1>3, <1>4, <2>1 DEF FoundOK, ReviewTypeOK, KnownOK, VerdictsMatch
<1>6. VerdictsMatch' /\ AskedOK' /\ KnownOK' /\ LocalsOK' BY <1>2, <1>5, ForgetInv
<1>7. ReviewTypeOK' /\ MapsOK' BY <1>2, <1>5, <1>6 DEF ReviewTypeOK, MapsOK, FoundOK, LocalsOK
<1>8. \A q \in Runs : CopiesOK(q)' BY <1>2 DEF CopiesOK
<1> QED BY <1>6, <1>7, <1>8

LEMMA EndInv == ASSUME ReviewInv, NEW r \in Runs, End(r) PROVE ReviewInv'
<1> USE DEF ReviewInv, End
<1>1. DOMAIN EmptyMap = {} /\ Range(EmptyMap) = {} /\ Cardinality({}) = 0
  BY FS_EmptySet DEF EmptyMap, Range
<1>2. FoundOK'
  <2>1. \A q \in Runs : found'[q] = IF q = r THEN {} ELSE found[q] BY DEF MapsOK
  <2>2. found' \in [Runs -> SUBSET Units] BY DEF MapsOK
  <2> QED BY <1>1, <2>1, <2>2, ReviewBoundsAssumption
      DEF FoundOK, ReviewTypeOK, KnownOK, VerdictsMatch
<1>3. VerdictsMatch' /\ AskedOK' /\ KnownOK' /\ LocalsOK' BY <1>2, ForgetInv
<1>4. /\ \A q \in Runs : copies'[q] = IF q = r THEN EmptyMap ELSE copies[q]
      /\ \A q \in Runs : began'[q] <=> q # r /\ began[q]
      /\ DOMAIN copies' = Runs
  BY DEF MapsOK, ReviewTypeOK
<1>5. \A q \in Runs : DOMAIN copies'[q] \subseteq Files /\ Range(copies'[q]) \subseteq Content
  BY <1>1, <1>4 DEF ReviewTypeOK
<1>6. ReviewTypeOK' BY <1>2, <1>3, <1>5 DEF ReviewTypeOK, FoundOK, LocalsOK
<1>7. MapsOK' BY <1>2, <1>3, <1>4 DEF MapsOK, FoundOK, LocalsOK
<1>8. \A q \in Runs : CopiesOK(q)' BY <1>1, <1>4 DEF CopiesOK, MapsOK, ReviewTypeOK
<1> QED BY <1>3, <1>6, <1>7, <1>8

LEMMA ReviewNextInv == ReviewInv /\ [ReviewNext]_reviewVars => ReviewInv'
<1> SUFFICES ASSUME ReviewInv, [ReviewNext]_reviewVars PROVE ReviewInv' OBVIOUS
<1>1. ASSUME NEW r \in Runs,
             BeforeCall(r) \/ Review(r) \/ Fail(r) \/ FinishReview(r) \/ End(r)
      PROVE  ReviewInv'
  BY <1>1, BeforeCallInv, ReviewStepInv, FailInv, FinishReviewInv, EndInv
<1>2. ASSUME NEW r \in Runs, NEW u \in waiting[r], NEW applies \in BOOLEAN, Answer(r, u, applies)
      PROVE  ReviewInv'
  BY <1>2, AnswerInv
<1>3. ASSUME NEW x \in Files, NEW f \in Functs, NEW v \in Versions, Change(x, f, v)
      PROVE  ReviewInv'
  BY <1>3, ChangeInv
<1>4. CASE UNCHANGED reviewVars
  BY <1>4 DEF reviewVars, ReviewInv, ReviewTypeOK, MapsOK, VerdictsMatch, CopiesOK, AskedOK, KnownOK
<1> QED BY <1>1, <1>2, <1>3, <1>4 DEF ReviewNext

LEMMA ReviewInvHolds == ReviewSpec => []ReviewInv
BY ReviewInitInv, ReviewNextInv, PTL DEF ReviewSpec

(* However many runs share the reviewer and in whatever order Jev answers, a    *)
(* verdict is Jev's answer for the function it is about, a finding is one that  *)
(* Jev found at fault, and the units of a review and its findings keep to their *)
(* limits. Texts that two open requests asked about at once are left out.       *)
THEOREM SoundReviews == ReviewSpec => []ReviewIsSound
<1>1. ReviewInv => ReviewIsSound BY DEF ReviewInv, ReviewIsSound
<1> QED BY <1>1, ReviewInvHolds, PTL

(* A review judges each function that is new since the run began, up to         *)
(* MAX_UNITS, and none that is as it was in a file named before it changed.     *)
LEMMA ReviewJudges ==
  ASSUME ReviewInv, NEW r \in Runs, Review(r), NEW x \in Files \ late[r]
  PROVE  LET new == TextsOf(disk[x]) \ TextsOf(origin[r][x])
             judged == {u[2] : u \in {w \in units'[r] : w[1] = x}}
         IN /\ new \subseteq judged \/ Cardinality(units'[r]) = MaxUnits
            /\ x \in DOMAIN copies[r] => judged \subseteq new
<1> DEFINE new == TextsOf(disk[x]) \ TextsOf(origin[r][x])
           judged == {u[2] : u \in {w \in units'[r] : w[1] = x}}
           changed == TextsOf(disk[x]) \ Earlier(r, x)
<1>1. /\ units'[r] = FirstUnits(ChangedUnits(r)) /\ began[r]
      /\ FirstUnits(ChangedUnits(r)) \subseteq ChangedUnits(r)
      /\ \/ FirstUnits(ChangedUnits(r)) = ChangedUnits(r)
         \/ Cardinality(FirstUnits(ChangedUnits(r))) = MaxUnits
  <2>1. units'[r] = FirstUnits(ChangedUnits(r)) /\ began[r]
    BY DEF Review, ReviewInv, ReviewTypeOK
  <2> QED BY <2>1, ChangedUnitsCompare, FirstUnitsCut DEF ReviewInv, FirstUnits
<1>2. \A w \in ChangedUnits(r) : w[1] = x => w[2] \in changed BY DEF ChangedUnits
<1>3. x \in DOMAIN copies[r] \cup modified[r] => \A t \in changed : <<x, t>> \in ChangedUnits(r)
  BY DEF ChangedUnits
<1>4. x \in DOMAIN copies[r] => changed = new BY DEF Earlier, ReviewInv, CopiesOK
<1>5. x \notin DOMAIN copies[r] \cup modified[r] => new = {}
  BY <1>1 DEF ReviewInv, CopiesOK
<1>6. new \subseteq changed
  BY <1>4 DEF Earlier
<1> HIDE DEF new, changed
<1>7. x \in DOMAIN copies[r] => judged \subseteq new BY <1>1, <1>2, <1>4
<1>8. CASE units'[r] = ChangedUnits(r)
  <2>1. \A t \in new : <<x, t>> \in units'[r] BY <1>3, <1>5, <1>6, <1>8
  <2>2. \A t \in new : t \in judged
    <3> SUFFICES ASSUME NEW t \in new PROVE t \in judged OBVIOUS
    <3>1. <<x, t>> \in units'[r] /\ <<x, t>>[1] = x /\ <<x, t>>[2] = t BY <2>1
    <3> QED BY <3>1
  <2> QED BY <2>2, <1>7 DEF new
<1>9. CASE Cardinality(units'[r]) = MaxUnits BY <1>7, <1>9 DEF new
<1> QED BY <1>1, <1>8, <1>9

(* A review judges what is new since its run began, however often a file was    *)
(* named, copied and changed, as far as MAX_UNITS goes, and nothing that is as   *)
(* it was in a file that was copied before it changed.                          *)
THEOREM ChangesAreJudged == ReviewSpec => ReviewsJudgeChanges
<1>1. ASSUME ReviewInv, [ReviewNext]_reviewVars, NEW r \in Runs, Reviews(r)
      PROVE  Review(r)
  <2> USE DEF ReviewInv, ReviewTypeOK, Reviews
  <2>1. ~asking[r] /\ asking'[r] BY <1>1
  <2>2. ASSUME NEW q \in Runs, Review(q) PROVE q = r BY <2>1, <2>2 DEF Review
  <2>3. ASSUME NEW q \in Runs, BeforeCall(q) PROVE FALSE BY <2>1, <2>3 DEF BeforeCall, reviews
  <2>4. ASSUME NEW q \in Runs, Fail(q) \/ FinishReview(q) \/ End(q) PROVE FALSE
    <3>1. asking' = [asking EXCEPT ![q] = FALSE] BY <2>4 DEF Fail, FinishReview, End, Forget
    <3> QED BY <2>1, <3>1
  <2>5. ASSUME NEW q \in Runs, NEW u \in waiting[q], NEW b \in BOOLEAN, Answer(q, u, b) PROVE FALSE
    BY <2>1, <2>5 DEF Answer
  <2>6. ASSUME NEW x \in Files, NEW f \in Functs, NEW v \in Versions, Change(x, f, v) PROVE FALSE
    BY <2>1, <2>6 DEF Change, reviews
  <2>7. CASE UNCHANGED reviewVars BY <2>1, <2>7 DEF reviewVars
  <2> QED BY <1>1, <2>2, <2>3, <2>4, <2>5, <2>6, <2>7 DEF ReviewNext
<1>2. ReviewInv /\ [ReviewNext]_reviewVars =>
        [\A r \in Runs : Reviews(r) => \A x \in Files \ late[r] :
          LET new == TextsOf(disk[x]) \ TextsOf(origin[r][x])
              judged == {u[2] : u \in {w \in units'[r] : w[1] = x}}
          IN /\ new \subseteq judged \/ Cardinality(units'[r]) = MaxUnits
             /\ x \in DOMAIN copies[r] => judged \subseteq new]_reviewVars
  BY <1>1, ReviewJudges
<1> QED BY <1>2, ReviewInvHolds, PTL DEF ReviewsJudgeChanges, ReviewSpec

(* A text that Jev has answered for is in the cache, and what is in the cache   *)
(* is not asked about: also after a review failed, or its run ended.            *)
THEOREM JudgedOnce == ReviewSpec => NeverJudgedTwice
<1>1. ASSUME ReviewInv, [ReviewNext]_reviewVars, NEW r \in Runs, NEW u \in waiting'[r] \ waiting[r]
      PROVE  u[2] \notin answered
  <2> USE DEF ReviewInv, MapsOK
  <2>1. ASSUME NEW q \in Runs, Review(q) PROVE u[2] \notin answered
    <3>1. waiting'[r] = waiting[r] \/ waiting'[r] = Unanswered(FirstUnits(ChangedUnits(r)))
      BY <2>1 DEF Review
    <3> QED BY <1>1, <3>1 DEF Unanswered, KnownOK
  <2>2. ASSUME NEW q \in Runs, BeforeCall(q) PROVE FALSE BY <1>1, <2>2 DEF BeforeCall, reviews
  <2>3. ASSUME NEW q \in Runs, Fail(q) \/ FinishReview(q) \/ End(q) PROVE FALSE
    BY <1>1, <2>3 DEF Fail, FinishReview, End, Forget
  <2>4. ASSUME NEW q \in Runs, NEW w \in waiting[q], NEW b \in BOOLEAN, Answer(q, w, b) PROVE FALSE
    BY <1>1, <2>4 DEF Answer
  <2>5. ASSUME NEW x \in Files, NEW f \in Functs, NEW v \in Versions, Change(x, f, v) PROVE FALSE
    BY <1>1, <2>5 DEF Change, reviews
  <2>6. CASE UNCHANGED reviewVars BY <1>1, <2>6 DEF reviewVars
  <2> QED BY <1>1, <2>1, <2>2, <2>3, <2>4, <2>5, <2>6 DEF ReviewNext
<1>2. ReviewInv /\ [ReviewNext]_reviewVars =>
        [\A r \in Runs : \A u \in waiting'[r] \ waiting[r] : u[2] \notin answered]_reviewVars
  BY <1>1
<1> QED BY <1>2, ReviewInvHolds, PTL DEF NeverJudgedTwice, ReviewSpec
================================================================================
