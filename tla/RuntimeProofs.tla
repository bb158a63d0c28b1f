------------------------------ MODULE RuntimeProofs ------------------------------
(***************************************************************************)
(* Proofs about runs: types, one running run per project, a history that   *)
(* tells the run's status, that finished runs never change, and, when one  *)
(* process uses the workspace, that no run is ended under its execution.   *)
(* Then what an execution may do: it makes the calls it was allowed, as    *)
(* often as its limits say, and adds nodes after what it validated; a      *)
(* failure has its evidence; and the whole implements RunPromise.          *)
(***************************************************************************)
EXTENDS Runtime, TLAPS, FiniteSetTheorems, SequenceTheorems

--------------------------------------------------------------------------------
(* Histories *)

Steady(l) == \A i \in 1 .. Len(l) : l[i].type \notin Terminal

(* A history that ends with its only terminal event, of type t. *)
EndsWith(l, t) ==
    /\ Len(l) > 0
    /\ l[Len(l)].type = t
    /\ \A i \in 1 .. Len(l) - 1 : l[i].type \notin Terminal

LEMMA EvIsEvent == \A t \in EventTypes : Ev(t) \in Event /\ Ev(t).type = t
BY DEF Ev, Event

LEMMA SteadyAppend ==
    ASSUME NEW l \in Seq(Event), NEW m \in Seq(Event), Steady(l), Steady(m)
    PROVE  l \o m \in Seq(Event) /\ Steady(l \o m) /\ Len(l \o m) = Len(l) + Len(m)
BY DEF Steady

LEMMA TerminalAppend ==
    ASSUME NEW l \in Seq(Event), NEW m \in Seq(Event), Steady(l), Steady(m),
           NEW t \in Terminal
    PROVE  /\ l \o (m \o <<Ev(t)>>) \in Seq(Event)
           /\ EndsWith(l \o (m \o <<Ev(t)>>), t)
PROOF
<1>1. Ev(t) \in Event /\ Ev(t).type = t
  BY DEF Terminal, EventTypes, Ev, Event
<1> DEFINE k == l \o m
<1>2. k \in Seq(Event) /\ Steady(k)
  BY SteadyAppend
<1>3. l \o (m \o <<Ev(t)>>) = Append(k, Ev(t))
  BY <1>1
<1> HIDE DEF k
<1>4. Append(k, Ev(t)) \in Seq(Event) /\ EndsWith(Append(k, Ev(t)), t)
  BY <1>1, <1>2 DEF EndsWith, Steady
<1> QED
  BY <1>3, <1>4

LEMMA ReviewedSteady == \A b \in BOOLEAN : <<Reviewed(b)>> \in Seq(Event) /\ Steady(<<Reviewed(b)>>)
BY DEF Reviewed, Event, EventTypes, Steady, Terminal

LEMMA CallEvSteady ==
    \A t \in {"tool.requested", "tool.decided", "tool.completed"}, c \in Nat, b \in BOOLEAN :
        <<CallEv(t, c, b)>> \in Seq(Event) /\ Steady(<<CallEv(t, c, b)>>)
BY DEF CallEv, Event, EventTypes, Steady, Terminal

LEMMA EvSteady ==
    \A t \in EventTypes \ Terminal : <<Ev(t)>> \in Seq(Event) /\ Steady(<<Ev(t)>>)
BY DEF Ev, Event, Steady

LEMMA NodesSteady == \A n \in Nat : Nodes(n) \in Seq(Event) /\ Steady(Nodes(n))
PROOF
<1> TAKE n \in Nat
<1>1. Nodes(n) \in [1 .. n -> Event]
  BY DEF Nodes, Ev, Event, EventTypes
<1>2. Nodes(n) \in Seq(Event) /\ Len(Nodes(n)) = n
  BY <1>1
<1>3. \A i \in 1 .. n : Nodes(n)[i].type = "dag.node_created"
  BY DEF Nodes, Ev
<1> QED
  BY <1>2, <1>3 DEF Steady, Terminal

LEMMA RejectionSteady ==
    \A b \in BOOLEAN : Rejection(b) \in Seq(Event) /\ Steady(Rejection(b))
PROOF
<1> TAKE b \in BOOLEAN
<1>1. <<>> \in Seq(Event) /\ Steady(<<>>)
  BY DEF Steady
<1>2. "jev.rejected" \in EventTypes \ Terminal
  BY DEF EventTypes, Terminal
<1> QED
  BY <1>1, <1>2, EvSteady DEF Rejection

--------------------------------------------------------------------------------
(* The inductive invariant *)

HistoryOf(r) ==
    /\ status[r] = "absent" => log[r] = <<>> /\ project[r] = NoProject
    /\ status[r] = "running" => Len(log[r]) > 0 /\ Steady(log[r])
    /\ status[r] = "completed" => EndsWith(log[r], "run.completed")
    /\ status[r] = "failed" => EndsWith(log[r], "run.failed")
    /\ status[r] = "failed" <=> errorCode[r] # "none"
    /\ status[r] # "absent" => project[r] \in Projects

(* What the step an execution is at says about its own variables. *)
ExecutionOf(r) ==
    /\ pc[r] = "idle" <=> status[r] = "absent"
    /\ Live(r) => owner[r] \in Processes
    /\ pc[r] = "request" => calls[r] > 0
    /\ pc[r] = "failing" => failure[r].code \in ErrorCodes
    /\ Steady(failure[r].evidence)

IInv ==
    /\ TypeOK
    /\ \A r \in Runs : HistoryOf(r)
    /\ \A r \in Runs : ExecutionOf(r)
    /\ OneRunPerProject

LEMMA InitIInv == Init => IInv
PROOF
<1> SUFFICES ASSUME Init PROVE IInv
  OBVIOUS
<1>1. TypeOK
  BY BoundsAssumption DEF Init, TypeOK, LivePcs, NoFailure, ErrorCodes
<1>2. \A r \in Runs : HistoryOf(r)
  BY DEF Init, HistoryOf
<1>3. \A r \in Runs : ExecutionOf(r)
  BY DEF Init, ExecutionOf, Live, LivePcs, NoFailure, Steady
<1>4. OneRunPerProject
  BY DEF Init, OneRunPerProject
<1> QED
  BY <1>1, <1>2, <1>3, <1>4 DEF IInv

--------------------------------------------------------------------------------
(* The database part: what keeps histories and the single run per project *)

TablesOK ==
    /\ project \in [Runs -> Projects \cup {NoProject}]
    /\ status \in [Runs -> {"absent", "running", "completed", "failed"}]
    /\ errorCode \in [Runs -> ErrorCodes \cup {"none"}]
    /\ log \in [Runs -> Seq(Event)]

DbInv ==
    /\ TablesOK
    /\ \A r \in Runs : HistoryOf(r)
    /\ OneRunPerProject

LEMMA RecordDb ==
    ASSUME DbInv, NEW r \in Runs, NEW evs \in Seq(Event), Steady(evs), Record(r, evs)
    PROVE  DbInv'
PROOF
<1>1. log[r] \in Seq(Event) /\ Len(log[r]) > 0 /\ Steady(log[r])
  BY DEF DbInv, TablesOK, HistoryOf, Record
<1>2. log[r] \o evs \in Seq(Event) /\ Steady(log[r] \o evs) /\ Len(log[r] \o evs) > 0
  BY <1>1, SteadyAppend
<1>3. log' = [log EXCEPT ![r] = log[r] \o evs]
  BY DEF Record
<1>4. TablesOK'
  BY <1>2, <1>3 DEF DbInv, TablesOK, Record
<1>5. \A s \in Runs : HistoryOf(s)'
  <2> SUFFICES ASSUME NEW s \in Runs PROVE HistoryOf(s)'
    OBVIOUS
  <2>1. CASE s = r
    BY <1>2, <1>3, <2>1 DEF DbInv, TablesOK, HistoryOf, Record
  <2>2. CASE s # r
    BY <1>3, <2>2 DEF DbInv, TablesOK, HistoryOf, Record
  <2> QED
    BY <2>1, <2>2
<1> QED
  BY <1>4, <1>5 DEF DbInv, OneRunPerProject, Record

LEMMA RecordEndDb ==
    ASSUME DbInv, NEW r \in Runs, NEW m \in Seq(Event), Steady(m),
           NEW s, NEW t, NEW c,
           \/ s = "completed" /\ t = "run.completed" /\ c = "none"
           \/ s = "failed" /\ t = "run.failed" /\ c \in ErrorCodes,
           RecordEnd(r, m \o <<Ev(t)>>, s, c)
    PROVE  DbInv'
PROOF
<1>1. log[r] \in Seq(Event) /\ Steady(log[r])
  BY DEF DbInv, TablesOK, HistoryOf, RecordEnd
<1>2. t \in Terminal
  BY DEF Terminal
<1> DEFINE l == log[r] \o (m \o <<Ev(t)>>)
<1>3. l \in Seq(Event) /\ EndsWith(l, t)
  BY <1>1, <1>2, TerminalAppend
<1>4. log' = [log EXCEPT ![r] = l]
  BY DEF RecordEnd
<1> HIDE DEF l
<1>5. "none" \notin ErrorCodes
  BY DEF ErrorCodes
<1>6. TablesOK'
  BY <1>3, <1>4 DEF DbInv, TablesOK, RecordEnd
<1>7. \A q \in Runs : HistoryOf(q)'
  <2> SUFFICES ASSUME NEW q \in Runs PROVE HistoryOf(q)'
    OBVIOUS
  <2>1. CASE q = r
    BY <1>3, <1>4, <1>5, <2>1 DEF DbInv, TablesOK, HistoryOf, RecordEnd
  <2>2. CASE q # r
    BY <1>4, <2>2 DEF DbInv, TablesOK, HistoryOf, RecordEnd
  <2> QED
    BY <2>1, <2>2
<1>8. OneRunPerProject'
  BY DEF DbInv, TablesOK, OneRunPerProject, RecordEnd
<1> QED
  BY <1>6, <1>7, <1>8 DEF DbInv

LEMMA UnchangedDb ==
    ASSUME DbInv, UNCHANGED tables
    PROVE  DbInv'
BY DEF DbInv, TablesOK, HistoryOf, OneRunPerProject, tables
LEMMA StartDb ==
    ASSUME DbInv, NEW r \in Runs, NEW p \in Projects, NEW q \in Processes, Start(r, p, q)
    PROVE  DbInv'
PROOF
<1>0. PICK l : l = <<Ev("run.started"), Ev("message.recorded"), Ev("context.carried")>>
  OBVIOUS
<1>1. l \in Seq(Event) /\ Len(l) > 0 /\ Steady(l)
  BY <1>0 DEF Ev, Event, EventTypes, Steady, Terminal
<1>2. log' = [log EXCEPT ![r] = l]
  BY <1>0 DEF Start
<1>3. TablesOK'
  BY <1>1, <1>2 DEF DbInv, TablesOK, Start
<1>4. \A s \in Runs : HistoryOf(s)'
  <2> SUFFICES ASSUME NEW s \in Runs PROVE HistoryOf(s)'
    OBVIOUS
  <2>1. CASE s = r
    <3>1. status'[r] = "running" /\ log'[r] = l /\ project'[r] = p /\ errorCode'[r] = "none"
      BY <1>2 DEF DbInv, TablesOK, HistoryOf, Start
    <3> QED
      BY <1>1, <2>1, <3>1 DEF HistoryOf, Steady
  <2>2. CASE s # r
    BY <1>2, <2>2 DEF DbInv, TablesOK, HistoryOf, Start
  <2> QED
    BY <2>1, <2>2
<1>5. OneRunPerProject'
  BY DEF DbInv, TablesOK, OneRunPerProject, Start, Busy
<1> QED
  BY <1>3, <1>4, <1>5 DEF DbInv

LEMMA RecoverDb ==
    ASSUME DbInv, NEW q \in Processes, Recover(q)
    PROVE  DbInv'
PROOF
<1>1. Ev("run.failed") \in Event /\ Ev("run.failed").type = "run.failed"
  BY DEF Ev, Event, EventTypes
<1>2. \A r \in Stale(q) :
         /\ r \in Runs /\ log[r] \in Seq(Event) /\ status[r] = "running"
         /\ Append(log[r], Ev("run.failed")) \in Seq(Event)
         /\ EndsWith(Append(log[r], Ev("run.failed")), "run.failed")
  <2> SUFFICES ASSUME NEW r \in Stale(q)
               PROVE  /\ r \in Runs /\ log[r] \in Seq(Event) /\ status[r] = "running"
                      /\ Append(log[r], Ev("run.failed")) \in Seq(Event)
                      /\ EndsWith(Append(log[r], Ev("run.failed")), "run.failed")
    OBVIOUS
  <2>1. r \in Runs /\ log[r] \in Seq(Event) /\ status[r] = "running" /\ Steady(log[r])
    BY DEF Stale, DbInv, TablesOK, HistoryOf
  <2> QED
    BY <1>1, <2>1 DEF EndsWith, Steady
<1>3. TablesOK'
  BY <1>2 DEF DbInv, TablesOK, Recover, ErrorCodes
<1>4. \A s \in Runs : HistoryOf(s)'
  <2> SUFFICES ASSUME NEW s \in Runs PROVE HistoryOf(s)'
    OBVIOUS
  <2>1. CASE s \in Stale(q)
    BY <1>2, <2>1 DEF DbInv, TablesOK, HistoryOf, Recover
  <2>2. CASE s \notin Stale(q)
    BY <2>2 DEF DbInv, TablesOK, HistoryOf, Recover
  <2> QED
    BY <2>1, <2>2
<1>5. OneRunPerProject'
  BY DEF DbInv, TablesOK, OneRunPerProject, Recover
<1> QED
  BY <1>3, <1>4, <1>5 DEF DbInv

--------------------------------------------------------------------------------
(* The execution part *)

StateOK ==
    /\ rounds \in [Runs -> Nat]
    /\ calls \in [Runs -> Nat]
    /\ nextCall \in [Runs -> Nat \ {0}]
    /\ reviews \in [Runs -> Nat]
    /\ handed \in [Runs -> 0 .. MaxCode]
    /\ code \in [Runs -> 0 .. MaxCode]

LEMMA IInvParts ==
    IInv <=> /\ DbInv
             /\ StateOK
             /\ up \in [Processes -> BOOLEAN]
             /\ owner \in [Runs -> Processes \cup {NoProcess}]
             /\ pc \in [Runs -> LivePcs \cup {"idle", "ended"}]
             /\ stop \in [Runs -> {"none", "armed", "notified"}]
             /\ failure \in [Runs -> [code : ErrorCodes \cup {"none"}, evidence : Seq(Event)]]
             /\ \A r \in Runs : ExecutionOf(r)
BY DEF IInv, DbInv, TablesOK, TypeOK, StateOK

(* A step that records non-terminal events and goes on. *)
LEMMA AdvanceIInv ==
    ASSUME IInv, NEW r \in Runs, NEW from \in LivePcs, NEW evs \in Seq(Event), Steady(evs),
           NEW step \in LivePcs \ {"failing"}, Advance(r, from, evs, step), UNCHANGED up,
           StateOK', \A s \in Runs \ {r} : calls'[s] = calls[s],
           step = "request" => calls'[r] > 0
    PROVE  IInv'
PROOF
<1>1. DbInv'
  BY IInvParts, RecordDb DEF Advance
<1>2. pc' = [pc EXCEPT ![r] = step] /\ status' = status
  BY DEF Advance, Goto, Record
<1>3. \A s \in Runs : ExecutionOf(s)'
  <2> SUFFICES ASSUME NEW s \in Runs PROVE ExecutionOf(s)'
    OBVIOUS
  <2>1. ExecutionOf(s) /\ pc[r] = from /\ ExecutionOf(r)
    BY DEF IInv, Advance
  <2>2. pc \in [Runs -> LivePcs \cup {"idle", "ended"}]
    BY IInvParts
  <2>3. CASE s = r
    BY <1>2, <2>1, <2>2, <2>3 DEF ExecutionOf, Advance, Live, LivePcs
  <2>4. CASE s # r
    BY <1>2, <2>1, <2>2, <2>4 DEF ExecutionOf, Advance, Live
  <2> QED
    BY <2>3, <2>4
<1>4. pc' \in [Runs -> LivePcs \cup {"idle", "ended"}]
  BY <1>2, IInvParts
<1> QED
  BY <1>1, <1>3, <1>4, IInvParts DEF Advance, IInv, DbInv, TablesOK, TypeOK, StateOK

(* A step that only moves on. *)
LEMMA GotoIInv ==
    ASSUME IInv, NEW r \in Runs, Live(r), NEW step \in (LivePcs \cup {"ended"}) \ {"failing", "request"},
           Goto(r, step), UNCHANGED <<tables, up, owner, state, failure>>,
           stop' \in [Runs -> {"none", "armed", "notified"}]
    PROVE  IInv'
PROOF
<1>1. DbInv'
  BY IInvParts, UnchangedDb
<1>2. pc' = [pc EXCEPT ![r] = step] /\ status' = status
  BY DEF Goto, tables
<1>3. pc \in [Runs -> LivePcs \cup {"idle", "ended"}]
  BY IInvParts
<1>4. \A s \in Runs : ExecutionOf(s)'
  BY <1>2, <1>3 DEF IInv, ExecutionOf, Live, LivePcs, state
<1>5. StateOK' /\ pc' \in [Runs -> LivePcs \cup {"idle", "ended"}]
  BY <1>2, <1>3, IInvParts DEF StateOK, state
<1> QED
  BY <1>1, <1>4, <1>5, IInvParts DEF IInv, DbInv, TablesOK, TypeOK, StateOK

(* An error that leaves execute. *)
LEMMA FailIInv ==
    ASSUME IInv, NEW r \in Runs, Live(r), NEW c \in ErrorCodes,
           NEW evs \in Seq(Event), Steady(evs), Fail(r, c, evs)
    PROVE  IInv'
PROOF
<1>1. DbInv'
  BY IInvParts, UnchangedDb DEF Fail
<1>2. pc' = [pc EXCEPT ![r] = "failing"] /\ status' = status
  BY DEF Fail, Goto, tables
<1>3. /\ failure' = [failure EXCEPT ![r] = Failure(c, evs)]
      /\ failure \in [Runs -> [code : ErrorCodes \cup {"none"}, evidence : Seq(Event)]]
      /\ Failure(c, evs) \in [code : ErrorCodes \cup {"none"}, evidence : Seq(Event)]
      /\ Failure(c, evs).code = c /\ Failure(c, evs).evidence = evs
  BY IInvParts DEF Fail, Failure
<1>4. pc \in [Runs -> LivePcs \cup {"idle", "ended"}]
  BY IInvParts
<1>5. \A s \in Runs : ExecutionOf(s)'
  <2> SUFFICES ASSUME NEW s \in Runs PROVE ExecutionOf(s)'
    OBVIOUS
  <2>1. ExecutionOf(s) /\ ExecutionOf(r) /\ UNCHANGED <<owner, calls>>
    BY DEF IInv, Fail, state
  <2>2. CASE s = r
    BY <1>2, <1>3, <1>4, <2>1, <2>2 DEF ExecutionOf, Live, LivePcs
  <2>3. CASE s # r
    BY <1>2, <1>3, <1>4, <2>1, <2>3 DEF ExecutionOf, Live
  <2> QED
    BY <2>2, <2>3
<1>6. StateOK' /\ pc' \in [Runs -> LivePcs \cup {"idle", "ended"}]
  BY <1>2, <1>4, IInvParts DEF StateOK, state, Fail, LivePcs
<1>7. failure' \in [Runs -> [code : ErrorCodes \cup {"none"}, evidence : Seq(Event)]]
  BY <1>3
<1>8. stop' \in [Runs -> {"none", "armed", "notified"}]
  BY IInvParts DEF Fail
<1> QED
  BY <1>1, <1>5, <1>6, <1>7, <1>8, IInvParts DEF Fail, IInv, DbInv, TablesOK, TypeOK, StateOK

--------------------------------------------------------------------------------
(* Each step of an execution keeps the invariant *)

LEMMA FailureCodes ==
    /\ {"provider_failed", "provider_timeout", "response_invalid", "emission_rejected",
         "ir_invalid", "internal", "cancelled"} \subseteq ErrorCodes
    /\ \A b \in BOOLEAN : JevError(b) \in ErrorCodes
    /\ <<>> \in Seq(Event) /\ Steady(<<>>)
BY DEF ErrorCodes, JevError, Steady

LEMMA StepEvents ==
    /\ \A t \in {"jev.requested", "jev.classified", "context.expanded", "ir.compiled",
                  "inference.started", "inference.completed", "response.rejected"} :
          <<Ev(t)>> \in Seq(Event) /\ Steady(<<Ev(t)>>)
    /\ \A b \in BOOLEAN :
          /\ Rejection(b) \o <<Ev("jev.fallback")>> \in Seq(Event)
          /\ Steady(Rejection(b) \o <<Ev("jev.fallback")>>)
    /\ \A n \in Nat :
          /\ <<Ev("response.validated")>> \o Nodes(n) \in Seq(Event)
          /\ Steady(<<Ev("response.validated")>> \o Nodes(n))
PROOF
<1>1. {"jev.requested", "jev.classified", "context.expanded", "ir.compiled", "jev.fallback",
       "inference.started", "inference.completed", "response.rejected",
       "response.validated"} \subseteq EventTypes \ Terminal
  BY DEF EventTypes, Terminal
<1>2. \A t \in EventTypes \ Terminal : <<Ev(t)>> \in Seq(Event) /\ Steady(<<Ev(t)>>)
  BY EvSteady
<1>3. <<Ev("jev.fallback")>> \in Seq(Event) /\ Steady(<<Ev("jev.fallback")>>)
  BY <1>1, <1>2
<1>4. <<Ev("response.validated")>> \in Seq(Event) /\ Steady(<<Ev("response.validated")>>)
  BY <1>1, <1>2
<1>5. \A b \in BOOLEAN :
        /\ Rejection(b) \o <<Ev("jev.fallback")>> \in Seq(Event)
        /\ Steady(Rejection(b) \o <<Ev("jev.fallback")>>)
  BY <1>3, RejectionSteady, SteadyAppend
<1>6. \A n \in Nat :
        /\ <<Ev("response.validated")>> \o Nodes(n) \in Seq(Event)
        /\ Steady(<<Ev("response.validated")>> \o Nodes(n))
  BY <1>4, NodesSteady, SteadyAppend
<1> QED
  BY <1>1, <1>2, <1>5, <1>6

LEMMA AskingIInv ==
    ASSUME IInv, NEW r \in Runs,
           BeginFinish(r) \/ RequestJev(r) \/ JevAnswers(r) \/ FallbackAnswers(r) \/ Everything(r)
    PROVE  IInv'
PROOF
<1>0. StateOK /\ stop \in [Runs -> {"none", "armed", "notified"}]
  BY IInvParts
<1>1. UNCHANGED state => StateOK' /\ UNCHANGED calls
  BY <1>0 DEF state, StateOK
<1>2. CASE BeginFinish(r)
  <2>1. Live(r)
    BY <1>2 DEF BeginFinish, Live, LivePcs
  <2>2. CASE Fail(r, "provider_failed", <<>>)
    BY <2>1, <2>2, FailIInv, FailureCodes
  <2>3. CASE ~Fail(r, "provider_failed", <<>>)
    <3>1. Goto(r, "classify") /\ UNCHANGED <<tables, up, owner, state, failure>>
      BY <1>2, <2>3 DEF BeginFinish
    <3>2. stop' \in [Runs -> {"none", "armed", "notified"}]
      BY <1>0, <1>2, <2>3 DEF BeginFinish
    <3>3. "classify" \in (LivePcs \cup {"ended"}) \ {"failing", "request"}
      BY DEF LivePcs
    <3> QED
      BY <2>1, <3>1, <3>2, <3>3, GotoIInv
  <2> QED
    BY <2>2, <2>3
<1>3. CASE RequestJev(r)
  <2>1. Advance(r, "classify", <<Ev("jev.requested")>>, "jev") /\ UNCHANGED state
    BY <1>3 DEF RequestJev
  <2>2. "classify" \in LivePcs /\ "jev" \in LivePcs \ {"failing"} /\ UNCHANGED up
    BY <2>1 DEF LivePcs, Advance
  <2> QED
    BY <1>1, <2>1, <2>2, StepEvents, AdvanceIInv
<1>4. CASE JevAnswers(r)
  <2>1. CASE Advance(r, "jev", <<Ev("jev.classified")>>, "everything") /\ UNCHANGED state
    <3>1. "jev" \in LivePcs /\ "everything" \in LivePcs \ {"failing"} /\ UNCHANGED up
      BY <2>1 DEF LivePcs, Advance
    <3> QED
      BY <1>1, <2>1, <3>1, StepEvents, AdvanceIInv
  <2>2. ASSUME NEW b \in BOOLEAN, UNCHANGED state,
               Advance(r, "jev", Rejection(b) \o <<Ev("jev.fallback")>>, "fallback")
        PROVE  IInv'
    <3>1. "jev" \in LivePcs /\ "fallback" \in LivePcs \ {"failing"} /\ UNCHANGED up
      BY <2>2 DEF LivePcs, Advance
    <3> QED
      BY <1>1, <2>2, <3>1, StepEvents, AdvanceIInv
  <2>3. ASSUME NEW b \in BOOLEAN, pc[r] = "jev", Fail(r, JevError(b), Rejection(b))
        PROVE  IInv'
    BY <2>3, FailIInv, FailureCodes, RejectionSteady DEF Live, LivePcs
  <2> QED
    BY <1>4, <2>1, <2>2, <2>3 DEF JevAnswers
<1>5. CASE FallbackAnswers(r)
  <2>1. CASE Advance(r, "fallback", <<Ev("jev.classified")>>, "everything") /\ UNCHANGED state
    <3>1. "fallback" \in LivePcs /\ "everything" \in LivePcs \ {"failing"} /\ UNCHANGED up
      BY <2>1 DEF LivePcs, Advance
    <3> QED
      BY <1>1, <2>1, <3>1, StepEvents, AdvanceIInv
  <2>2. ASSUME NEW b \in BOOLEAN, pc[r] = "fallback", Fail(r, JevError(b), Rejection(b))
        PROVE  IInv'
    BY <2>2, FailIInv, FailureCodes, RejectionSteady DEF Live, LivePcs
  <2> QED
    BY <1>5, <2>1, <2>2 DEF FallbackAnswers
<1>6. CASE Everything(r)
  <2>1. CASE Advance(r, "everything", <<Ev("context.expanded")>>, "compile") /\ UNCHANGED state
    <3>1. "everything" \in LivePcs /\ "compile" \in LivePcs \ {"failing"} /\ UNCHANGED up
      BY <2>1 DEF LivePcs, Advance
    <3> QED
      BY <1>1, <2>1, <3>1, StepEvents, AdvanceIInv
  <2>2. CASE pc[r] = "everything" /\ Goto(r, "compile")
             /\ UNCHANGED <<tables, up, owner, state, stop, failure>>
    <3>1. Live(r) /\ "compile" \in (LivePcs \cup {"ended"}) \ {"failing", "request"}
      BY <2>2 DEF Live, LivePcs
    <3> QED
      BY <1>0, <2>2, <3>1, GotoIInv
  <2> QED
    BY <1>6, <2>1, <2>2 DEF Everything
<1> QED
  BY <1>2, <1>3, <1>4, <1>5, <1>6

LEMMA InferringIInv ==
    ASSUME IInv, NEW r \in Runs,
           Compile(r) \/ Infer(r) \/ InferAnswers(r) \/ Respond(r)
    PROVE  IInv'
PROOF
<1>0. StateOK
  BY IInvParts
<1>1. UNCHANGED state => StateOK' /\ UNCHANGED calls
  BY <1>0 DEF state, StateOK
<1>2. CASE Compile(r)
  <2>1. CASE Advance(r, "compile", <<Ev("ir.compiled")>>, "infer") /\ UNCHANGED state
    <3>1. "compile" \in LivePcs /\ "infer" \in LivePcs \ {"failing"} /\ UNCHANGED up
      BY <2>1 DEF LivePcs, Advance
    <3> QED
      BY <1>1, <2>1, <3>1, StepEvents, AdvanceIInv
  <2>2. CASE pc[r] = "compile" /\ Fail(r, "ir_invalid", <<>>)
    BY <2>2, FailIInv, FailureCodes DEF Live, LivePcs
  <2> QED
    BY <1>2, <2>1, <2>2 DEF Compile
<1>3. CASE Infer(r)
  <2>1. Advance(r, "infer", <<Ev("inference.started")>>, "inferring") /\ UNCHANGED state
    BY <1>3 DEF Infer
  <2>2. "infer" \in LivePcs /\ "inferring" \in LivePcs \ {"failing"} /\ UNCHANGED up
    BY <2>1 DEF LivePcs, Advance
  <2> QED
    BY <1>1, <2>1, <2>2, StepEvents, AdvanceIInv
<1>4. CASE InferAnswers(r)
  <2>1. CASE Advance(r, "inferring", <<Ev("inference.completed")>>, "respond") /\ UNCHANGED state
    <3>1. "inferring" \in LivePcs /\ "respond" \in LivePcs \ {"failing"} /\ UNCHANGED up
      BY <2>1 DEF LivePcs, Advance
    <3> QED
      BY <1>1, <2>1, <3>1, StepEvents, AdvanceIInv
  <2>2. ASSUME NEW c \in {"provider_failed", "provider_timeout"},
               pc[r] = "inferring", Fail(r, c, <<>>)
        PROVE  IInv'
    BY <2>2, FailIInv, FailureCodes DEF Live, LivePcs
  <2> QED
    BY <1>4, <2>1, <2>2 DEF InferAnswers
<1>5. CASE Respond(r)
  <2>1. ASSUME NEW c \in {"response_invalid", "emission_rejected"},
               pc[r] = "respond", Fail(r, c, <<Ev("response.rejected")>>)
        PROVE  IInv'
    BY <2>1, FailIInv, FailureCodes, StepEvents DEF Live, LivePcs
  <2>2. ASSUME NEW n \in 0 .. MaxEmissions, NEW k \in 0 .. MaxCalls,
               Advance(r, "respond", <<Ev("response.validated")>> \o Nodes(n),
                       IF k = 0 THEN "review" ELSE "request"),
               rounds' = [rounds EXCEPT ![r] = IF k = 0 THEN @ ELSE @ + 1],
               calls' = [calls EXCEPT ![r] = k],
               UNCHANGED <<nextCall, reviews, handed, code>>
        PROVE  IInv'
    <3>1. n \in Nat /\ k \in Nat
      BY BoundsAssumption
    <3> DEFINE step == IF k = 0 THEN "review" ELSE "request"
    <3>2. "respond" \in LivePcs /\ step \in LivePcs \ {"failing"} /\ UNCHANGED up
      BY <2>2 DEF LivePcs, Advance
    <3>3. StateOK'
      BY <1>0, <2>2, <3>1 DEF StateOK
    <3>4. \A s \in Runs \ {r} : calls'[s] = calls[s]
      BY <1>0, <2>2 DEF StateOK
    <3>5. step = "request" => calls'[r] > 0
      BY <1>0, <2>2, <3>1 DEF StateOK
    <3>6. Advance(r, "respond", <<Ev("response.validated")>> \o Nodes(n), step)
      BY <2>2
    <3> HIDE DEF step
    <3> QED
      BY <3>1, <3>2, <3>3, <3>4, <3>5, <3>6, StepEvents, AdvanceIInv
  <2> QED
    BY <1>5, <2>1, <2>2 DEF Respond
<1> QED
  BY <1>2, <1>3, <1>4, <1>5

LEMMA ToolsIInv ==
    ASSUME IInv, NEW r \in Runs, RequestTool(r) \/ DecideTool(r) \/ EndCall(r)
    PROVE  IInv'
PROOF
<1>0. StateOK /\ calls[r] \in Nat /\ nextCall[r] \in Nat \ {0}
  BY IInvParts DEF StateOK
<1>1. nextCall[r] - 1 \in Nat
  BY <1>0
<1>2. /\ AfterCall(r, calls[r]) \in LivePcs \ {"failing"}
      /\ AfterCall(r, calls[r]) = "request" => calls[r] > 0
  BY DEF AfterCall, LivePcs
<1>3. CASE RequestTool(r)
  <2>1. Advance(r, "request", <<CallEv("tool.requested", nextCall[r], TRUE)>>, "gate")
    BY <1>3 DEF RequestTool
  <2>2. "request" \in LivePcs /\ "gate" \in LivePcs \ {"failing"} /\ UNCHANGED up
    BY <2>1 DEF LivePcs, Advance
  <2>3. pc[r] = "request" /\ calls[r] > 0
    BY <2>1 DEF Advance, IInv, ExecutionOf
  <2>4. StateOK' /\ \A s \in Runs \ {r} : calls'[s] = calls[s]
    BY <1>0, <1>3, <2>3 DEF RequestTool, StateOK
  <2> QED
    BY <1>0, <2>1, <2>2, <2>4, CallEvSteady, AdvanceIInv
<1>4. CASE DecideTool(r)
  <2>1. PICK allowed \in BOOLEAN :
          /\ Advance(r, "gate", <<CallEv("tool.decided", nextCall[r] - 1, allowed)>>,
                     IF allowed THEN "calling" ELSE AfterCall(r, calls[r]))
          /\ UNCHANGED state
    BY <1>4 DEF DecideTool
  <2>2. PICK step : step = IF allowed THEN "calling" ELSE AfterCall(r, calls[r])
    OBVIOUS
  <2>3. "gate" \in LivePcs /\ step \in LivePcs \ {"failing"} /\ UNCHANGED up
    BY <1>2, <2>1, <2>2 DEF LivePcs, Advance
  <2>4. StateOK' /\ UNCHANGED calls
    BY <1>0, <2>1 DEF state, StateOK
  <2>5. step = "request" => calls'[r] > 0
    BY <1>2, <2>2, <2>4
  <2>6. Advance(r, "gate", <<CallEv("tool.decided", nextCall[r] - 1, allowed)>>, step)
    BY <2>1, <2>2
  <2> QED
    BY <1>1, <2>3, <2>4, <2>5, <2>6, CallEvSteady, AdvanceIInv
<1>5. CASE EndCall(r)
  <2>1. PICK ok \in BOOLEAN, v \in 0 .. MaxCode :
          /\ Advance(r, "calling", <<CallEv("tool.completed", nextCall[r] - 1, ok)>>,
                     AfterCall(r, calls[r]))
          /\ code' = [code EXCEPT ![r] = v]
          /\ UNCHANGED <<rounds, calls, nextCall, reviews, handed>>
    BY <1>5 DEF EndCall
  <2>2. "calling" \in LivePcs /\ UNCHANGED up
    BY <2>1 DEF LivePcs, Advance
  <2>3. StateOK' /\ UNCHANGED calls
    BY <1>0, <2>1 DEF StateOK
  <2>4. AfterCall(r, calls[r]) = "request" => calls'[r] > 0
    BY <1>2, <2>3
  <2> QED
    BY <1>1, <1>2, <2>1, <2>2, <2>3, <2>4, CallEvSteady, AdvanceIInv
<1> QED
  BY <1>3, <1>4, <1>5

LEMMA ReviewingIInv ==
    ASSUME IInv, NEW r \in Runs, SkipReview(r) \/ Review(r) \/ Remember(r)
    PROVE  IInv'
PROOF
<1>0. StateOK
  BY IInvParts
<1>1. CASE SkipReview(r)
  <2>1. Live(r) /\ "complete" \in (LivePcs \cup {"ended"}) \ {"failing", "request"}
    BY <1>1 DEF SkipReview, Live, LivePcs
  <2>2. stop' \in [Runs -> {"none", "armed", "notified"}]
    BY <1>1, IInvParts DEF SkipReview
  <2> QED
    BY <1>1, <2>1, <2>2, GotoIInv DEF SkipReview
<1>2. CASE Review(r)
  <2>1. PICK clean \in BOOLEAN, step \in {"complete", "compile", "remember"}, v \in BOOLEAN :
          /\ Advance(r, "review", <<Reviewed(clean)>>, step)
          /\ handed' = [handed EXCEPT ![r] = IF v THEN code[r] ELSE @]
          /\ reviews' = [reviews EXCEPT ![r] = @ + 1]
          /\ UNCHANGED <<rounds, calls, nextCall, code>>
    <3>1. PICK clean \in BOOLEAN :
            /\ LET again == code[r] # handed[r] /\ reviews[r] + 1 < MaxReviewRounds
               IN /\ Advance(r, "review", <<Reviewed(clean)>>,
                             IF clean THEN "complete" ELSE IF again THEN "compile" ELSE "remember")
                  /\ handed' = [handed EXCEPT ![r] = IF ~clean /\ again THEN code[r] ELSE @]
            /\ reviews' = [reviews EXCEPT ![r] = @ + 1]
            /\ UNCHANGED <<rounds, calls, nextCall, code>>
      BY <1>2 DEF Review
    <3>2. PICK again \in BOOLEAN :
            again = (code[r] # handed[r] /\ reviews[r] + 1 < MaxReviewRounds)
      OBVIOUS
    <3>3. PICK step \in {"complete", "compile", "remember"} :
            step = IF clean THEN "complete" ELSE IF again THEN "compile" ELSE "remember"
      OBVIOUS
    <3>4. /\ Advance(r, "review", <<Reviewed(clean)>>, step)
          /\ handed' = [handed EXCEPT ![r] = IF ~clean /\ again THEN code[r] ELSE @]
      BY <3>1, <3>2, <3>3
    <3> QED
      BY <3>1, <3>3, <3>4
  <2>2. "review" \in LivePcs /\ step \in LivePcs \ {"failing"} /\ UNCHANGED up /\ step # "request"
    BY <2>1 DEF LivePcs, Advance
  <2>3. StateOK'
    BY <1>0, <2>1 DEF StateOK
  <2> QED
    BY <2>1, <2>2, <2>3, ReviewedSteady, AdvanceIInv
<1>3. CASE Remember(r)
  <2>1. PICK n \in 0 .. MaxEmissions : Advance(r, "remember", Nodes(n), "complete") /\ UNCHANGED state
    BY <1>3 DEF Remember
  <2>2. "remember" \in LivePcs /\ "complete" \in LivePcs \ {"failing"} /\ UNCHANGED up
    BY <2>1 DEF LivePcs, Advance
  <2>3. StateOK' /\ UNCHANGED calls
    BY <1>0, <2>1 DEF state, StateOK
  <2>4. n \in Nat
    BY BoundsAssumption
  <2> QED
    BY <2>1, <2>2, <2>3, <2>4, NodesSteady, AdvanceIInv
<1> QED
  BY <1>1, <1>2, <1>3

(* The run records its own end, or fails to. *)
LEMMA EndingIInv ==
    ASSUME IInv, NEW r \in Runs, Complete(r) \/ FailRun(r) \/ StoreFails(r)
    PROVE  IInv'
PROOF
<1>0. /\ DbInv /\ StateOK
      /\ pc \in [Runs -> LivePcs \cup {"idle", "ended"}]
      /\ stop \in [Runs -> {"none", "armed", "notified"}]
      /\ failure \in [Runs -> [code : ErrorCodes \cup {"none"}, evidence : Seq(Event)]]
      /\ ExecutionOf(r)
  BY IInvParts
<1>1. ASSUME NEW m \in Seq(Event), NEW s \in {"completed", "failed"},
             NEW c, RecordEnd(r, m, s, c), DbInv', Live(r), Goto(r, "ended"),
             stop' \in [Runs -> {"none", "armed", "notified"}],
             UNCHANGED <<up, owner, state, failure>>
      PROVE  IInv'
  <2>1. /\ pc' = [pc EXCEPT ![r] = "ended"]
        /\ status' = [status EXCEPT ![r] = s]
    BY <1>1 DEF Goto, RecordEnd
  <2>2. pc' \in [Runs -> LivePcs \cup {"idle", "ended"}]
    BY <1>0, <2>1
  <2>3. \A q \in Runs : ExecutionOf(q)'
    <3> SUFFICES ASSUME NEW q \in Runs PROVE ExecutionOf(q)'
      OBVIOUS
    <3>1. ExecutionOf(q) /\ UNCHANGED calls /\ status \in [Runs -> {"absent", "running", "completed", "failed"}]
      BY <1>0, <1>1 DEF IInv, state, DbInv, TablesOK
    <3>2. CASE q = r
      BY <1>0, <1>1, <2>1, <3>1, <3>2 DEF ExecutionOf, Live, LivePcs
    <3>3. CASE q # r
      BY <1>0, <1>1, <2>1, <3>1, <3>3 DEF ExecutionOf, Live
    <3> QED
      BY <3>2, <3>3
  <2>4. StateOK'
    BY <1>0, <1>1 DEF StateOK, state
  <2> QED
    BY <1>1, <2>2, <2>3, <2>4, IInvParts DEF IInv, DbInv, TablesOK, TypeOK, StateOK
<1>2. CASE Complete(r)
  <2>1. Live(r) /\ <<Ev("run.completed")>> = <<>> \o <<Ev("run.completed")>>
    BY <1>2 DEF Complete, Live, LivePcs
  <2>2. RecordEnd(r, <<>> \o <<Ev("run.completed")>>, "completed", "none")
    BY <1>2, <2>1 DEF Complete
  <2>3. DbInv'
    BY <1>0, <2>2, FailureCodes, RecordEndDb
  <2>4. <<>> \o <<Ev("run.completed")>> \in Seq(Event)
    BY DEF Ev, Event, EventTypes
  <2>5. stop' \in [Runs -> {"none", "armed", "notified"}]
    BY <1>0, <1>2 DEF Complete
  <2> QED
    BY <1>1, <1>2, <2>1, <2>2, <2>3, <2>4, <2>5 DEF Complete
<1>3. CASE FailRun(r)
  <2>1. Live(r) /\ pc[r] = "failing"
    BY <1>3 DEF FailRun, Live, LivePcs
  <2>2. /\ failure[r].evidence \in Seq(Event) /\ Steady(failure[r].evidence)
        /\ failure[r].code \in ErrorCodes
    BY <1>0, <2>1 DEF ExecutionOf
  <2>3. RecordEnd(r, failure[r].evidence \o <<Ev("run.failed")>>, "failed", failure[r].code)
    BY <1>3 DEF FailRun
  <2>4. DbInv'
    BY <1>0, <2>2, <2>3, RecordEndDb
  <2>5. failure[r].evidence \o <<Ev("run.failed")>> \in Seq(Event)
    BY <2>2 DEF Ev, Event, EventTypes
  <2> QED
    BY <1>0, <1>1, <1>3, <2>1, <2>3, <2>4, <2>5 DEF FailRun
<1>4. CASE StoreFails(r)
  <2>1. Live(r)
    BY <1>4 DEF StoreFails, Recording, Live, LivePcs
  <2>2. CASE Fail(r, "internal", <<>>)
    BY <2>1, <2>2, FailIInv, FailureCodes
  <2>3. CASE Goto(r, "ended") /\ UNCHANGED <<tables, up, owner, state, stop, failure>>
    <3>1. "ended" \in (LivePcs \cup {"ended"}) \ {"failing", "request"}
      OBVIOUS
    <3> QED
      BY <1>0, <2>1, <2>3, <3>1, GotoIInv
  <2> QED
    BY <1>4, <2>2, <2>3 DEF StoreFails
<1> QED
  BY <1>2, <1>3, <1>4

LEMMA StepIInv == ASSUME IInv, NEW r \in Runs, Step(r) PROVE IInv'
BY AskingIInv, InferringIInv, ToolsIInv, ReviewingIInv, EndingIInv DEF Step

--------------------------------------------------------------------------------
(* Everyone else keeps it too *)

LEMMA StartIInv ==
    ASSUME IInv, NEW r \in Runs, NEW p \in Projects, NEW q \in Processes, Start(r, p, q)
    PROVE  IInv'
PROOF
<1>0. /\ DbInv /\ StateOK
      /\ pc \in [Runs -> LivePcs \cup {"idle", "ended"}]
      /\ owner \in [Runs -> Processes \cup {NoProcess}]
      /\ \A s \in Runs : ExecutionOf(s)
  BY IInvParts
<1>1. DbInv'
  BY <1>0, StartDb
<1>2. /\ pc' = [pc EXCEPT ![r] = "started"]
      /\ owner' = [owner EXCEPT ![r] = q]
      /\ status' = [status EXCEPT ![r] = "running"]
      /\ UNCHANGED <<calls, failure>>
  BY DEF Start, Goto, state
<1>3. /\ pc' \in [Runs -> LivePcs \cup {"idle", "ended"}]
      /\ owner' \in [Runs -> Processes \cup {NoProcess}]
  BY <1>0, <1>2 DEF LivePcs
<1>4. \A s \in Runs : ExecutionOf(s)'
  <2> SUFFICES ASSUME NEW s \in Runs PROVE ExecutionOf(s)'
    OBVIOUS
  <2>1. status \in [Runs -> {"absent", "running", "completed", "failed"}]
    BY <1>0 DEF DbInv, TablesOK
  <2>2. CASE s = r
    BY <1>0, <1>2, <2>1, <2>2 DEF ExecutionOf, Live
  <2>3. CASE s # r
    BY <1>0, <1>2, <2>1, <2>3 DEF ExecutionOf, Live
  <2> QED
    BY <2>2, <2>3
<1>5. StateOK'
  BY <1>0 DEF StateOK, Start, state
<1> QED
  BY <1>1, <1>3, <1>4, <1>5, IInvParts DEF Start, IInv, DbInv, TablesOK, TypeOK, StateOK

LEMMA StopIInv ==
    ASSUME IInv, NEW r \in Runs, Stop(r) \/ Stopped(r)
    PROVE  IInv'
PROOF
<1>1. CASE Stop(r)
  <2>1. UNCHANGED <<tables, up, owner, pc, state, failure>>
        /\ stop' \in [Runs -> {"none", "armed", "notified"}]
    BY <1>1, IInvParts DEF Stop
  <2>2. DbInv'
    BY <2>1, IInvParts, UnchangedDb
  <2>3. \A s \in Runs : ExecutionOf(s)'
    BY <2>1 DEF IInv, ExecutionOf, Live, tables, state
  <2>4. StateOK'
    BY <2>1, IInvParts DEF StateOK, state
  <2> QED
    BY <2>1, <2>2, <2>3, <2>4, IInvParts DEF IInv, DbInv, TablesOK, TypeOK, StateOK
<1>2. CASE Stopped(r)
  <2>1. Live(r) /\ Fail(r, "cancelled", <<>>)
    BY <1>2 DEF Stopped, Awaiting, Live, LivePcs
  <2> QED
    BY <2>1, FailIInv, FailureCodes
<1> QED
  BY <1>1, <1>2

LEMMA ProcessIInv ==
    ASSUME IInv, NEW q \in Processes, Crash(q) \/ Restart(q) \/ Recover(q)
    PROVE  IInv'
PROOF
<1>0. /\ DbInv /\ StateOK
      /\ up \in [Processes -> BOOLEAN]
      /\ pc \in [Runs -> LivePcs \cup {"idle", "ended"}]
      /\ stop \in [Runs -> {"none", "armed", "notified"}]
      /\ \A s \in Runs : ExecutionOf(s)
  BY IInvParts
<1>1. CASE Crash(q)
  <2>1. DbInv'
    BY <1>0, <1>1, UnchangedDb DEF Crash
  <2>2. /\ up' \in [Processes -> BOOLEAN]
        /\ pc' \in [Runs -> LivePcs \cup {"idle", "ended"}]
        /\ stop' \in [Runs -> {"none", "armed", "notified"}]
    BY <1>0, <1>1 DEF Crash
  <2>3. \A s \in Runs : ExecutionOf(s)'
    <3> SUFFICES ASSUME NEW s \in Runs PROVE ExecutionOf(s)'
      OBVIOUS
    <3>1. ExecutionOf(s) /\ UNCHANGED <<tables, owner, state, failure>>
      BY <1>0, <1>1 DEF Crash
    <3>2. pc'[s] = pc[s] \/ (Live(s) /\ pc'[s] = "ended")
      BY <1>0, <1>1 DEF Crash
    <3> QED
      BY <3>1, <3>2 DEF ExecutionOf, Live, LivePcs, tables, state
  <2>4. StateOK'
    BY <1>0, <1>1 DEF StateOK, Crash, state
  <2> QED
    BY <1>1, <2>1, <2>2, <2>3, <2>4, IInvParts DEF Crash, IInv, DbInv, TablesOK, TypeOK, StateOK
<1>2. CASE Restart(q)
  <2>1. UNCHANGED <<tables, owner, pc, state, stop, failure>> /\ up' \in [Processes -> BOOLEAN]
    BY <1>0, <1>2 DEF Restart
  <2>2. DbInv'
    BY <1>0, <2>1, UnchangedDb
  <2>3. \A s \in Runs : ExecutionOf(s)'
    BY <1>0, <2>1 DEF ExecutionOf, Live, tables, state
  <2>4. StateOK'
    BY <1>0, <2>1 DEF StateOK, state
  <2> QED
    BY <2>1, <2>2, <2>3, <2>4, IInvParts DEF IInv, DbInv, TablesOK, TypeOK, StateOK
<1>3. CASE Recover(q)
  <2>1. DbInv'
    BY <1>0, <1>3, RecoverDb
  <2>2. \A s \in Runs : status'[s] = "absent" <=> status[s] = "absent"
    BY <1>3 DEF Recover, Stale
  <2>3. \A s \in Runs : ExecutionOf(s)'
    BY <1>0, <1>3, <2>2 DEF Recover, ExecutionOf, Live, state
  <2>4. StateOK'
    BY <1>0, <1>3 DEF StateOK, Recover, state
  <2> QED
    BY <1>3, <2>1, <2>3, <2>4, IInvParts DEF Recover, IInv, DbInv, TablesOK, TypeOK, StateOK
<1> QED
  BY <1>1, <1>2, <1>3

LEMMA StutterIInv == ASSUME IInv, UNCHANGED vars PROVE IInv'
BY DEF IInv, TypeOK, HistoryOf, ExecutionOf, OneRunPerProject, Live, vars

LEMMA NextIInv == IInv /\ [Next]_vars => IInv'
PROOF
<1> SUFFICES ASSUME IInv, [Next]_vars PROVE IInv'
  OBVIOUS
<1>1. ASSUME NEW r \in Runs, NEW p \in Projects, NEW q \in Processes, Start(r, p, q)
      PROVE  IInv'
  BY <1>1, StartIInv
<1>2. ASSUME NEW r \in Runs, Step(r) \/ Stop(r) \/ Stopped(r)
      PROVE  IInv'
  BY <1>2, StepIInv, StopIInv
<1>3. ASSUME NEW q \in Processes, Crash(q) \/ Restart(q) \/ Recover(q)
      PROVE  IInv'
  BY <1>3, ProcessIInv
<1>4. CASE UNCHANGED vars
  BY <1>4, StutterIInv
<1> QED
  BY <1>1, <1>2, <1>3, <1>4 DEF Next

LEMMA InvariantHolds == Spec => []IInv
PROOF
<1>1. Init => IInv
  BY InitIInv
<1>2. IInv /\ [Next]_vars => IInv'
  BY NextIInv
<1> QED
  BY <1>1, <1>2, PTL DEF Spec

--------------------------------------------------------------------------------
(* The theorems *)

(* Every reachable state is well-typed: rows satisfy the schema's checks,
   whatever runs, crashes, recoveries and failures came before. *)
THEOREM TypeCorrect == Spec => []TypeOK
PROOF
<1>1. IInv => TypeOK
  BY DEF IInv
<1> QED
  BY <1>1, InvariantHolds, PTL

(* However many processes start, crash and recover, a project never has two
   running runs (create_run_in, running_run). *)
THEOREM NeverTwoRunning == Spec => []OneRunPerProject
PROOF
<1>1. IInv => OneRunPerProject
  BY DEF IInv
<1> QED
  BY <1>1, InvariantHolds, PTL

(* The events of a run always agree with its row: one terminal event, last, and
   of the run's status (complete_run, fail_run, recover_runs_except). *)
THEOREM HistoryAlwaysTells == Spec => []HistoryTellsStatus
PROOF
<1>1. IInv => HistoryTellsStatus
  <2> SUFFICES ASSUME IInv, NEW r \in Runs
               PROVE  LET l == log[r]  n == Len(log[r]) IN
                      /\ status[r] = "absent" <=> n = 0
                      /\ \A i \in 1 .. n : l[i].type \in Terminal => i = n
                      /\ status[r] = "completed" <=> n > 0 /\ l[n].type = "run.completed"
                      /\ status[r] = "failed" <=> n > 0 /\ l[n].type = "run.failed"
                      /\ status[r] = "failed" <=> errorCode[r] # "none"
    BY DEF HistoryTellsStatus
  <2>1. /\ log[r] \in Seq(Event) /\ HistoryOf(r)
        /\ status[r] \in {"absent", "running", "completed", "failed"}
    BY DEF IInv, TypeOK
  <2>2. CASE status[r] = "absent"
    BY <2>1, <2>2 DEF HistoryOf
  <2>3. CASE status[r] = "running"
    BY <2>1, <2>3 DEF HistoryOf, Steady, Terminal
  <2>4. CASE status[r] \in {"completed", "failed"}
    BY <2>1, <2>4 DEF HistoryOf, EndsWith, Terminal
  <2> QED
    BY <2>1, <2>2, <2>3, <2>4
<1> QED
  BY <1>1, InvariantHolds, PTL

LEMMA AppendedHistory ==
    ASSUME NEW l \in Seq(Event), NEW m \in Seq(Event)
    PROVE  Len(l \o m) >= Len(l) /\ SubSeq(l \o m, 1, Len(l)) = l
OBVIOUS

Keeps(r) == Extends(r) /\ (status[r] \in {"completed", "failed"} => Unaltered(r))

LEMMA UnchangedKeeps == ASSUME IInv, UNCHANGED tables PROVE \A r \in Runs : Keeps(r)
BY DEF IInv, TypeOK, tables, Keeps, Extends, Unaltered

LEMMA RecordKeeps ==
    ASSUME IInv, NEW r \in Runs, NEW evs \in Seq(Event), Record(r, evs)
    PROVE  \A s \in Runs : Keeps(s)
PROOF
<1> SUFFICES ASSUME NEW s \in Runs PROVE Keeps(s)
  OBVIOUS
<1>1. log \in [Runs -> Seq(Event)] /\ log' = [log EXCEPT ![r] = log[r] \o evs]
  BY DEF IInv, TypeOK, Record
<1>2. log[s] \in Seq(Event) /\ SubSeq(log[s], 1, Len(log[s])) = log[s]
  BY <1>1
<1>3. CASE s = r
  BY <1>1, <1>3, AppendedHistory DEF Keeps, Extends, Record
<1>4. CASE s # r
  BY <1>1, <1>2, <1>4 DEF Keeps, Extends, Unaltered, Record
<1> QED
  BY <1>3, <1>4

LEMMA RecordEndKeeps ==
    ASSUME IInv, NEW r \in Runs, NEW evs \in Seq(Event), NEW v, NEW c, RecordEnd(r, evs, v, c)
    PROVE  \A s \in Runs : Keeps(s)
PROOF
<1> SUFFICES ASSUME NEW s \in Runs PROVE Keeps(s)
  OBVIOUS
<1>1. /\ log \in [Runs -> Seq(Event)] /\ log' = [log EXCEPT ![r] = log[r] \o evs]
      /\ DOMAIN status = Runs /\ DOMAIN errorCode = Runs
  BY DEF IInv, TypeOK, RecordEnd
<1>2. log[s] \in Seq(Event) /\ SubSeq(log[s], 1, Len(log[s])) = log[s]
  BY <1>1
<1>3. CASE s = r
  BY <1>1, <1>3, AppendedHistory DEF Keeps, Extends, RecordEnd
<1>4. CASE s # r
  BY <1>1, <1>2, <1>4 DEF Keeps, Extends, Unaltered, RecordEnd
<1> QED
  BY <1>3, <1>4

(* The three ways a step of an execution touches the database. *)
Appends(r) == \E evs \in Seq(Event) : Record(r, evs)

Ends(r) ==
    /\ pc'[r] = "ended"
    /\ \E evs \in Seq(Event), v \in {"completed", "failed"}, c \in ErrorCodes \cup {"none"} :
          RecordEnd(r, evs, v, c)

Shape(r) == UNCHANGED tables \/ Appends(r) \/ Ends(r)

LEMMA StepShape == ASSUME IInv, NEW r \in Runs, Step(r) PROVE Shape(r)
PROOF
<1>0. StateOK /\ pc \in [Runs -> LivePcs \cup {"idle", "ended"}] /\ ExecutionOf(r)
  BY IInvParts
<1>1. ASSUME NEW evs \in Seq(Event), NEW from, NEW step, Advance(r, from, evs, step)
      PROVE  Shape(r)
  BY <1>1 DEF Advance, Appends, Shape
<1>2. ASSUME NEW c, NEW evs, Fail(r, c, evs)
      PROVE  Shape(r)
  BY <1>2 DEF Fail, Shape
<1>3. CASE BeginFinish(r) \/ RequestJev(r) \/ JevAnswers(r) \/ FallbackAnswers(r)
           \/ Everything(r) \/ Compile(r) \/ Infer(r) \/ InferAnswers(r)
  BY <1>3, StepEvents
     DEF BeginFinish, RequestJev, JevAnswers, FallbackAnswers, Everything, Compile, Infer,
         InferAnswers, Advance, Fail, Appends, Shape
<1>4. CASE Respond(r)
  <2>1. ASSUME NEW c, Fail(r, c, <<Ev("response.rejected")>>) PROVE Shape(r)
    BY <1>2, <2>1
  <2>2. ASSUME NEW n \in 0 .. MaxEmissions, NEW step,
               Advance(r, "respond", <<Ev("response.validated")>> \o Nodes(n), step)
        PROVE  Shape(r)
    <3>1. n \in Nat
      BY BoundsAssumption
    <3> QED
      BY <1>1, <2>2, <3>1, StepEvents
  <2> QED
    BY <1>4, <2>1, <2>2 DEF Respond
<1>5. CASE RequestTool(r) \/ DecideTool(r) \/ EndCall(r)
  <2>1. nextCall[r] \in Nat /\ nextCall[r] - 1 \in Nat
    BY <1>0 DEF StateOK
  <2> QED
    BY <1>5, <2>1, CallEvSteady
       DEF RequestTool, DecideTool, EndCall, Advance, Appends, Shape
<1>6. CASE SkipReview(r) \/ Review(r) \/ Remember(r)
  <2>1. CASE SkipReview(r)
    BY <2>1 DEF SkipReview, Shape
  <2>2. CASE Review(r)
    BY <2>2, ReviewedSteady DEF Review, Advance, Appends, Shape
  <2>3. CASE Remember(r)
    <3>1. PICK n \in 0 .. MaxEmissions : Advance(r, "remember", Nodes(n), "complete")
      BY <2>3 DEF Remember
    <3>2. Nodes(n) \in Seq(Event)
      BY BoundsAssumption, NodesSteady
    <3> QED
      BY <1>1, <3>1, <3>2
  <2> QED
    BY <1>6, <2>1, <2>2, <2>3
<1>7. CASE Complete(r)
  <2>1. <<Ev("run.completed")>> \in Seq(Event)
    BY DEF Ev, Event, EventTypes
  <2>2. pc'[r] = "ended"
    BY <1>0, <1>7 DEF Complete, Goto
  <2> QED
    BY <1>7, <2>1, <2>2 DEF Complete, Shape, Ends
<1>8. CASE FailRun(r)
  <2>1. failure[r].evidence \in Seq(Event) /\ failure[r].code \in ErrorCodes
    BY <1>0, <1>8, IInvParts DEF FailRun, ExecutionOf
  <2>2. failure[r].evidence \o <<Ev("run.failed")>> \in Seq(Event)
    BY <2>1 DEF Ev, Event, EventTypes
  <2>3. pc'[r] = "ended"
    BY <1>0, <1>8 DEF FailRun, Goto
  <2> QED
    BY <1>8, <2>1, <2>2, <2>3 DEF FailRun, Shape, Ends
<1>9. CASE StoreFails(r)
  BY <1>9 DEF StoreFails, Fail, Shape
<1> QED
  BY <1>3, <1>4, <1>5, <1>6, <1>7, <1>8, <1>9 DEF Step

LEMMA ShapeKeeps == ASSUME IInv, NEW r \in Runs, Shape(r) PROVE \A s \in Runs : Keeps(s)
BY UnchangedKeeps, RecordKeeps, RecordEndKeeps DEF Shape, Appends, Ends

LEMMA NextKeeps == IInv /\ [Next]_vars => \A s \in Runs : Keeps(s)
PROOF
<1> SUFFICES ASSUME IInv, [Next]_vars PROVE \A s \in Runs : Keeps(s)
  OBVIOUS
<1>0. log \in [Runs -> Seq(Event)]
  BY DEF IInv, TypeOK
<1>1. ASSUME NEW r \in Runs, NEW p \in Projects, NEW q \in Processes, Start(r, p, q)
      PROVE  \A s \in Runs : Keeps(s)
  <2>1. PICK l : l = <<Ev("run.started"), Ev("message.recorded"), Ev("context.carried")>>
    OBVIOUS
  <2>2. l \in Seq(Event) /\ log' = [log EXCEPT ![r] = l] /\ log[r] = <<>>
    BY <1>1, <2>1 DEF Start, IInv, HistoryOf, Ev, Event, EventTypes
  <2>3. SubSeq(l, 1, 0) = <<>> /\ Len(l) >= 0
    BY <2>2
  <2>4. /\ status[r] = "absent" /\ UNCHANGED errorCode
        /\ \A s \in Runs \ {r} : status'[s] = status[s]
    BY <1>1 DEF Start, IInv, TypeOK
  <2>5. ASSUME NEW s \in Runs, s # r PROVE Keeps(s)
    <3>1. log'[s] = log[s] /\ log[s] \in Seq(Event)
      BY <1>0, <2>2, <2>5
    <3> QED
      BY <2>4, <2>5, <3>1 DEF Keeps, Extends, Unaltered
  <2>6. Keeps(r)
    BY <1>0, <2>2, <2>3, <2>4 DEF Keeps, Extends
  <2> QED
    BY <2>5, <2>6
<1>2. ASSUME NEW r \in Runs, Step(r) PROVE \A s \in Runs : Keeps(s)
  BY <1>2, StepShape, ShapeKeeps
<1>3. ASSUME NEW r \in Runs, Stop(r) \/ Stopped(r) PROVE \A s \in Runs : Keeps(s)
  BY <1>3, UnchangedKeeps DEF Stop, Stopped, Fail
<1>4. ASSUME NEW q \in Processes, Crash(q) \/ Restart(q) PROVE \A s \in Runs : Keeps(s)
  BY <1>4, UnchangedKeeps DEF Crash, Restart
<1>5. ASSUME NEW q \in Processes, Recover(q), NEW s \in Runs PROVE Keeps(s)
  <2>1. log[s] \in Seq(Event)
    BY <1>0
  <2>2. CASE s \in Stale(q)
    <3>1. log'[s] = Append(log[s], Ev("run.failed")) /\ status[s] = "running"
      BY <1>5, <2>2 DEF Recover, Stale
    <3>2. Ev("run.failed") \in Event
      BY DEF Ev, Event, EventTypes
    <3>3. Len(log'[s]) >= Len(log[s]) /\ SubSeq(log'[s], 1, Len(log[s])) = log[s]
      BY <2>1, <3>1, <3>2
    <3> QED
      BY <3>1, <3>3 DEF Keeps, Extends
  <2>3. CASE s \notin Stale(q)
    BY <1>5, <2>1, <2>3 DEF Recover, Keeps, Extends, Unaltered
  <2> QED
    BY <2>2, <2>3
<1>6. CASE UNCHANGED vars
  BY <1>6, UnchangedKeeps DEF vars, tables
<1> QED
  BY <1>1, <1>2, <1>3, <1>4, <1>5, <1>6 DEF Next

(* No step of any process rewrites a run's history, and none changes a run that
   ended: the log is append-only and an end is final (append_event). *)
THEOREM EndsAreFinal == Spec => HistoryIsFinal
PROOF
<1>1. IInv /\ [Next]_vars =>
        [\A r \in Runs :
           Extends(r) /\ (status[r] \in {"completed", "failed"} => Unaltered(r))]_vars
  BY NextKeeps DEF Keeps
<1> QED
  BY <1>1, InvariantHolds, PTL DEF Spec, HistoryIsFinal

(* Where one process uses the workspace, nobody ends a run under its execution:
   recovery spares the executing runs, so only the run itself records its end.
   Across processes this fails: `dagos recover` spares nothing. *)
THEOREM OwnRunsStayRunning ==
    ASSUME \A p, q \in Processes : p = q
    PROVE  Spec => []LiveRunsAreRunning
PROOF
<1>1. Init => LiveRunsAreRunning
  BY DEF Init, LiveRunsAreRunning, Live, LivePcs
<1>2. IInv /\ LiveRunsAreRunning /\ [Next]_vars => LiveRunsAreRunning'
  <2> SUFFICES ASSUME IInv, LiveRunsAreRunning, [Next]_vars, NEW s \in Runs, Live(s)'
               PROVE  status'[s] = "running"
    BY DEF LiveRunsAreRunning
  <2>0. /\ Live(s) => status[s] = "running"
        /\ pc \in [Runs -> LivePcs \cup {"idle", "ended"}]
        /\ status \in [Runs -> {"absent", "running", "completed", "failed"}]
        /\ "ended" \notin LivePcs
    BY DEF LiveRunsAreRunning, IInv, TypeOK, LivePcs
  <2>1. ASSUME NEW r \in Runs, NEW p \in Projects, NEW q \in Processes, Start(r, p, q)
        PROVE  status'[s] = "running"
    BY <2>0, <2>1 DEF Start, Goto, Live
  <2>2. ASSUME NEW r \in Runs, Step(r) PROVE status'[s] = "running"
    <3>1. /\ Live(r)
          /\ s # r => pc'[s] = pc[s]
      BY <2>0, <2>2
         DEF Step, BeginFinish, RequestJev, JevAnswers, FallbackAnswers, Everything, Compile,
             Infer, InferAnswers, Respond, RequestTool, DecideTool, EndCall, SkipReview, Review,
             Remember, Complete, FailRun, StoreFails, Recording, Advance, Fail, Goto, Live, LivePcs
    <3>2. Shape(r)
      BY <2>2, StepShape
    <3>3. CASE UNCHANGED tables \/ Appends(r)
      BY <2>0, <3>1, <3>3 DEF Appends, Record, tables, Live
    <3>4. CASE Ends(r)
      BY <2>0, <3>1, <3>4 DEF Ends, RecordEnd, Live
    <3> QED
      BY <3>2, <3>3, <3>4 DEF Shape
  <2>3. ASSUME NEW r \in Runs, Stop(r) \/ Stopped(r) PROVE status'[s] = "running"
    BY <2>0, <2>3 DEF Stop, Stopped, Awaiting, Fail, Goto, tables, Live, LivePcs
  <2>4. ASSUME NEW q \in Processes, Crash(q) \/ Restart(q) PROVE status'[s] = "running"
    BY <2>0, <2>4 DEF Crash, Restart, tables, Live
  <2>5. ASSUME NEW q \in Processes, Recover(q) PROVE status'[s] = "running"
    <3>1. Live(s) /\ owner[s] \in Processes
      BY <2>5 DEF Recover, Live, IInv, ExecutionOf
    <3> QED
      BY <2>0, <2>5, <3>1 DEF Recover, Stale
  <2>6. CASE UNCHANGED vars
    BY <2>0, <2>6 DEF vars, Live
  <2> QED
    BY <2>1, <2>2, <2>3, <2>4, <2>5, <2>6 DEF Next
<1> QED
  BY <1>1, <1>2, InvariantHolds, PTL DEF Spec

--------------------------------------------------------------------------------
(* What a run does it was allowed to do.  The execution of a run says, at each of its
   steps, what its history holds of the call under way, of its loops and of the answer
   it is about to report as rejected. *)

ToolEvents == {"tool.requested", "tool.decided", "tool.completed"}

(* CallsArePermitted of one history. *)
Permitted(l) ==
    \A i \in 1 .. Len(l) :
        /\ l[i].type = "tool.completed" =>
              /\ \A j \in 1 .. i - 1 : l[j].type = "tool.completed" => l[j].call # l[i].call
              /\ \E j \in 1 .. i - 1 :
                    l[j].type = "tool.decided" /\ l[j].call = l[i].call /\ l[j].ok
        /\ l[i].type = "tool.decided" =>
              /\ \A j \in 1 .. i - 1 : l[j].type = "tool.decided" => l[j].call # l[i].call
              /\ \E j \in 1 .. i - 1 : l[j].type = "tool.requested" /\ l[j].call = l[i].call
        /\ l[i].type = "tool.requested" =>
              \A j \in 1 .. i - 1 : l[j].type = "tool.requested" => l[j].call # l[i].call

Never(l, types, c) == \A i \in 1 .. Len(l) : l[i].type \in types => l[i].call # c

Numbered(l, n) == \A i \in 1 .. Len(l) : l[i].type \in ToolEvents => l[i].call < n

CallsOf(r) ==
    /\ Permitted(log[r])
    /\ Numbered(log[r], nextCall[r])
    /\ pc[r] = "gate" =>
          /\ \E i \in 1 .. Len(log[r]) :
                log[r][i].type = "tool.requested" /\ log[r][i].call = nextCall[r] - 1
          /\ Never(log[r], {"tool.decided", "tool.completed"}, nextCall[r] - 1)
    /\ pc[r] = "calling" =>
          /\ \E i \in 1 .. Len(log[r]) :
                log[r][i].type = "tool.decided" /\ log[r][i].call = nextCall[r] - 1 /\ log[r][i].ok
          /\ Never(log[r], {"tool.completed"}, nextCall[r] - 1)

(* The steps before the next inference, at which every one so far is paid for by a
   round of calls or a review that handed back. *)
Before == {"idle", "started", "classify", "jev", "fallback", "everything", "compile", "infer"}
HandBacks == IF MaxReviewRounds = 0 THEN 0 ELSE MaxReviewRounds - 1
Inferences(r) == Count(log[r], "inference.started")

LoopOf(r) ==
    /\ Count(log[r], "review.completed") <= reviews[r] /\ reviews[r] <= MaxReviewRounds
    /\ Inferences(r) <= 1 + MaxToolSteps + HandBacks
    /\ pc[r] \in Before =>
          Inferences(r) <= rounds[r] + reviews[r] /\ rounds[r] <= MaxToolSteps
    /\ pc[r] \in {"inferring", "respond", "review"} =>
          Inferences(r) <= rounds[r] + reviews[r] + 1 /\ rounds[r] <= MaxToolSteps
    /\ pc[r] \in {"request", "gate", "calling"} =>
          Inferences(r) <= rounds[r] + reviews[r] /\ rounds[r] <= MaxToolSteps + 1
    /\ pc[r] \in Before \cup {"inferring", "respond", "review", "request", "gate", "calling"} =>
          reviews[r] <= HandBacks

(* NodesFollowValidation of one history. *)
Validated(l) ==
    \A i \in 1 .. Len(l) : l[i].type = "dag.node_created" =>
        /\ i > 1
        /\ l[i - 1].type \in {"dag.node_created", "response.validated", "review.completed"}

NodesOf(r) ==
    /\ Validated(log[r])
    /\ pc[r] = "remember" /\ status[r] = "running" =>
          log[r][Len(log[r])].type = "review.completed"

(* Code c is recorded only after the event that shows what was rejected, the nth of l. *)
Shown(c, l, n) ==
    /\ c \in {"response_invalid", "emission_rejected"} => n > 0 /\ l[n].type = "response.rejected"
    /\ c = "jev_invalid_output" => n > 0 /\ l[n].type = "jev.rejected"

EvidenceOf(r) ==
    /\ \A i \in 1 .. Len(failure[r].evidence) :
          failure[r].evidence[i].type \in {"jev.rejected", "response.rejected"}
    /\ pc[r] = "failing" =>
          Shown(failure[r].code, failure[r].evidence, Len(failure[r].evidence))
    /\ Shown(errorCode[r], log[r], Len(log[r]) - 1)

Acts(r) == CallsOf(r) /\ LoopOf(r) /\ NodesOf(r)

AInv == IInv /\ \A r \in Runs : Acts(r) /\ EvidenceOf(r)

(* What these say of a history when events are added to it. *)
Without(m, types) == \A i \in 1 .. Len(m) : m[i].type \notin types

LEMMA Concatenated ==
    ASSUME NEW l \in Seq(Event), NEW m \in Seq(Event)
    PROVE  /\ l \o m \in Seq(Event) /\ Len(l \o m) = Len(l) + Len(m)
           /\ \A i \in 1 .. Len(l) : (l \o m)[i] = l[i]
           /\ \A i \in 1 .. Len(l) + Len(m) : i > Len(l) =>
                 i - Len(l) \in 1 .. Len(m) /\ (l \o m)[i] = m[i - Len(l)]
OBVIOUS

LEMMA PermittedLonger ==
    ASSUME NEW l \in Seq(Event), NEW k \in Seq(Event), Permitted(l), Len(l) <= Len(k),
           \A i \in 1 .. Len(l) : k[i] = l[i],
           \A i \in 1 .. Len(k) : i > Len(l) => k[i].type \notin ToolEvents
    PROVE  Permitted(k)
PROOF
<1> SUFFICES ASSUME NEW i \in 1 .. Len(k)
             PROVE  /\ k[i].type = "tool.completed" =>
                          /\ \A j \in 1 .. i - 1 :
                                k[j].type = "tool.completed" => k[j].call # k[i].call
                          /\ \E j \in 1 .. i - 1 :
                                k[j].type = "tool.decided" /\ k[j].call = k[i].call /\ k[j].ok
                    /\ k[i].type = "tool.decided" =>
                          /\ \A j \in 1 .. i - 1 :
                                k[j].type = "tool.decided" => k[j].call # k[i].call
                          /\ \E j \in 1 .. i - 1 :
                                k[j].type = "tool.requested" /\ k[j].call = k[i].call
                    /\ k[i].type = "tool.requested" =>
                          \A j \in 1 .. i - 1 :
                                k[j].type = "tool.requested" => k[j].call # k[i].call
  BY DEF Permitted
<1>2. CASE i \in 1 .. Len(l)
  <2>1. \A j \in 1 .. i : k[j] = l[j]
    <3>1. Len(l) \in Nat /\ i \in Nat /\ i <= Len(l)
      BY <1>2
    <3>2. \A j \in 1 .. i : j \in 1 .. Len(l)
      BY <3>1
    <3> QED
      BY <3>2
  <2>2. i \in 1 .. i /\ \A j \in 1 .. i - 1 : j \in 1 .. i
    BY <1>2
  <2>3. k[i] = l[i] /\ \A j \in 1 .. i - 1 : k[j] = l[j]
    BY <2>1, <2>2
  <2> QED
    BY <1>2, <2>3 DEF Permitted
<1>3. CASE i \notin 1 .. Len(l)
  <2>1. k[i].type \notin ToolEvents
    BY <1>3
  <2> QED
    BY <2>1 DEF ToolEvents
<1> QED
  BY <1>2, <1>3

LEMMA PermittedAppend ==
    ASSUME NEW l \in Seq(Event), NEW m \in Seq(Event), Permitted(l), Without(m, ToolEvents)
    PROVE  Permitted(l \o m)
PROOF
<1>1. PICK k : k = l \o m
  OBVIOUS
<1>2. /\ k \in Seq(Event) /\ Len(k) = Len(l) + Len(m) /\ Len(l) \in Nat /\ Len(m) \in Nat
      /\ \A i \in 1 .. Len(l) : k[i] = l[i]
      /\ \A i \in 1 .. Len(k) : i > Len(l) => k[i].type \notin ToolEvents
  BY <1>1, Concatenated DEF Without
<1>3. Permitted(k)
  BY <1>2, PermittedLonger
<1> QED
  BY <1>1, <1>3

(* e may follow l. *)
MayFollow(l, e) ==
    /\ e.type = "tool.completed" =>
          /\ Never(l, {"tool.completed"}, e.call)
          /\ \E j \in 1 .. Len(l) : l[j].type = "tool.decided" /\ l[j].call = e.call /\ l[j].ok
    /\ e.type = "tool.decided" =>
          /\ Never(l, {"tool.decided"}, e.call)
          /\ \E j \in 1 .. Len(l) : l[j].type = "tool.requested" /\ l[j].call = e.call
    /\ e.type = "tool.requested" => Never(l, {"tool.requested"}, e.call)

LEMMA PermittedNext ==
    ASSUME NEW l \in Seq(Event), NEW e \in Event, Permitted(l), MayFollow(l, e)
    PROVE  Permitted(l \o <<e>>)
PROOF
<1> PICK k : k = l \o <<e>>
  OBVIOUS
<1>1. /\ Len(l) \in Nat /\ Len(k) = Len(l) + 1
      /\ \A i \in 1 .. Len(l) : k[i] = l[i]
      /\ k[Len(l) + 1] = e
  OBVIOUS
<1> SUFFICES ASSUME NEW i \in 1 .. Len(k)
             PROVE  /\ k[i].type = "tool.completed" =>
                          /\ \A j \in 1 .. i - 1 :
                                k[j].type = "tool.completed" => k[j].call # k[i].call
                          /\ \E j \in 1 .. i - 1 :
                                k[j].type = "tool.decided" /\ k[j].call = k[i].call /\ k[j].ok
                    /\ k[i].type = "tool.decided" =>
                          /\ \A j \in 1 .. i - 1 :
                                k[j].type = "tool.decided" => k[j].call # k[i].call
                          /\ \E j \in 1 .. i - 1 :
                                k[j].type = "tool.requested" /\ k[j].call = k[i].call
                    /\ k[i].type = "tool.requested" =>
                          \A j \in 1 .. i - 1 :
                                k[j].type = "tool.requested" => k[j].call # k[i].call
  BY DEF Permitted
<1>2. CASE i = Len(l) + 1
  BY <1>1, <1>2 DEF MayFollow, Never
<1>3. CASE i # Len(l) + 1
  <2>1. i \in 1 .. Len(l) /\ \A j \in 1 .. i : k[j] = l[j]
    BY <1>1, <1>3
  <2> QED
    BY <2>1 DEF Permitted
<1> QED
  BY <1>2, <1>3

LEMMA CountIsNatural ==
    ASSUME NEW l \in Seq(Event), NEW t PROVE Count(l, t) \in Nat
PROOF
<1>1. IsFiniteSet(1 .. Len(l)) /\ {i \in 1 .. Len(l) : l[i].type = t} \subseteq 1 .. Len(l)
  BY FS_Interval
<1> QED
  BY <1>1, FS_Subset, FS_CardinalityType DEF Count

LEMMA CountAppend ==
    ASSUME NEW l \in Seq(Event), NEW m \in Seq(Event), NEW t, Without(m, {t})
    PROVE  Count(l \o m, t) = Count(l, t)
PROOF
<1> PICK k : k = l \o m
  OBVIOUS
<1>1. /\ Len(k) = Len(l) + Len(m) /\ Len(l) \in Nat /\ Len(m) \in Nat
      /\ \A i \in 1 .. Len(l) : k[i] = l[i]
      /\ \A i \in 1 .. Len(k) : i > Len(l) => k[i].type # t
  BY Concatenated DEF Without
<1>2. {i \in 1 .. Len(k) : k[i].type = t} = {i \in 1 .. Len(l) : l[i].type = t}
  BY <1>1
<1> QED
  BY <1>2 DEF Count

LEMMA CountNext ==
    ASSUME NEW l \in Seq(Event), NEW e \in Event
    PROVE  Count(l \o <<e>>, e.type) = Count(l, e.type) + 1
PROOF
<1> PICK k : k = l \o <<e>>
  OBVIOUS
<1> DEFINE S == {i \in 1 .. Len(l) : l[i].type = e.type}
<1>1. /\ Len(l) \in Nat /\ Len(k) = Len(l) + 1
      /\ \A i \in 1 .. Len(l) : k[i] = l[i]
      /\ k[Len(l) + 1] = e
  OBVIOUS
<1>2. {i \in 1 .. Len(k) : k[i].type = e.type} = S \cup {Len(l) + 1}
  BY <1>1
<1>3. IsFiniteSet(S) /\ Len(l) + 1 \notin S
  <2>1. IsFiniteSet(1 .. Len(l)) /\ S \subseteq 1 .. Len(l)
    BY <1>1, FS_Interval
  <2> QED
    BY <1>1, <2>1, FS_Subset
<1> HIDE DEF S
<1>4. Cardinality(S \cup {Len(l) + 1}) = Cardinality(S) + 1
  BY <1>3, FS_AddElement
<1> QED
  BY <1>2, <1>4 DEF Count, S

LEMMA ValidatedAppend ==
    ASSUME NEW l \in Seq(Event), NEW m \in Seq(Event), Validated(l),
           Without(m, {"dag.node_created"})
    PROVE  Validated(l \o m)
PROOF
<1> PICK k : k = l \o m
  OBVIOUS
<1>1. /\ Len(k) = Len(l) + Len(m) /\ Len(l) \in Nat /\ Len(m) \in Nat
      /\ \A i \in 1 .. Len(l) : k[i] = l[i]
      /\ \A i \in 1 .. Len(k) : i > Len(l) => k[i].type # "dag.node_created"
  BY Concatenated DEF Without
<1> QED
  BY <1>1 DEF Validated

LEMMA ValidatedTail ==
    ASSUME NEW l \in Seq(Event), NEW m \in Seq(Event), Validated(l), Len(l) > 0,
           l[Len(l)].type \in {"dag.node_created", "response.validated", "review.completed"},
           \A i \in 1 .. Len(m) : m[i].type = "dag.node_created"
    PROVE  Validated(l \o m)
PROOF
<1> PICK k : k = l \o m
  OBVIOUS
<1>1. /\ Len(k) = Len(l) + Len(m) /\ Len(l) \in Nat
      /\ \A i \in 1 .. Len(l) : k[i] = l[i]
      /\ \A i \in 1 .. Len(k) : i > Len(l) => k[i].type = "dag.node_created"
  BY Concatenated
<1> SUFFICES ASSUME NEW i \in 1 .. Len(k), k[i].type = "dag.node_created"
             PROVE  /\ i > 1
                    /\ k[i - 1].type \in
                          {"dag.node_created", "response.validated", "review.completed"}
  BY DEF Validated
<1>2. CASE i \in 1 .. Len(l)
  BY <1>1, <1>2 DEF Validated
<1>3. CASE i = Len(l) + 1
  BY <1>1, <1>3
<1>4. CASE i > Len(l) + 1
  <2>1. i - 1 \in 1 .. Len(k) /\ i - 1 > Len(l) /\ i > 1
    BY <1>1, <1>4
  <2> QED
    BY <1>1, <2>1
<1> QED
  BY <1>1, <1>2, <1>3, <1>4

LEMMA NodesAreNodes ==
    \A n \in Nat : /\ Nodes(n) \in Seq(Event) /\ Len(Nodes(n)) = n
                   /\ \A i \in 1 .. n : Nodes(n)[i].type = "dag.node_created"
PROOF
<1> TAKE n \in Nat
<1>1. Nodes(n) \in [1 .. n -> Event]
  BY DEF Nodes, Ev, Event, EventTypes
<1>2. \A i \in 1 .. n : Nodes(n)[i].type = "dag.node_created"
  BY DEF Nodes, Ev
<1> QED
  BY <1>1, <1>2

LEMMA ValidatedNodes ==
    ASSUME NEW l \in Seq(Event), NEW n \in Nat, Validated(l), Len(l) > 0,
           l[Len(l)].type \in {"dag.node_created", "response.validated", "review.completed"}
    PROVE  Validated(l \o Nodes(n))
BY NodesAreNodes, ValidatedTail

--------------------------------------------------------------------------------
(* Most steps are quiet for a run: they record nothing of its calls, loops and nodes,
   or are about another run. *)

Quiet(m) ==
    Without(m, ToolEvents \cup {"inference.started", "review.completed", "dag.node_created"})

Kept(r) == rounds'[r] = rounds[r] /\ nextCall'[r] = nextCall[r] /\ reviews'[r] = reviews[r]

Moves(p, q) ==
    \/ q = p
    \/ q \in {"failing", "ended"}
    \/ p \in Before /\ q \in Before
    \/ p = "inferring" /\ q = "respond"
    \/ p = "review" /\ q = "complete"

QuietStep(r) ==
    /\ \E m \in Seq(Event) : Quiet(m) /\ log'[r] = log[r] \o m
    /\ Kept(r)
    /\ Moves(pc[r], pc'[r])
    /\ pc'[r] = "remember" /\ status'[r] = "running" =>
          log'[r] = log[r] /\ status[r] = "running"

LEMMA QuietActs ==
    ASSUME IInv, NEW r \in Runs, CallsOf(r), LoopOf(r), NodesOf(r), QuietStep(r)
    PROVE  CallsOf(r)' /\ LoopOf(r)' /\ NodesOf(r)'
PROOF
<1>0. log[r] \in Seq(Event) /\ nextCall[r] \in Nat /\ rounds[r] \in Nat /\ reviews[r] \in Nat
  BY DEF IInv, TypeOK
<1>1. PICK m \in Seq(Event) : Quiet(m) /\ log'[r] = log[r] \o m
  BY DEF QuietStep
<1>2. /\ Without(m, ToolEvents) /\ Without(m, {"inference.started"})
      /\ Without(m, {"review.completed"}) /\ Without(m, {"dag.node_created"})
  BY <1>1 DEF Quiet, Without
<1>3. /\ \A i \in 1 .. Len(log[r]) : i \in 1 .. Len(log'[r]) /\ log'[r][i] = log[r][i]
      /\ \A i \in 1 .. Len(log'[r]) : log'[r][i].type \in ToolEvents => i \in 1 .. Len(log[r])
  BY <1>0, <1>1, <1>2, Concatenated DEF Without
<1>4. CallsOf(r)'
  <2>1. Permitted(log'[r])
    BY <1>0, <1>1, <1>2, PermittedAppend DEF CallsOf
  <2>2. pc'[r] \in {"gate", "calling"} => pc'[r] = pc[r]
    BY DEF QuietStep, Moves, Before
  <2>3. nextCall'[r] = nextCall[r]
    BY DEF QuietStep, Kept
  <2> QED
    BY <1>3, <2>1, <2>2, <2>3 DEF CallsOf, Numbered, Never, ToolEvents
<1>5. LoopOf(r)'
  <2>1. /\ Count(log'[r], "inference.started") = Count(log[r], "inference.started")
        /\ Count(log'[r], "review.completed") = Count(log[r], "review.completed")
    BY <1>0, <1>1, <1>2, CountAppend
  <2>2. UNCHANGED <<rounds[r], reviews[r]>>
    BY DEF QuietStep, Kept
  <2>3. \/ pc'[r] = pc[r] \/ pc'[r] \in {"failing", "complete", "ended"}
        \/ pc[r] \in Before /\ pc'[r] \in Before
        \/ pc[r] = "inferring" /\ pc'[r] = "respond"
    BY DEF QuietStep, Moves
  <2> QED
    BY <2>1, <2>2, <2>3 DEF LoopOf, Inferences, Before
<1>6. NodesOf(r)'
  <2>1. Validated(log'[r])
    BY <1>0, <1>1, <1>2, ValidatedAppend DEF NodesOf
  <2>2. pc'[r] = "remember" => pc[r] = "remember"
    BY DEF QuietStep, Moves, Before
  <2> QED
    BY <2>1, <2>2 DEF NodesOf, QuietStep
<1> QED
  BY <1>4, <1>5, <1>6

LEMMA NothingIsQuiet == <<>> \in Seq(Event) /\ Quiet(<<>>) /\ \A l \in Seq(Event) : l \o <<>> = l
BY DEF Quiet, Without

LEMMA OtherRun ==
    ASSUME IInv, NEW s \in Runs, Kept(s), log'[s] = log[s], pc'[s] = pc[s],
           status'[s] = status[s]
    PROVE  QuietStep(s)
PROOF
<1>1. log[s] \in Seq(Event)
  BY DEF IInv, TypeOK
<1> QED
  BY <1>1, NothingIsQuiet DEF QuietStep, Moves

LEMMA AdvanceOthers ==
    ASSUME IInv, NEW r \in Runs, NEW from, NEW evs \in Seq(Event), NEW step,
           Advance(r, from, evs, step), \A s \in Runs \ {r} : Kept(s)
    PROVE  /\ pc[r] = from /\ pc'[r] = step /\ log'[r] = log[r] \o evs
           /\ status'[r] = status[r] /\ status[r] = "running"
           /\ \A s \in Runs \ {r} : QuietStep(s)
PROOF
<1>0. r \in DOMAIN pc /\ r \in DOMAIN log
  BY DEF IInv, TypeOK
<1>1. /\ pc[r] = from /\ pc' = [pc EXCEPT ![r] = step]
      /\ log' = [log EXCEPT ![r] = log[r] \o evs] /\ status' = status /\ status[r] = "running"
  BY DEF Advance, Goto, Record
<1>2. ASSUME NEW s \in Runs \ {r} PROVE QuietStep(s)
  <2>1. log'[s] = log[s] /\ pc'[s] = pc[s]
    BY <1>1 DEF IInv, TypeOK
  <2> QED
    BY <1>1, <2>1, OtherRun
<1> QED
  BY <1>0, <1>1, <1>2

LEMMA AdvanceQuiet ==
    ASSUME IInv, NEW r \in Runs, NEW from, NEW evs \in Seq(Event), NEW step,
           Advance(r, from, evs, step), UNCHANGED state, Quiet(evs), Moves(from, step),
           step # "remember"
    PROVE  \A s \in Runs : QuietStep(s)
PROOF
<1>1. \A s \in Runs : Kept(s)
  BY DEF Kept, state
<1>2. /\ pc[r] = from /\ pc'[r] = step /\ log'[r] = log[r] \o evs
      /\ \A s \in Runs \ {r} : QuietStep(s)
  BY <1>1, AdvanceOthers
<1>3. QuietStep(r)
  BY <1>1, <1>2 DEF QuietStep
<1> QED
  BY <1>2, <1>3

(* The run leaves execute, moves on without recording, or waits. *)
LEMMA GotoQuiet ==
    ASSUME IInv, NEW r \in Runs, NEW step, Goto(r, step), UNCHANGED <<tables, state>>,
           Moves(pc[r], step), step # "remember"
    PROVE  \A s \in Runs : QuietStep(s)
PROOF
<1> SUFFICES ASSUME NEW s \in Runs PROVE QuietStep(s)
  OBVIOUS
<1>1. Kept(s) /\ log'[s] = log[s] /\ status'[s] = status[s]
  BY DEF Kept, state, tables
<1>2. pc' = [pc EXCEPT ![r] = step] /\ r \in DOMAIN pc /\ s \in DOMAIN pc
  BY DEF Goto, IInv, TypeOK
<1>3. log[s] \in Seq(Event)
  BY DEF IInv, TypeOK
<1>4. CASE s = r
  BY <1>1, <1>2, <1>3, <1>4, NothingIsQuiet DEF QuietStep
<1>5. CASE s # r
  BY <1>1, <1>2, <1>5, OtherRun
<1> QED
  BY <1>4, <1>5

LEMMA FailQuiet ==
    ASSUME IInv, NEW r \in Runs, NEW c, NEW evs, Fail(r, c, evs)
    PROVE  \A s \in Runs : QuietStep(s)
BY GotoQuiet DEF Fail, Moves

--------------------------------------------------------------------------------
(* The steps that matter to a run's acts *)

LEMMA ActsEvents ==
    /\ \A t \in {"jev.requested", "jev.classified", "context.expanded", "ir.compiled",
                  "inference.completed", "run.completed", "run.failed"} :
          <<Ev(t)>> \in Seq(Event) /\ Quiet(<<Ev(t)>>)
    /\ \A b \in BOOLEAN :
          /\ Rejection(b) \o <<Ev("jev.fallback")>> \in Seq(Event)
          /\ Quiet(Rejection(b) \o <<Ev("jev.fallback")>>)
PROOF
<1>1. \A t \in {"jev.requested", "jev.classified", "context.expanded", "ir.compiled",
                 "inference.completed", "run.completed", "run.failed", "jev.rejected",
                 "jev.fallback"} :
         <<Ev(t)>> \in Seq(Event) /\ Quiet(<<Ev(t)>>)
  BY DEF Ev, Event, EventTypes, Quiet, Without, ToolEvents
<1>2. ASSUME NEW b \in BOOLEAN PROVE Rejection(b) \in Seq(Event) /\ Quiet(Rejection(b))
  BY <1>1, NothingIsQuiet DEF Rejection
<1>3. ASSUME NEW l \in Seq(Event), NEW m \in Seq(Event), Quiet(l), Quiet(m)
      PROVE  l \o m \in Seq(Event) /\ Quiet(l \o m)
  BY <1>3 DEF Quiet, Without
<1> QED
  BY <1>1, <1>2, <1>3

(* Steps of classify_context, expand_context, compile_ir and the provider's answer. *)
LEMMA AskingQuiet ==
    ASSUME IInv, NEW r \in Runs,
           \/ BeginFinish(r) \/ RequestJev(r) \/ JevAnswers(r) \/ FallbackAnswers(r)
           \/ Everything(r) \/ Compile(r) \/ InferAnswers(r)
    PROVE  \A s \in Runs : QuietStep(s)
PROOF
<1>1. ASSUME NEW c, NEW evs, Fail(r, c, evs) PROVE \A s \in Runs : QuietStep(s)
  BY <1>1, FailQuiet
<1>2. ASSUME NEW from, NEW evs \in Seq(Event), NEW step, Advance(r, from, evs, step),
             UNCHANGED state, Quiet(evs), Moves(from, step), step # "remember"
      PROVE  \A s \in Runs : QuietStep(s)
  BY <1>2, AdvanceQuiet
<1>3. /\ Moves("classify", "jev") /\ Moves("jev", "everything") /\ Moves("jev", "fallback")
      /\ Moves("fallback", "everything") /\ Moves("everything", "compile")
      /\ Moves("compile", "infer") /\ Moves("inferring", "respond") /\ Moves("started", "classify")
  BY DEF Moves, Before
<1>4. CASE BeginFinish(r)
  BY <1>1, <1>3, <1>4, GotoQuiet DEF BeginFinish
<1>5. CASE RequestJev(r)
  BY <1>2, <1>3, <1>5, ActsEvents DEF RequestJev
<1>6. CASE JevAnswers(r)
  <2>1. CASE Advance(r, "jev", <<Ev("jev.classified")>>, "everything") /\ UNCHANGED state
    BY <1>2, <1>3, <2>1, ActsEvents
  <2>2. ASSUME NEW b \in BOOLEAN, UNCHANGED state,
               Advance(r, "jev", Rejection(b) \o <<Ev("jev.fallback")>>, "fallback")
        PROVE  \A s \in Runs : QuietStep(s)
    BY <1>2, <1>3, <2>2, ActsEvents
  <2> QED
    BY <1>1, <1>6, <2>1, <2>2 DEF JevAnswers
<1>7. CASE FallbackAnswers(r)
  BY <1>1, <1>2, <1>3, <1>7, ActsEvents DEF FallbackAnswers
<1>8. CASE Everything(r)
  <2>1. CASE Advance(r, "everything", <<Ev("context.expanded")>>, "compile") /\ UNCHANGED state
    BY <1>2, <1>3, <2>1, ActsEvents
  <2>2. CASE pc[r] = "everything" /\ Goto(r, "compile")
             /\ UNCHANGED <<tables, up, owner, state, stop, failure>>
    BY <1>3, <2>2, GotoQuiet
  <2> QED
    BY <1>8, <2>1, <2>2 DEF Everything
<1>9. CASE Compile(r)
  BY <1>1, <1>2, <1>3, <1>9, ActsEvents DEF Compile
<1>10. CASE InferAnswers(r)
  BY <1>1, <1>2, <1>3, <1>10, ActsEvents DEF InferAnswers
<1> QED
  BY <1>4, <1>5, <1>6, <1>7, <1>8, <1>9, <1>10

LEMMA RecordEndQuiet ==
    ASSUME IInv, NEW r \in Runs, NEW evs \in Seq(Event), Quiet(evs), NEW v, NEW c,
           v # "running", RecordEnd(r, evs, v, c), Goto(r, "ended"), UNCHANGED state
    PROVE  \A s \in Runs : QuietStep(s)
PROOF
<1> SUFFICES ASSUME NEW s \in Runs PROVE QuietStep(s)
  OBVIOUS
<1>1. /\ r \in DOMAIN pc /\ r \in DOMAIN log /\ r \in DOMAIN status
      /\ pc' = [pc EXCEPT ![r] = "ended"] /\ log' = [log EXCEPT ![r] = log[r] \o evs]
      /\ status' = [status EXCEPT ![r] = v] /\ Kept(s)
  BY DEF IInv, TypeOK, Goto, RecordEnd, Kept, state
<1>2. CASE s = r
  BY <1>1, <1>2 DEF QuietStep, Moves
<1>3. CASE s # r
  <2>1. log'[s] = log[s] /\ pc'[s] = pc[s] /\ status'[s] = status[s]
    BY <1>1, <1>3 DEF IInv, TypeOK
  <2> QED
    BY <1>1, <2>1, OtherRun
<1> QED
  BY <1>2, <1>3

LEMMA EndingQuiet ==
    ASSUME IInv, NEW r \in Runs, EvidenceOf(r),
           Complete(r) \/ FailRun(r) \/ StoreFails(r) \/ SkipReview(r)
    PROVE  \A s \in Runs : QuietStep(s)
PROOF
<1>1. CASE Complete(r)
  BY <1>1, ActsEvents, RecordEndQuiet DEF Complete
<1>2. CASE FailRun(r)
  <2>1. failure[r].evidence \in Seq(Event)
    BY DEF IInv, TypeOK
  <2>2. failure[r].evidence \o <<Ev("run.failed")>> \in Seq(Event)
    BY <2>1, ActsEvents
  <2>3. Quiet(failure[r].evidence)
    BY <2>1 DEF EvidenceOf, Quiet, Without, ToolEvents
  <2>4. Quiet(failure[r].evidence \o <<Ev("run.failed")>>)
    BY <2>1, <2>3, ActsEvents DEF Quiet, Without
  <2> QED
    BY <1>2, <2>2, <2>4, RecordEndQuiet DEF FailRun
<1>3. CASE StoreFails(r)
  BY <1>3, FailQuiet, GotoQuiet DEF StoreFails, Moves
<1>4. CASE SkipReview(r)
  BY <1>4, GotoQuiet DEF SkipReview, Moves
<1> QED
  BY <1>1, <1>2, <1>3, <1>4

LEMMA AppendedEvent ==
    ASSUME NEW l \in Seq(Event), NEW e \in Event
    PROVE  /\ l \o <<e>> \in Seq(Event) /\ Len(l \o <<e>>) = Len(l) + 1
           /\ \A i \in 1 .. Len(l) : i \in 1 .. Len(l) + 1 /\ (l \o <<e>>)[i] = l[i]
           /\ (l \o <<e>>)[Len(l) + 1] = e
           /\ \A t : t # e.type => Count(l \o <<e>>, t) = Count(l, t)
           /\ Count(l \o <<e>>, e.type) = Count(l, e.type) + 1
           /\ \A n : Numbered(l, n) /\ (e.type \in ToolEvents => e.call < n) =>
                    Numbered(l \o <<e>>, n)
           /\ Validated(l) /\ e.type # "dag.node_created" => Validated(l \o <<e>>)
           /\ Permitted(l) /\ MayFollow(l, e) => Permitted(l \o <<e>>)
PROOF
<1>1. <<e>> \in Seq(Event) /\ Len(<<e>>) = 1 /\ <<e>>[1] = e
  OBVIOUS
<1>2. \A t : t # e.type => Without(<<e>>, {t})
  BY <1>1 DEF Without
<1>3. e.type # "dag.node_created" => Without(<<e>>, {"dag.node_created"})
  BY <1>2
<1>4. \A t : t # e.type => Count(l \o <<e>>, t) = Count(l, t)
  BY <1>1, <1>2, CountAppend
<1>5. Validated(l) /\ e.type # "dag.node_created" => Validated(l \o <<e>>)
  BY <1>1, <1>3, ValidatedAppend
<1>6. /\ l \o <<e>> \in Seq(Event) /\ Len(l \o <<e>>) = Len(l) + 1
      /\ \A i \in 1 .. Len(l) : i \in 1 .. Len(l) + 1 /\ (l \o <<e>>)[i] = l[i]
      /\ (l \o <<e>>)[Len(l) + 1] = e
  OBVIOUS
<1>7. \A n : Numbered(l, n) /\ (e.type \in ToolEvents => e.call < n) => Numbered(l \o <<e>>, n)
  BY <1>6 DEF Numbered
<1> QED
  BY <1>4, <1>5, <1>6, <1>7, CountNext, PermittedNext

LEMMA InferActs ==
    ASSUME IInv, NEW r \in Runs, Acts(r), Infer(r)
    PROVE  Acts(r)' /\ \A s \in Runs \ {r} : QuietStep(s)
PROOF
<1>e. PICK e : e = Ev("inference.started")
  OBVIOUS
<1>0. /\ e \in Event /\ e.type = "inference.started"
      /\ log[r] \in Seq(Event) /\ rounds[r] \in Nat /\ reviews[r] \in Nat
      /\ Count(log[r], "inference.started") \in Nat
  BY <1>e, CountIsNatural DEF IInv, TypeOK, Ev, Event, EventTypes
<1>1. /\ Advance(r, "infer", <<e>>, "inferring") /\ <<e>> \in Seq(Event)
      /\ UNCHANGED state /\ \A s \in Runs : Kept(s)
  BY <1>0, <1>e DEF Infer, Kept, state
<1>2. /\ pc[r] = "infer" /\ pc'[r] = "inferring" /\ log'[r] = log[r] \o <<e>>
      /\ \A s \in Runs \ {r} : QuietStep(s)
  BY <1>1, AdvanceOthers
<1>3. CallsOf(r)'
  <2>1. Permitted(log'[r]) /\ Numbered(log'[r], nextCall[r])
    BY <1>0, <1>2, AppendedEvent DEF Acts, CallsOf, MayFollow, ToolEvents
  <2> QED
    BY <1>1, <1>2, <2>1 DEF CallsOf, Kept
<1>4. LoopOf(r)'
  <2>1. /\ Inferences(r) <= rounds[r] + reviews[r]
        /\ rounds[r] <= MaxToolSteps /\ reviews[r] <= HandBacks
    BY <1>2 DEF Acts, LoopOf, Before
  <2>2. /\ Inferences(r)' = Inferences(r) + 1
        /\ Count(log'[r], "review.completed") = Count(log[r], "review.completed")
        /\ UNCHANGED <<rounds, reviews>>
    BY <1>0, <1>1, <1>2, AppendedEvent DEF Inferences, state
  <2>3. HandBacks \in Nat /\ MaxToolSteps \in Nat
    BY BoundsAssumption DEF HandBacks
  <2> QED
    BY <1>0, <1>2, <2>1, <2>2, <2>3 DEF Acts, LoopOf, Inferences, Before
<1>5. NodesOf(r)'
  BY <1>0, <1>2, AppendedEvent DEF Acts, NodesOf
<1> QED
  BY <1>2, <1>3, <1>4, <1>5 DEF Acts

LEMMA RespondActs ==
    ASSUME IInv, NEW r \in Runs, Acts(r), Respond(r), ~ \A s \in Runs : QuietStep(s)
    PROVE  Acts(r)' /\ \A s \in Runs \ {r} : QuietStep(s)
PROOF
<1>1. PICK e \in Event, m \in Seq(Event), k \in Nat :
         /\ e.type = "response.validated"
         /\ \A i \in 1 .. Len(m) : m[i].type = "dag.node_created"
         /\ Advance(r, "respond", <<e>> \o m, IF k = 0 THEN "review" ELSE "request")
         /\ rounds' = [rounds EXCEPT ![r] = IF k = 0 THEN @ ELSE @ + 1]
         /\ UNCHANGED <<nextCall, reviews>>
  <2>1. PICK n \in 0 .. MaxEmissions, k \in 0 .. MaxCalls :
           /\ Advance(r, "respond", <<Ev("response.validated")>> \o Nodes(n),
                      IF k = 0 THEN "review" ELSE "request")
           /\ rounds' = [rounds EXCEPT ![r] = IF k = 0 THEN @ ELSE @ + 1]
           /\ UNCHANGED <<nextCall, reviews>>
    BY FailQuiet DEF Respond
  <2>2. /\ Ev("response.validated") \in Event
        /\ Ev("response.validated").type = "response.validated"
    BY DEF Ev, Event, EventTypes
  <2>3. /\ Nodes(n) \in Seq(Event) /\ k \in Nat
        /\ \A i \in 1 .. Len(Nodes(n)) : Nodes(n)[i].type = "dag.node_created"
    <3>1. n \in Nat /\ k \in Nat
      BY BoundsAssumption
    <3>2. Len(Nodes(n)) = n
      BY <3>1, NodesAreNodes
    <3> QED
      BY <3>1, <3>2, NodesAreNodes
  <2> QED
    BY <2>1, <2>2, <2>3
<1>2. PICK step : step = IF k = 0 THEN "review" ELSE "request"
  OBVIOUS
<1>3. PICK l : l = log[r] \o <<e>>
  OBVIOUS
<1>4. /\ log[r] \in Seq(Event) /\ rounds[r] \in Nat /\ reviews[r] \in Nat
      /\ r \in DOMAIN rounds /\ Count(log[r], "inference.started") \in Nat
  BY CountIsNatural DEF IInv, TypeOK
<1>5. <<e>> \o m \in Seq(Event) /\ log[r] \o (<<e>> \o m) = l \o m
  <2>1. <<e>> \in Seq(Event) /\ log[r] \in Seq(Event) /\ m \in Seq(Event)
    BY <1>4
  <2>2. PICK f : f = <<e>>
    OBVIOUS
  <2>3. f \in Seq(Event) /\ f \o m \in Seq(Event)
    BY <2>1, <2>2
  <2>4. \A s, t, u \in Seq(Event) : (s \o t) \o u = s \o (t \o u)
    BY ConcatAssociative
  <2>5. (log[r] \o f) \o m = log[r] \o (f \o m)
    BY <2>1, <2>3, <2>4
  <2> QED
    BY <1>3, <2>2, <2>3, <2>5, Zenon
<1>6. /\ pc[r] = "respond" /\ pc'[r] = step /\ log'[r] = l \o m
      /\ \A s \in Runs \ {r} : QuietStep(s)
  <2>1. \A s \in Runs \ {r} : Kept(s)
    BY <1>1 DEF Kept, IInv, TypeOK
  <2>2. Advance(r, "respond", <<e>> \o m, step)
    BY <1>1, <1>2
  <2> QED
    BY <1>5, <2>1, <2>2, AdvanceOthers
<1>7. /\ l \in Seq(Event) /\ Len(l) = Len(log[r]) + 1 /\ l[Len(l)] = e
      /\ \A i \in 1 .. Len(log[r]) : i \in 1 .. Len(l) /\ l[i] = log[r][i]
      /\ Count(l, "inference.started") = Count(log[r], "inference.started")
      /\ Count(l, "review.completed") = Count(log[r], "review.completed")
      /\ Validated(l) /\ Permitted(l) /\ Numbered(l, nextCall[r])
  BY <1>1, <1>3, <1>4, AppendedEvent DEF Acts, CallsOf, NodesOf, MayFollow, ToolEvents
<1>8. Without(m, ToolEvents) /\ Without(m, {"inference.started"}) /\ Without(m, {"review.completed"})
  BY <1>1 DEF Without, ToolEvents
<1>9. CallsOf(r)'
  <2>1. Permitted(l \o m)
    BY <1>7, <1>8, PermittedAppend
  <2>2. Numbered(l \o m, nextCall[r])
    BY <1>7, <1>8, Concatenated DEF Numbered, Without
  <2>3. pc'[r] \notin {"gate", "calling"} /\ nextCall' = nextCall
    BY <1>1, <1>2, <1>6
  <2> QED
    BY <1>6, <2>1, <2>2, <2>3 DEF CallsOf
<1>10. LoopOf(r)'
  <2>1. /\ Inferences(r)' = Inferences(r)
        /\ Count(log'[r], "review.completed") = Count(log[r], "review.completed")
    BY <1>6, <1>7, <1>8, CountAppend DEF Inferences
  <2>2. /\ reviews' = reviews
        /\ pc'[r] = "review" => rounds'[r] = rounds[r]
        /\ pc'[r] = "request" => rounds'[r] = rounds[r] + 1
        /\ pc'[r] \in {"review", "request"} /\ pc[r] = "respond"
    BY <1>1, <1>2, <1>4, <1>6
  <2>3. HandBacks \in Nat /\ MaxToolSteps \in Nat /\ Inferences(r) \in Nat
    BY <1>4, BoundsAssumption DEF HandBacks, Inferences
  <2>4. /\ Count(log[r], "review.completed") <= reviews[r] /\ reviews[r] <= MaxReviewRounds
        /\ Inferences(r) <= 1 + MaxToolSteps + HandBacks
        /\ Inferences(r) <= rounds[r] + reviews[r] + 1 /\ rounds[r] <= MaxToolSteps
        /\ reviews[r] <= HandBacks
    BY <1>6 DEF Acts, LoopOf
  <2>5. pc'[r] = "request" => rounds'[r] <= MaxToolSteps + 1 /\ Inferences(r) <= rounds'[r] + reviews[r]
    BY <1>4, <2>2, <2>3, <2>4
  <2>6. pc'[r] = "review" => rounds'[r] <= MaxToolSteps /\ Inferences(r) <= rounds'[r] + reviews[r] + 1
    BY <2>2, <2>4
  <2>7. Inferences(r)' = Inferences(r) /\ reviews'[r] = reviews[r]
    BY <2>1, <2>2
  <2> QED
    BY <2>1, <2>2, <2>4, <2>5, <2>6, <2>7 DEF LoopOf, Before
<1>11. NodesOf(r)'
  <2>1. Validated(l \o m)
    BY <1>1, <1>4, <1>7, ValidatedTail
  <2> QED
    BY <1>2, <1>6, <2>1 DEF NodesOf
<1> QED
  BY <1>6, <1>9, <1>10, <1>11 DEF Acts

LEMMA CallEvIsEvent ==
    \A t \in ToolEvents, c \in Nat, b \in BOOLEAN :
        /\ CallEv(t, c, b) \in Event /\ CallEv(t, c, b).type = t
        /\ CallEv(t, c, b).call = c /\ CallEv(t, c, b).ok = b
BY DEF ToolEvents, CallEv, Event, EventTypes

(* A step of run_tool records one event e of a call; the rest is about its number. *)
LEMMA ToolActs ==
    ASSUME IInv, NEW r \in Runs, Acts(r), NEW e \in Event, e.type \in ToolEvents,
           NEW from \in {"request", "gate", "calling"}, NEW step,
           Advance(r, from, <<e>>, step), UNCHANGED <<rounds, reviews>>,
           \A s \in Runs \ {r} : nextCall'[s] = nextCall[s],
           step \in {"request", "gate", "calling", "complete"} \/ step = AfterCall(r, calls[r])
    PROVE  /\ pc[r] = from /\ pc'[r] = step /\ log'[r] = log[r] \o <<e>>
           /\ \A s \in Runs \ {r} : QuietStep(s)
           /\ LoopOf(r)' /\ NodesOf(r)'
PROOF
<1>0. /\ log[r] \in Seq(Event) /\ rounds[r] \in Nat /\ reviews[r] \in Nat
      /\ Count(log[r], "inference.started") \in Nat
  BY CountIsNatural DEF IInv, TypeOK
<1>1. <<e>> \in Seq(Event) /\ \A s \in Runs \ {r} : Kept(s)
  BY DEF Kept
<1>2. /\ pc[r] = from /\ pc'[r] = step /\ log'[r] = log[r] \o <<e>>
      /\ \A s \in Runs \ {r} : QuietStep(s)
  BY <1>1, AdvanceOthers
<1>3. LoopOf(r)'
  <2>1. /\ Inferences(r)' = Inferences(r) /\ Inferences(r) \in Nat
        /\ Count(log'[r], "review.completed") = Count(log[r], "review.completed")
    BY <1>0, <1>2, AppendedEvent DEF Inferences, ToolEvents
  <2>2. HandBacks \in Nat /\ MaxToolSteps \in Nat
    BY BoundsAssumption DEF HandBacks
  <2>3. /\ Count(log[r], "review.completed") <= reviews[r] /\ reviews[r] <= MaxReviewRounds
        /\ Inferences(r) <= 1 + MaxToolSteps + HandBacks
        /\ Inferences(r) <= rounds[r] + reviews[r] /\ rounds[r] <= MaxToolSteps + 1
        /\ reviews[r] <= HandBacks
    BY <1>2 DEF Acts, LoopOf
  <2>4. step = "compile" => rounds[r] <= MaxToolSteps
    BY <1>0, <2>2 DEF AfterCall, OverLimit
  <2>5. step \in {"request", "gate", "calling", "complete", "compile"}
    BY DEF AfterCall
  <2>6. UNCHANGED <<rounds[r], reviews[r]>>
    OBVIOUS
  <2> QED
    BY <1>2, <2>1, <2>3, <2>4, <2>5, <2>6 DEF LoopOf, Before
<1>4. NodesOf(r)'
  <2>1. Validated(log[r] \o <<e>>)
    BY <1>0, AppendedEvent DEF Acts, NodesOf, ToolEvents
  <2> QED
    BY <1>2, <2>1 DEF NodesOf, AfterCall
<1> QED
  BY <1>2, <1>3, <1>4

LEMMA RequestToolActs ==
    ASSUME IInv, NEW r \in Runs, Acts(r), RequestTool(r)
    PROVE  Acts(r)' /\ \A s \in Runs \ {r} : QuietStep(s)
PROOF
<1>0. log[r] \in Seq(Event) /\ nextCall[r] \in Nat /\ r \in DOMAIN nextCall
  BY DEF IInv, TypeOK
<1>1. PICK e \in Event :
         /\ e.type = "tool.requested" /\ e.call = nextCall[r]
         /\ Advance(r, "request", <<e>>, "gate")
  <2>1. Advance(r, "request", <<CallEv("tool.requested", nextCall[r], TRUE)>>, "gate")
    BY DEF RequestTool
  <2>2. "tool.requested" \in ToolEvents /\ TRUE \in BOOLEAN
    BY DEF ToolEvents
  <2> QED
    BY <1>0, <2>1, <2>2, CallEvIsEvent
<1>2. nextCall'[r] = nextCall[r] + 1 /\ \A s \in Runs \ {r} : nextCall'[s] = nextCall[s]
  BY <1>0 DEF RequestTool, IInv, TypeOK
<1>3. e.type \in ToolEvents /\ UNCHANGED <<rounds, reviews>>
  BY <1>1 DEF ToolEvents, RequestTool
<1>4. /\ pc'[r] = "gate" /\ log'[r] = log[r] \o <<e>> /\ LoopOf(r)' /\ NodesOf(r)'
      /\ \A s \in Runs \ {r} : QuietStep(s)
  BY <1>1, <1>2, <1>3, ToolActs
<1>5. CallsOf(r)'
  <2>1. Numbered(log[r], nextCall[r]) /\ Permitted(log[r])
    BY DEF Acts, CallsOf
  <2>2. Never(log[r], ToolEvents, nextCall[r])
    BY <1>0, <2>1 DEF Numbered, Never, ToolEvents, Event
  <2>3. MayFollow(log[r], e)
    BY <1>1, <2>2 DEF MayFollow, Never, ToolEvents
  <2>4. Numbered(log[r], nextCall[r] + 1)
    <3> SUFFICES ASSUME NEW i \in 1 .. Len(log[r]), log[r][i].type \in ToolEvents
                 PROVE  log[r][i].call < nextCall[r] + 1
      BY DEF Numbered
    <3>1. log[r][i] \in Event /\ log[r][i].call < nextCall[r]
      BY <1>0, <2>1 DEF Numbered
    <3> QED
      BY <1>0, <3>1 DEF Event
  <2>5. Permitted(log'[r]) /\ Numbered(log'[r], nextCall'[r])
    BY <1>0, <1>1, <1>2, <1>4, <2>1, <2>3, <2>4, AppendedEvent
  <2>6. /\ log'[r][Len(log[r]) + 1] = e /\ Len(log'[r]) = Len(log[r]) + 1
        /\ \A i \in 1 .. Len(log[r]) : log'[r][i] = log[r][i]
    BY <1>0, <1>4, AppendedEvent
  <2>7. nextCall'[r] - 1 = nextCall[r]
    BY <1>0, <1>2
  <2>8. \E i \in 1 .. Len(log'[r]) :
           log'[r][i].type = "tool.requested" /\ log'[r][i].call = nextCall[r]
    BY <1>0, <1>1, <2>6
  <2>9. Never(log'[r], {"tool.decided", "tool.completed"}, nextCall[r])
    <3>1. \A i \in 1 .. Len(log'[r]) : i \in 1 .. Len(log[r]) \/ log'[r][i] = e
      BY <1>0, <2>6
    <3> QED
      BY <1>1, <2>2, <2>6, <3>1 DEF Never, ToolEvents
  <2> QED
    BY <1>4, <2>5, <2>7, <2>8, <2>9 DEF CallsOf
<1> QED
  BY <1>4, <1>5 DEF Acts

LEMMA DecideToolActs ==
    ASSUME IInv, NEW r \in Runs, Acts(r), DecideTool(r)
    PROVE  Acts(r)' /\ \A s \in Runs \ {r} : QuietStep(s)
PROOF
<1>0. log[r] \in Seq(Event) /\ nextCall[r] \in Nat /\ nextCall[r] - 1 \in Nat
  BY DEF IInv, TypeOK
<1> PICK e \in Event :
         /\ e.type = "tool.decided" /\ e.call = nextCall[r] - 1
         /\ Advance(r, "gate", <<e>>, IF e.ok THEN "calling" ELSE AfterCall(r, calls[r]))
  <2>1. PICK allowed \in BOOLEAN :
           Advance(r, "gate", <<CallEv("tool.decided", nextCall[r] - 1, allowed)>>,
                   IF allowed THEN "calling" ELSE AfterCall(r, calls[r]))
    BY DEF DecideTool
  <2>2. PICK e : e = CallEv("tool.decided", nextCall[r] - 1, allowed)
    OBVIOUS
  <2>3. "tool.decided" \in ToolEvents
    BY DEF ToolEvents
  <2>4. e \in Event /\ e.type = "tool.decided" /\ e.call = nextCall[r] - 1 /\ e.ok = allowed
    BY <1>0, <2>2, <2>3, CallEvIsEvent
  <2>5. Advance(r, "gate", <<e>>, IF e.ok THEN "calling" ELSE AfterCall(r, calls[r]))
    BY <2>1, <2>2, <2>4
  <2> QED
    BY <2>4, <2>5
<1> PICK step : step = IF e.ok THEN "calling" ELSE AfterCall(r, calls[r])
  OBVIOUS
<1>1. /\ e.type = "tool.decided" /\ e.call = nextCall[r] - 1
      /\ step = IF e.ok THEN "calling" ELSE AfterCall(r, calls[r])
      /\ Advance(r, "gate", <<e>>, step)
  OBVIOUS
<1>2. UNCHANGED <<rounds, reviews, nextCall>> /\ e.type \in ToolEvents
  BY <1>1 DEF DecideTool, state, ToolEvents
<1>3. step \in {"request", "gate", "calling", "complete"} \/ step = AfterCall(r, calls[r])
  BY <1>1
<1>4. /\ pc[r] = "gate" /\ pc'[r] = step /\ log'[r] = log[r] \o <<e>>
      /\ LoopOf(r)' /\ NodesOf(r)' /\ \A s \in Runs \ {r} : QuietStep(s)
  BY <1>1, <1>2, <1>3, ToolActs
<1>5. CallsOf(r)'
  <2>1. /\ Numbered(log[r], nextCall[r]) /\ Permitted(log[r])
        /\ \E i \in 1 .. Len(log[r]) :
              log[r][i].type = "tool.requested" /\ log[r][i].call = nextCall[r] - 1
        /\ Never(log[r], {"tool.decided", "tool.completed"}, nextCall[r] - 1)
    BY <1>4 DEF Acts, CallsOf
  <2>2. MayFollow(log[r], e) /\ e.call < nextCall[r]
    BY <1>0, <1>1, <2>1 DEF MayFollow, Never
  <2>3. Permitted(log'[r]) /\ Numbered(log'[r], nextCall'[r])
    BY <1>0, <1>2, <1>4, <2>1, <2>2, AppendedEvent
  <2>4. /\ log'[r][Len(log[r]) + 1] = e /\ Len(log'[r]) = Len(log[r]) + 1
        /\ \A i \in 1 .. Len(log[r]) : log'[r][i] = log[r][i]
    BY <1>0, <1>4, AppendedEvent
  <2>5. step = "calling" => e.ok
    BY <1>1 DEF AfterCall
  <2>6. step = "calling" =>
           \E i \in 1 .. Len(log'[r]) : /\ log'[r][i].type = "tool.decided"
                                        /\ log'[r][i].call = nextCall[r] - 1 /\ log'[r][i].ok
    BY <1>0, <1>1, <2>4, <2>5
  <2>7. Never(log'[r], {"tool.completed"}, nextCall[r] - 1)
    BY <1>0, <1>1, <2>1, <2>4 DEF Never
  <2>8. pc'[r] # "gate"
    BY <1>1, <1>4 DEF AfterCall
  <2> QED
    BY <1>2, <1>4, <2>3, <2>6, <2>7, <2>8 DEF CallsOf
<1> QED
  BY <1>4, <1>5 DEF Acts

LEMMA EndCallActs ==
    ASSUME IInv, NEW r \in Runs, Acts(r), EndCall(r)
    PROVE  Acts(r)' /\ \A s \in Runs \ {r} : QuietStep(s)
PROOF
<1>0. log[r] \in Seq(Event) /\ nextCall[r] \in Nat /\ nextCall[r] - 1 \in Nat
  BY DEF IInv, TypeOK
<1>1. PICK e \in Event :
         /\ e.type = "tool.completed" /\ e.call = nextCall[r] - 1
         /\ Advance(r, "calling", <<e>>, AfterCall(r, calls[r]))
  <2>1. PICK ok \in BOOLEAN :
           Advance(r, "calling", <<CallEv("tool.completed", nextCall[r] - 1, ok)>>,
                   AfterCall(r, calls[r]))
    BY DEF EndCall
  <2>2. PICK e : e = CallEv("tool.completed", nextCall[r] - 1, ok)
    OBVIOUS
  <2>3. "tool.completed" \in ToolEvents
    BY DEF ToolEvents
  <2>4. e \in Event /\ e.type = "tool.completed" /\ e.call = nextCall[r] - 1
    BY <1>0, <2>2, <2>3, CallEvIsEvent
  <2> QED
    BY <2>1, <2>2, <2>4
<1>2. UNCHANGED <<rounds, reviews, nextCall>> /\ e.type \in ToolEvents
  BY <1>1 DEF EndCall, ToolEvents
<1>3. /\ pc[r] = "calling" /\ pc'[r] = AfterCall(r, calls[r]) /\ log'[r] = log[r] \o <<e>>
      /\ LoopOf(r)' /\ NodesOf(r)' /\ \A s \in Runs \ {r} : QuietStep(s)
  BY <1>1, <1>2, ToolActs
<1>4. CallsOf(r)'
  <2>1. /\ Numbered(log[r], nextCall[r]) /\ Permitted(log[r])
        /\ \E i \in 1 .. Len(log[r]) :
              log[r][i].type = "tool.decided" /\ log[r][i].call = nextCall[r] - 1 /\ log[r][i].ok
        /\ Never(log[r], {"tool.completed"}, nextCall[r] - 1)
    BY <1>3 DEF Acts, CallsOf
  <2>2. MayFollow(log[r], e) /\ e.call < nextCall[r]
    BY <1>0, <1>1, <2>1 DEF MayFollow
  <2>3. Permitted(log'[r]) /\ Numbered(log'[r], nextCall'[r])
    BY <1>0, <1>2, <1>3, <2>1, <2>2, AppendedEvent
  <2>4. pc'[r] \notin {"gate", "calling"}
    BY <1>3 DEF AfterCall
  <2> QED
    BY <2>3, <2>4 DEF CallsOf
<1> QED
  BY <1>3, <1>4 DEF Acts

LEMMA ReviewActs ==
    ASSUME IInv, NEW r \in Runs, Acts(r), Review(r)
    PROVE  Acts(r)' /\ \A s \in Runs \ {r} : QuietStep(s)
PROOF
<1>0. /\ log[r] \in Seq(Event) /\ rounds[r] \in Nat /\ reviews[r] \in Nat
      /\ r \in DOMAIN reviews
      /\ Count(log[r], "inference.started") \in Nat
      /\ Count(log[r], "review.completed") \in Nat
  BY CountIsNatural DEF IInv, TypeOK
<1>1. PICK e \in Event, step \in {"complete", "compile", "remember"} :
         /\ e.type = "review.completed"
         /\ Advance(r, "review", <<e>>, step)
         /\ step = "compile" => reviews[r] + 1 < MaxReviewRounds
  <2>1. PICK clean \in BOOLEAN :
           LET again == code[r] # handed[r] /\ reviews[r] + 1 < MaxReviewRounds
           IN Advance(r, "review", <<Reviewed(clean)>>,
                      IF clean THEN "complete" ELSE IF again THEN "compile" ELSE "remember")
    BY DEF Review
  <2>2. PICK e : e = Reviewed(clean)
    OBVIOUS
  <2>3. e \in Event /\ e.type = "review.completed"
    BY <2>2 DEF Reviewed, Event, EventTypes
  <2>4. PICK again \in BOOLEAN :
           again = (code[r] # handed[r] /\ reviews[r] + 1 < MaxReviewRounds)
    OBVIOUS
  <2>5. PICK step \in {"complete", "compile", "remember"} :
           step = IF clean THEN "complete" ELSE IF again THEN "compile" ELSE "remember"
    OBVIOUS
  <2>6. Advance(r, "review", <<e>>, step)
    BY <2>1, <2>2, <2>4, <2>5
  <2>7. step = "compile" => reviews[r] + 1 < MaxReviewRounds
    BY <2>4, <2>5
  <2> QED
    BY <2>3, <2>6, <2>7
<1>2. /\ reviews[r] < MaxReviewRounds /\ reviews'[r] = reviews[r] + 1
      /\ \A s \in Runs \ {r} : Kept(s)
      /\ UNCHANGED <<rounds, nextCall>>
  BY <1>0 DEF Review, MayReview, Kept, IInv, TypeOK
<1>3. <<e>> \in Seq(Event)
  OBVIOUS
<1>4. /\ pc[r] = "review" /\ pc'[r] = step /\ log'[r] = log[r] \o <<e>>
      /\ \A s \in Runs \ {r} : QuietStep(s)
  BY <1>1, <1>2, <1>3, AdvanceOthers
<1>5. CallsOf(r)'
  <2>1. Permitted(log'[r]) /\ Numbered(log'[r], nextCall[r])
    BY <1>0, <1>1, <1>4, AppendedEvent DEF Acts, CallsOf, MayFollow, ToolEvents
  <2> QED
    BY <1>2, <1>4, <2>1 DEF CallsOf
<1>6. LoopOf(r)'
  <2>1. /\ Inferences(r)' = Inferences(r) /\ Inferences(r) \in Nat
        /\ Count(log'[r], "review.completed") = Count(log[r], "review.completed") + 1
    BY <1>0, <1>1, <1>4, AppendedEvent DEF Inferences
  <2>2. /\ MaxReviewRounds \in Nat /\ HandBacks \in Nat /\ MaxToolSteps \in Nat
        /\ MaxReviewRounds > 0 => HandBacks = MaxReviewRounds - 1
    BY BoundsAssumption DEF HandBacks
  <2>3. /\ Count(log[r], "review.completed") <= reviews[r]
        /\ Inferences(r) <= 1 + MaxToolSteps + HandBacks
        /\ Inferences(r) <= rounds[r] + reviews[r] + 1 /\ rounds[r] <= MaxToolSteps
    BY <1>4 DEF Acts, LoopOf
  <2>4. /\ Count(log'[r], "review.completed") <= reviews'[r] /\ reviews'[r] <= MaxReviewRounds
        /\ Inferences(r)' <= 1 + MaxToolSteps + HandBacks
        /\ Inferences(r)' <= rounds'[r] + reviews'[r] /\ rounds'[r] <= MaxToolSteps
    BY <1>0, <1>2, <2>1, <2>2, <2>3
  <2>5. step = "compile" => reviews'[r] <= HandBacks
    BY <1>0, <1>1, <1>2, <2>2
  <2> QED
    BY <1>4, <2>4, <2>5 DEF LoopOf, Before
<1>7. NodesOf(r)'
  <2>1. /\ Validated(log'[r]) /\ Len(log'[r]) = Len(log[r]) + 1
        /\ log'[r][Len(log[r]) + 1] = e
    BY <1>0, <1>1, <1>4, AppendedEvent DEF Acts, NodesOf
  <2>2. log'[r][Len(log'[r])].type = "review.completed"
    BY <1>1, <2>1
  <2> QED
    BY <2>1, <2>2 DEF NodesOf
<1> QED
  BY <1>4, <1>5, <1>6, <1>7 DEF Acts

LEMMA RememberActs ==
    ASSUME IInv, NEW r \in Runs, Acts(r), Remember(r)
    PROVE  Acts(r)' /\ \A s \in Runs \ {r} : QuietStep(s)
PROOF
<1>1. PICK m \in Seq(Event) :
         /\ \A i \in 1 .. Len(m) : m[i].type = "dag.node_created"
         /\ Advance(r, "remember", m, "complete")
  <2>1. PICK n \in 0 .. MaxEmissions : Advance(r, "remember", Nodes(n), "complete")
    BY DEF Remember
  <2>2. n \in Nat
    BY BoundsAssumption
  <2> QED
    BY <2>1, <2>2, NodesAreNodes
<1>2. UNCHANGED state /\ \A s \in Runs : Kept(s)
  BY DEF Remember, Kept, state
<1>3. /\ pc[r] = "remember" /\ pc'[r] = "complete" /\ log'[r] = log[r] \o m
      /\ status[r] = "running"
      /\ \A s \in Runs \ {r} : QuietStep(s)
  BY <1>1, <1>2, AdvanceOthers
<1>4. /\ log[r] \in Seq(Event) /\ Len(log[r]) > 0
      /\ log[r][Len(log[r])].type = "review.completed"
  BY <1>3 DEF IInv, TypeOK, HistoryOf, Acts, NodesOf
<1>5. Without(m, ToolEvents) /\ Without(m, {"inference.started"}) /\ Without(m, {"review.completed"})
  BY <1>1 DEF Without, ToolEvents
<1>6. CallsOf(r)'
  <2>1. Permitted(log[r] \o m)
    BY <1>4, <1>5, PermittedAppend DEF Acts, CallsOf
  <2>2. Numbered(log[r] \o m, nextCall[r])
    BY <1>4, <1>5, Concatenated DEF Numbered, Without, Acts, CallsOf
  <2> QED
    BY <1>2, <1>3, <2>1, <2>2 DEF CallsOf, Kept
<1>7. LoopOf(r)'
  <2>1. /\ Count(log'[r], "inference.started") = Count(log[r], "inference.started")
        /\ Count(log'[r], "review.completed") = Count(log[r], "review.completed")
    BY <1>3, <1>4, <1>5, CountAppend
  <2>2. UNCHANGED <<rounds[r], reviews[r]>>
    BY <1>2 DEF Kept
  <2> QED
    BY <1>3, <2>1, <2>2 DEF Acts, LoopOf, Inferences, Before
<1>8. NodesOf(r)'
  <2>1. Validated(log[r] \o m)
    BY <1>1, <1>4, ValidatedTail DEF Acts, NodesOf
  <2> QED
    BY <1>3, <2>1 DEF NodesOf
<1> QED
  BY <1>3, <1>6, <1>7, <1>8 DEF Acts

(* Starts, stops, crashes and recoveries. *)
LEMMA StartQuiet ==
    ASSUME IInv, NEW r \in Runs, NEW p \in Projects, NEW q \in Processes, Start(r, p, q)
    PROVE  \A s \in Runs : QuietStep(s)
PROOF
<1> SUFFICES ASSUME NEW s \in Runs PROVE QuietStep(s)
  OBVIOUS
<1>1. PICK m : m = <<Ev("run.started"), Ev("message.recorded"), Ev("context.carried")>>
  OBVIOUS
<1>2. m \in Seq(Event) /\ Quiet(m)
  BY <1>1 DEF Ev, Event, EventTypes, Quiet, Without, ToolEvents
<1>3. /\ r \in DOMAIN pc /\ r \in DOMAIN log /\ pc[r] = "idle" /\ log[r] = <<>>
      /\ pc' = [pc EXCEPT ![r] = "started"] /\ log' = [log EXCEPT ![r] = m]
      /\ status' = [status EXCEPT ![r] = "running"] /\ Kept(s)
  BY <1>1 DEF IInv, TypeOK, HistoryOf, ExecutionOf, Start, Goto, Kept, state
<1>4. CASE s = r
  <2>1. log'[s] = log[s] \o m
    BY <1>2, <1>3, <1>4
  <2> QED
    BY <1>2, <1>3, <1>4, <2>1 DEF QuietStep, Moves, Before
<1>5. CASE s # r
  <2>1. log'[s] = log[s] /\ pc'[s] = pc[s] /\ status'[s] = status[s]
    BY <1>3, <1>5 DEF IInv, TypeOK
  <2> QED
    BY <1>3, <2>1, OtherRun
<1> QED
  BY <1>4, <1>5

LEMMA ProcessQuiet ==
    ASSUME IInv, NEW q \in Processes, Crash(q) \/ Restart(q) \/ Recover(q)
    PROVE  \A s \in Runs : QuietStep(s)
PROOF
<1> SUFFICES ASSUME NEW s \in Runs PROVE QuietStep(s)
  OBVIOUS
<1>1. Kept(s) /\ log[s] \in Seq(Event)
  BY DEF Crash, Restart, Recover, Kept, state, IInv, TypeOK
<1>2. CASE Crash(q)
  <2>1. /\ log'[s] = log[s] /\ status'[s] = status[s]
        /\ pc'[s] = pc[s] \/ pc'[s] = "ended"
    BY <1>2 DEF Crash, tables, IInv, TypeOK
  <2> QED
    BY <1>1, <2>1, NothingIsQuiet DEF QuietStep, Moves
<1>3. CASE Restart(q)
  BY <1>1, <1>3, OtherRun DEF Restart, tables
<1>4. CASE Recover(q)
  <2>1. CASE s \in Stale(q)
    <3>1. PICK m : m = <<Ev("run.failed")>>
      OBVIOUS
    <3>2. m \in Seq(Event) /\ Quiet(m)
      BY <3>1, ActsEvents
    <3>3. Ev("run.failed") \in Event
      BY DEF Ev, Event, EventTypes
    <3>4. log'[s] = Append(log[s], Ev("run.failed")) /\ status'[s] = "failed" /\ pc'[s] = pc[s]
      BY <1>4, <2>1 DEF Recover
    <3>5. log'[s] = log[s] \o m
      BY <1>1, <3>1, <3>3, <3>4
    <3> QED
      BY <1>1, <3>2, <3>4, <3>5 DEF QuietStep, Moves
  <2>2. CASE s \notin Stale(q)
    BY <1>1, <1>4, <2>2, OtherRun DEF Recover
  <2> QED
    BY <2>1, <2>2
<1> QED
  BY <1>2, <1>3, <1>4

LEMMA NextActs ==
    ASSUME IInv, \A s \in Runs : Acts(s) /\ EvidenceOf(s), [Next]_vars
    PROVE  \A s \in Runs : Acts(s)'
PROOF
<1>1. ASSUME NEW s \in Runs, QuietStep(s) PROVE Acts(s)'
  BY <1>1, QuietActs DEF Acts
<1>2. ASSUME NEW r \in Runs, Acts(r)', \A s \in Runs \ {r} : QuietStep(s)
      PROVE  \A s \in Runs : Acts(s)'
  BY <1>1, <1>2
<1>3. ASSUME NEW r \in Runs, NEW p \in Projects, NEW q \in Processes, Start(r, p, q)
      PROVE  \A s \in Runs : Acts(s)'
  BY <1>1, <1>3, StartQuiet
<1>4. ASSUME NEW r \in Runs, Step(r) PROVE \A s \in Runs : Acts(s)'
  <2>1. CASE \/ BeginFinish(r) \/ RequestJev(r) \/ JevAnswers(r) \/ FallbackAnswers(r)
             \/ Everything(r) \/ Compile(r) \/ InferAnswers(r)
    BY <1>1, <2>1, AskingQuiet
  <2>2. CASE Complete(r) \/ FailRun(r) \/ StoreFails(r) \/ SkipReview(r)
    BY <1>1, <2>2, EndingQuiet
  <2>3. CASE Infer(r)
    BY <1>2, <2>3, InferActs
  <2>4. CASE Respond(r)
    BY <1>1, <1>2, <2>4, RespondActs
  <2>5. CASE RequestTool(r)
    BY <1>2, <2>5, RequestToolActs
  <2>6. CASE DecideTool(r)
    BY <1>2, <2>6, DecideToolActs
  <2>7. CASE EndCall(r)
    BY <1>2, <2>7, EndCallActs
  <2>8. CASE Review(r)
    BY <1>2, <2>8, ReviewActs
  <2>9. CASE Remember(r)
    BY <1>2, <2>9, RememberActs
  <2> QED
    BY <1>4, <2>1, <2>2, <2>3, <2>4, <2>5, <2>6, <2>7, <2>8, <2>9 DEF Step
<1>5. ASSUME NEW r \in Runs, Stop(r) \/ Stopped(r) PROVE \A s \in Runs : Acts(s)'
  BY <1>1, <1>5, FailQuiet, OtherRun DEF Stop, Stopped, tables, state, Kept
<1>6. ASSUME NEW q \in Processes, Crash(q) \/ Restart(q) \/ Recover(q)
      PROVE  \A s \in Runs : Acts(s)'
  BY <1>1, <1>6, ProcessQuiet
<1>7. CASE UNCHANGED vars
  BY <1>1, <1>7, OtherRun DEF vars, Kept
<1> QED
  BY <1>3, <1>4, <1>5, <1>6, <1>7 DEF Next

--------------------------------------------------------------------------------
(* Evidence *)

(* A failure's evidence: rejected answers, the last one its code speaks of. *)
Fitting(c, evs) ==
    /\ \A i \in 1 .. Len(evs) : evs[i].type \in {"jev.rejected", "response.rejected"}
    /\ Shown(c, evs, Len(evs))

FailsFittingly(r) == \E c \in ErrorCodes, evs \in Seq(Event) : Fitting(c, evs) /\ Fail(r, c, evs)

LEMMA FittingEvidence ==
    /\ \A c \in ErrorCodes : c \notin {"response_invalid", "emission_rejected", "jev_invalid_output"}
          => Fitting(c, <<>>)
    /\ \A c \in {"response_invalid", "emission_rejected"} : Fitting(c, <<Ev("response.rejected")>>)
    /\ \A b \in BOOLEAN : Fitting(JevError(b), Rejection(b))
BY DEF Fitting, Shown, Ev, JevError, Rejection

(* A step of an execution that does not fail fittingly does not fail. *)
LEMMA StepFails ==
    ASSUME IInv, NEW r \in Runs, Step(r) \/ Stopped(r), ~FailsFittingly(r)
    PROVE  failure' = failure /\ pc'[r] # "failing" /\ \A s \in Runs \ {r} : pc'[s] = pc[s]
PROOF
<1>0. pc \in [Runs -> LivePcs \cup {"idle", "ended"}]
  BY DEF IInv, TypeOK
<1>1. ASSUME NEW from, NEW evs, NEW step, Advance(r, from, evs, step), step # "failing"
      PROVE  failure' = failure /\ pc'[r] # "failing" /\ \A s \in Runs \ {r} : pc'[s] = pc[s]
  BY <1>0, <1>1 DEF Advance, Goto
<1>2. ASSUME NEW step, Goto(r, step), failure' = failure, step # "failing"
      PROVE  failure' = failure /\ pc'[r] # "failing" /\ \A s \in Runs \ {r} : pc'[s] = pc[s]
  BY <1>0, <1>2 DEF Goto
<1>3. ASSUME NEW c \in ErrorCodes, NEW evs \in Seq(Event), Fail(r, c, evs)
      PROVE  ~Fitting(c, evs)
  BY <1>3 DEF FailsFittingly
<1>4. \A c \in {"provider_failed", "provider_timeout", "ir_invalid", "internal", "cancelled"} :
         ~Fail(r, c, <<>>)
  BY <1>3, FailureCodes, FittingEvidence
<1>5. \A c \in {"response_invalid", "emission_rejected"} : ~Fail(r, c, <<Ev("response.rejected")>>)
  BY <1>3, FailureCodes, StepEvents, FittingEvidence
<1>6. \A b \in BOOLEAN : ~Fail(r, JevError(b), Rejection(b))
  BY <1>3, FailureCodes, RejectionSteady, FittingEvidence
<1>7. CASE BeginFinish(r) \/ RequestJev(r) \/ JevAnswers(r) \/ FallbackAnswers(r) \/ Everything(r)
  BY <1>1, <1>2, <1>4, <1>6, <1>7
     DEF BeginFinish, RequestJev, JevAnswers, FallbackAnswers, Everything
<1>8. CASE Compile(r) \/ Infer(r) \/ InferAnswers(r)
  BY <1>1, <1>2, <1>4, <1>8 DEF Compile, Infer, InferAnswers
<1>9. CASE Respond(r)
  <2>1. PICK evs, step : Advance(r, "respond", evs, step) /\ step \in {"review", "request"}
    BY <1>5, <1>9 DEF Respond
  <2> QED
    BY <1>1, <2>1
<1>10. CASE RequestTool(r)
  BY <1>1, <1>10 DEF RequestTool
<1>11. CASE DecideTool(r)
  <2>1. PICK evs, step : Advance(r, "gate", evs, step)
                         /\ (step = "calling" \/ step = AfterCall(r, calls[r]))
    BY <1>11 DEF DecideTool
  <2>2. step # "failing"
    BY <2>1 DEF AfterCall
  <2> QED
    BY <1>1, <2>1, <2>2
<1>12. CASE EndCall(r)
  <2>1. AfterCall(r, calls[r]) # "failing"
    BY DEF AfterCall
  <2> QED
    BY <1>1, <1>12, <2>1 DEF EndCall
<1>13. CASE Review(r)
  <2>1. PICK evs, step : Advance(r, "review", evs, step)
                         /\ step \in {"complete", "compile", "remember"}
    BY <1>13 DEF Review
  <2> QED
    BY <1>1, <2>1
<1>14. CASE SkipReview(r) \/ Remember(r) \/ Complete(r) \/ FailRun(r) \/ StoreFails(r) \/ Stopped(r)
  BY <1>1, <1>2, <1>4, <1>14 DEF SkipReview, Remember, Complete, FailRun, StoreFails, Stopped
<1> QED
  BY <1>7, <1>8, <1>9, <1>10, <1>11, <1>12, <1>13, <1>14 DEF Step

(* So a step leaves the failure a run is about to record fitting, *)
LEMMA NextFailure ==
    ASSUME IInv, NEW s \in Runs, EvidenceOf(s), [Next]_vars
    PROVE  /\ \A i \in 1 .. Len(failure'[s].evidence) :
                 failure'[s].evidence[i].type \in {"jev.rejected", "response.rejected"}
           /\ pc'[s] = "failing" =>
                 Shown(failure'[s].code, failure'[s].evidence, Len(failure'[s].evidence))
PROOF
<1>0. /\ pc \in [Runs -> LivePcs \cup {"idle", "ended"}]
      /\ DOMAIN failure = Runs
  BY DEF IInv, TypeOK
<1>1. ASSUME failure'[s] = failure[s], pc'[s] = "failing" => pc[s] = "failing"
      PROVE  /\ \A i \in 1 .. Len(failure'[s].evidence) :
                 failure'[s].evidence[i].type \in {"jev.rejected", "response.rejected"}
             /\ pc'[s] = "failing" =>
                 Shown(failure'[s].code, failure'[s].evidence, Len(failure'[s].evidence))
  BY <1>1 DEF EvidenceOf
<1>2. ASSUME NEW r \in Runs, Step(r) \/ Stopped(r)
      PROVE  /\ \A i \in 1 .. Len(failure'[s].evidence) :
                 failure'[s].evidence[i].type \in {"jev.rejected", "response.rejected"}
             /\ pc'[s] = "failing" =>
                 Shown(failure'[s].code, failure'[s].evidence, Len(failure'[s].evidence))
  <2>1. CASE ~FailsFittingly(r)
    BY <1>1, <1>2, <2>1, StepFails
  <2>2. CASE FailsFittingly(r)
    <3>1. PICK c, evs : Fitting(c, evs) /\ Fail(r, c, evs)
      BY <2>2 DEF FailsFittingly
    <3>2. pc' = [pc EXCEPT ![r] = "failing"] /\ failure' = [failure EXCEPT ![r] = Failure(c, evs)]
      BY <3>1 DEF Fail, Goto
    <3>3. CASE s = r
      <4>1. failure'[s].code = c /\ failure'[s].evidence = evs
        BY <1>0, <3>2, <3>3 DEF Failure
      <4> QED
        BY <3>1, <4>1 DEF Fitting
    <3>4. CASE s # r
      BY <1>0, <1>1, <3>2, <3>4
    <3> QED
      BY <3>3, <3>4
  <2> QED
    BY <2>1, <2>2
<1>3. ASSUME NEW r \in Runs, NEW p \in Projects, NEW q \in Processes, Start(r, p, q)
      PROVE  failure'[s] = failure[s] /\ (pc'[s] = "failing" => pc[s] = "failing")
  BY <1>0, <1>3 DEF Start, Goto
<1>4. ASSUME NEW r \in Runs, Stop(r)
      PROVE  failure'[s] = failure[s] /\ (pc'[s] = "failing" => pc[s] = "failing")
  BY <1>4 DEF Stop
<1>5. ASSUME NEW q \in Processes, Crash(q) \/ Restart(q) \/ Recover(q)
      PROVE  failure'[s] = failure[s] /\ (pc'[s] = "failing" => pc[s] = "failing")
  BY <1>0, <1>5 DEF Crash, Restart, Recover
<1>6. CASE UNCHANGED vars
  BY <1>1, <1>6 DEF vars
<1> QED
  BY <1>1, <1>2, <1>3, <1>4, <1>5, <1>6 DEF Next

LEMMA BeforeLast ==
    ASSUME NEW l \in Seq(Event), NEW m \in Seq(Event), NEW e \in Event
    PROVE  /\ Len(l \o (m \o <<e>>)) - 1 = Len(l) + Len(m)
           /\ Len(l) \in Nat /\ Len(m) \in Nat
           /\ Len(m) > 0 => (l \o (m \o <<e>>))[Len(l) + Len(m)] = m[Len(m)]
OBVIOUS

(* Only finish records a code that owes evidence. *)
LEMMA WhoFails ==
    ASSUME IInv, NEW s \in Runs, [Next]_vars, errorCode'[s] # errorCode[s], ~FailRun(s)
    PROVE  errorCode'[s] \in {"none", "interrupted"}
PROOF
<1>0. DOMAIN errorCode = Runs
  BY DEF IInv, TypeOK
<1>1. ASSUME NEW r \in Runs, FailRun(r) PROVE errorCode'[s] = errorCode[s]
  BY <1>0, <1>1 DEF FailRun, RecordEnd
<1>2. ASSUME NEW r \in Runs, Step(r), ~FailRun(r)
      PROVE  errorCode'[s] \in {errorCode[s], "none"}
  BY <1>0, <1>2
     DEF Step, BeginFinish, RequestJev, JevAnswers, FallbackAnswers, Everything, Compile,
         Infer, InferAnswers, Respond, RequestTool, DecideTool, EndCall, SkipReview, Review,
         Remember, Complete, StoreFails, Advance, Record, RecordEnd, Fail, tables
<1>3. ASSUME NEW r \in Runs, NEW p \in Projects, NEW q \in Processes, Start(r, p, q)
      PROVE  errorCode'[s] = errorCode[s]
  BY <1>3 DEF Start
<1>4. ASSUME NEW r \in Runs, Stop(r) \/ Stopped(r) PROVE errorCode'[s] = errorCode[s]
  BY <1>4 DEF Stop, Stopped, Fail, tables
<1>5. ASSUME NEW q \in Processes, Crash(q) \/ Restart(q) \/ Recover(q)
      PROVE  errorCode'[s] \in {errorCode[s], "interrupted"}
  BY <1>5 DEF Crash, Restart, Recover, tables
<1>6. CASE UNCHANGED vars
  BY <1>6 DEF vars
<1> QED
  BY <1>1, <1>2, <1>3, <1>4, <1>5, <1>6 DEF Next

(* and its error code shown by what it recorded before. *)
LEMMA NextEvidence ==
    ASSUME IInv, NEW s \in Runs, EvidenceOf(s), [Next]_vars
    PROVE  EvidenceOf(s)'
PROOF
<1>1. SUFFICES Shown(errorCode'[s], log'[s], Len(log'[s]) - 1)
  BY NextFailure DEF EvidenceOf
<1>2. CASE errorCode[s] # "none"
  <2>1. Unaltered(s)
    BY <1>2, NextKeeps DEF IInv, HistoryOf, Keeps
  <2> QED
    BY <2>1 DEF EvidenceOf, Unaltered
<1>3. CASE errorCode'[s] \in {"none", "interrupted"}
  BY <1>3 DEF Shown
<1>4. CASE FailRun(s)
  <2>1. /\ log[s] \in Seq(Event) /\ failure[s].evidence \in Seq(Event)
        /\ s \in DOMAIN log /\ s \in DOMAIN errorCode
    BY DEF IInv, TypeOK
  <2>2. /\ log'[s] = log[s] \o (failure[s].evidence \o <<Ev("run.failed")>>)
        /\ errorCode'[s] = failure[s].code
        /\ Shown(failure[s].code, failure[s].evidence, Len(failure[s].evidence))
    BY <1>4, <2>1 DEF FailRun, RecordEnd, EvidenceOf
  <2>3. Ev("run.failed") \in Event
    BY DEF Ev, Event, EventTypes
  <2>4. PICK m \in Seq(Event) : m = failure[s].evidence
    BY <2>1
  <2>5. /\ Len(log'[s]) - 1 = Len(log[s]) + Len(m)
        /\ Len(log[s]) \in Nat /\ Len(m) \in Nat
        /\ Len(m) > 0 => log'[s][Len(log[s]) + Len(m)] = m[Len(m)]
    BY <2>1, <2>2, <2>3, <2>4, BeforeLast
  <2>6. Shown(failure[s].code, m, Len(m))
    BY <2>2, <2>4
  <2>7. PICK n \in Nat, k \in {log'[s]} : n = Len(log[s]) + Len(m)
    BY <2>5
  <2>8. Len(k) - 1 = n /\ (Len(m) > 0 => n > 0 /\ k[n] = m[Len(m)])
    BY <2>5, <2>7
  <2>9. Shown(failure[s].code, k, n)
    BY <2>6, <2>8 DEF Shown
  <2> QED
    BY <2>2, <2>7, <2>8, <2>9
<1> QED
  BY <1>2, <1>3, <1>4, WhoFails

--------------------------------------------------------------------------------
(* What follows *)

LEMMA EmptyHistory ==
    Permitted(<<>>) /\ Validated(<<>>) /\ \A n : Numbered(<<>>, n) /\ \A t : Count(<<>>, t) = 0
PROOF
<1>1. \A t : {i \in 1 .. Len(<<>>) : <<>>[i].type = t} = {}
  OBVIOUS
<1>2. \A t : Count(<<>>, t) = 0
  BY <1>1, FS_EmptySet DEF Count
<1> QED
  BY <1>2 DEF Permitted, Validated, Numbered

LEMMA ActsHold == Spec => []AInv
PROOF
<1>1. Init => AInv
  <2> SUFFICES ASSUME Init, NEW r \in Runs PROVE IInv /\ Acts(r) /\ EvidenceOf(r)
    BY InitIInv DEF AInv
  <2>1. /\ log[r] = <<>> /\ pc[r] = "idle" /\ rounds[r] = 0 /\ reviews[r] = 0
        /\ errorCode[r] = "none" /\ failure[r].evidence = <<>>
    BY DEF Init, NoFailure
  <2>2. CallsOf(r)
    BY <2>1, EmptyHistory DEF CallsOf
  <2>3. LoopOf(r)
    BY <2>1, EmptyHistory, BoundsAssumption DEF LoopOf, Inferences, HandBacks, Before
  <2>4. NodesOf(r)
    BY <2>1, EmptyHistory DEF NodesOf
  <2>5. EvidenceOf(r)
    BY <2>1 DEF EvidenceOf, Shown
  <2> QED
    BY <2>2, <2>3, <2>4, <2>5, InitIInv DEF Acts
<1>2. AInv /\ [Next]_vars => AInv'
  BY NextIInv, NextActs, NextEvidence DEF AInv
<1> QED
  BY <1>1, <1>2, PTL DEF Spec

(* Whatever the provider, the tools, the gate and the reviewer answer, and whoever stops
   or recovers the run: no call runs that was not requested and then allowed, the loops
   stay within the limits of execute, and every node follows its validation. *)
THEOREM ActsAlwaysAuthorised == Spec => []ActsAreAuthorised
PROOF
<1>1. AInv => CallsArePermitted
  <2> SUFFICES ASSUME NEW r \in Runs, Permitted(log[r]), log[r] \in Seq(Event),
                      NEW i \in 1 .. Len(log[r])
               PROVE  LET e == log[r][i]
                          Earlier(t) == {j \in 1 .. i - 1 : log[r][j].type = t /\ log[r][j].call = e.call}
                      IN /\ e.type = "tool.completed" =>
                              /\ Earlier("tool.completed") = {}
                              /\ \E j \in Earlier("tool.decided") : log[r][j].ok
                         /\ e.type = "tool.decided" =>
                              Earlier("tool.decided") = {} /\ Earlier("tool.requested") # {}
                         /\ e.type = "tool.requested" => Earlier("tool.requested") = {}
    BY DEF CallsArePermitted, AInv, IInv, TypeOK, Acts, CallsOf
  <2> QED
    BY DEF Permitted
<1>2. AInv => LoopsAreBounded
  <2> SUFFICES ASSUME AInv, NEW r \in Runs
               PROVE  /\ Count(log[r], "inference.started") <= 1 + MaxToolSteps + HandBacks
                      /\ Count(log[r], "review.completed") <= MaxReviewRounds
    BY DEF LoopsAreBounded, HandBacks
  <2>1. /\ Count(log[r], "review.completed") \in Nat /\ reviews[r] \in Nat
        /\ MaxReviewRounds \in Nat
    BY CountIsNatural, BoundsAssumption DEF AInv, IInv, TypeOK
  <2> QED
    BY <2>1 DEF AInv, Acts, LoopOf, Inferences
<1>3. AInv => NodesFollowValidation
  BY DEF AInv, Acts, NodesOf, Validated, NodesFollowValidation
<1> QED
  BY <1>1, <1>2, <1>3, ActsHold, PTL DEF ActsAreAuthorised

(* A run that failed over a rejected answer of Jev or of the model shows the rejection
   right before its failure, in every history (finish, classify_context, respond). *)
THEOREM EvidenceAlwaysShown == Spec => []FailureHasEvidence
PROOF
<1>1. AInv => FailureHasEvidence
  <2> SUFFICES ASSUME NEW r \in Runs, log[r] \in Seq(Event), EvidenceOf(r)
               PROVE  LET n == Len(log[r]) IN
                      /\ errorCode[r] \in {"response_invalid", "emission_rejected"} =>
                            n > 1 /\ log[r][n - 1].type = "response.rejected"
                      /\ errorCode[r] = "jev_invalid_output" =>
                            n > 1 /\ log[r][n - 1].type = "jev.rejected"
    BY DEF FailureHasEvidence, AInv, IInv, TypeOK
  <2> QED
    BY DEF EvidenceOf, Shown
<1> QED
  BY <1>1, ActsHold, PTL

--------------------------------------------------------------------------------
(* The promise of RunPromise: the phase is the status, and the open call of a history is
   the one its execution is at. *)

CallAfter(e) ==
    IF e.type = "tool.completed" THEN "none"
    ELSE IF e.type = "tool.requested" THEN "requested"
    ELSE IF e.ok THEN "allowed" ELSE "none"

LastTool(l, i) ==
    /\ i \in 1 .. Len(l) /\ l[i].type \in ToolEvents
    /\ \A j \in 1 .. Len(l) : l[j].type \in ToolEvents => j <= i

(* Every history is so; that some index is the last needs no induction when the
   invariant carries it. *)
HasLast(l) == Without(l, ToolEvents) \/ \E i \in 1 .. Len(l) : LastTool(l, i)

OpenCall(r) ==
    IF pc[r] = "gate" THEN "requested" ELSE IF pc[r] = "calling" THEN "allowed" ELSE "none"

Told(r) ==
    /\ HasLast(log[r])
    /\ pc[r] \notin {"failing", "ended"} => CallOf(log[r]) = OpenCall(r)

TInv == AInv /\ \A r \in Runs : Told(r)

LEMMA NoCall == ASSUME NEW l, Without(l, ToolEvents) PROVE CallOf(l) = "none"
PROOF
<1>1. {i \in 1 .. Len(l) : l[i].type \in {"tool.requested", "tool.decided", "tool.completed"}} = {}
  BY DEF Without, ToolEvents
<1> QED
  BY <1>1 DEF CallOf

LEMMA LastCall ==
    ASSUME NEW l \in Seq(Event), NEW i, LastTool(l, i)
    PROVE  CallOf(l) = CallAfter(l[i])
PROOF
<1> DEFINE tools == {j \in 1 .. Len(l) : l[j].type \in
                       {"tool.requested", "tool.decided", "tool.completed"}}
<1>1. i \in tools /\ \A j \in tools : j <= i
  BY DEF LastTool, ToolEvents
<1>2. \A k \in tools : (\A j \in tools : j <= k) => k = i
  BY <1>1
<1>3. (CHOOSE k \in tools : \A j \in tools : j <= k) = i
  BY <1>1, <1>2
<1>4. tools # {}
  BY <1>1
<1> QED
  BY <1>3, <1>4 DEF CallOf, CallAfter

LEMMA CallKept ==
    ASSUME NEW l \in Seq(Event), NEW m \in Seq(Event), HasLast(l), Without(m, ToolEvents)
    PROVE  HasLast(l \o m) /\ CallOf(l \o m) = CallOf(l)
PROOF
<1>1. PICK k \in Seq(Event) : k = l \o m
  BY Concatenated
<1>2. /\ \A i \in 1 .. Len(l) : i \in 1 .. Len(k) /\ k[i] = l[i]
      /\ \A i \in 1 .. Len(k) : k[i].type \in ToolEvents => i \in 1 .. Len(l)
  BY <1>1, Concatenated DEF Without
<1>3. CASE Without(l, ToolEvents)
  <2>1. Without(k, ToolEvents)
    BY <1>2, <1>3 DEF Without
  <2> QED
    BY <1>1, <1>3, <2>1, NoCall DEF HasLast
<1>4. CASE ~Without(l, ToolEvents)
  <2>1. PICK i \in 1 .. Len(l) : LastTool(l, i)
    BY <1>4 DEF HasLast
  <2>2. LastTool(k, i) /\ k[i] = l[i] /\ i \in 1 .. Len(k)
    BY <1>2, <2>1 DEF LastTool
  <2>3. CallOf(l) = CallAfter(l[i]) /\ CallOf(k) = CallAfter(k[i])
    BY <2>1, <2>2, LastCall
  <2> QED
    BY <1>1, <2>2, <2>3 DEF HasLast
<1> QED
  BY <1>3, <1>4

LEMMA CallNext ==
    ASSUME NEW l \in Seq(Event), NEW e \in Event, e.type \in ToolEvents
    PROVE  HasLast(l \o <<e>>) /\ CallOf(l \o <<e>>) = CallAfter(e)
PROOF
<1>1. PICK k \in Seq(Event) : k = l \o <<e>>
  BY AppendedEvent
<1>2. Len(k) = Len(l) + 1 /\ k[Len(l) + 1] = e /\ Len(l) \in Nat
  BY <1>1, AppendedEvent
<1>3. LastTool(k, Len(l) + 1)
  BY <1>2 DEF LastTool
<1>4. CallOf(k) = CallAfter(k[Len(l) + 1])
  BY <1>3, LastCall
<1>5. HasLast(k)
  BY <1>2, <1>3 DEF HasLast
<1> QED
  BY <1>1, <1>2, <1>4, <1>5

(* Only the steps of run_tool change the open call of a history. *)
Hush(r) ==
    /\ \E m \in Seq(Event) : Without(m, ToolEvents) /\ log'[r] = log[r] \o m
    /\ pc'[r] \notin {"failing", "ended"} => pc[r] \notin {"failing", "ended"} /\ OpenCall(r)' = OpenCall(r)

LEMMA QuietIsHush == ASSUME NEW r \in Runs, QuietStep(r) PROVE Hush(r)
PROOF
<1>1. \E m \in Seq(Event) : Without(m, ToolEvents) /\ log'[r] = log[r] \o m
  BY DEF QuietStep, Quiet, Without
<1>2. pc'[r] \notin {"failing", "ended"} => pc[r] \notin {"failing", "ended"} /\ OpenCall(r)' = OpenCall(r)
  BY DEF QuietStep, Moves, OpenCall, Before
<1> QED
  BY <1>1, <1>2 DEF Hush

LEMMA HushTold ==
    ASSUME IInv, NEW r \in Runs, Told(r), Hush(r)
    PROVE  Told(r)' /\ CallOf(log'[r]) = CallOf(log[r])
PROOF
<1>1. PICK m \in Seq(Event) : Without(m, ToolEvents) /\ log'[r] = log[r] \o m
  BY DEF Hush
<1>2. log[r] \in Seq(Event)
  BY DEF IInv, TypeOK
<1>3. HasLast(log'[r]) /\ CallOf(log'[r]) = CallOf(log[r])
  BY <1>1, <1>2, CallKept DEF Told
<1> QED
  BY <1>3 DEF Told, Hush

LEMMA AdvanceHush ==
    ASSUME IInv, NEW r \in Runs, NEW from, NEW evs \in Seq(Event), NEW step,
           from \notin {"failing", "ended", "gate", "calling"}, step \notin {"gate", "calling"},
           Advance(r, from, evs, step), \A s \in Runs \ {r} : Kept(s),
           Without(evs, ToolEvents)
    PROVE  \A s \in Runs : Hush(s)
PROOF
<1>1. /\ pc[r] = from /\ pc'[r] = step /\ log'[r] = log[r] \o evs
      /\ \A s \in Runs \ {r} : QuietStep(s)
  BY AdvanceOthers
<1>2. Hush(r)
  BY <1>1 DEF Hush, OpenCall
<1> QED
  BY <1>1, <1>2, QuietIsHush

LEMMA LoudIsHush ==
    ASSUME IInv, NEW r \in Runs, Infer(r) \/ Respond(r) \/ Review(r) \/ Remember(r)
    PROVE  \A s \in Runs : Hush(s)
PROOF
<1>0. /\ \A t \in {"inference.started", "response.validated"} :
            <<Ev(t)>> \in Seq(Event) /\ Without(<<Ev(t)>>, ToolEvents)
      /\ \A b \in BOOLEAN : <<Reviewed(b)>> \in Seq(Event) /\ Without(<<Reviewed(b)>>, ToolEvents)
  BY DEF Ev, Reviewed, Event, EventTypes, Without, ToolEvents
<1>1. ASSUME NEW n \in Nat PROVE Nodes(n) \in Seq(Event) /\ Without(Nodes(n), ToolEvents)
  BY NodesAreNodes DEF Without, ToolEvents
<1>2. ASSUME NEW from \in {"infer", "respond", "review", "remember"},
             NEW step \in {"inferring", "review", "request", "complete", "compile", "remember"},
             NEW evs \in Seq(Event), Without(evs, ToolEvents), Advance(r, from, evs, step),
             \A s \in Runs \ {r} : Kept(s)
      PROVE  \A s \in Runs : Hush(s)
  BY <1>2, AdvanceHush
<1>3. CASE Infer(r)
  BY <1>0, <1>2, <1>3 DEF Infer, Kept, state
<1>4. CASE Respond(r)
  <2>1. CASE \A s \in Runs : QuietStep(s)
    BY <2>1, QuietIsHush
  <2>2. CASE ~ \A s \in Runs : QuietStep(s)
    <3>1. PICK n \in 0 .. MaxEmissions, step \in {"review", "request"} :
             Advance(r, "respond", <<Ev("response.validated")>> \o Nodes(n), step)
      BY <1>4, <2>2, FailQuiet DEF Respond
    <3>2. \A s \in Runs \ {r} : Kept(s)
      BY <1>4, <2>2, FailQuiet DEF Respond, Kept, IInv, TypeOK
    <3>3. PICK l \in Seq(Event), m \in Seq(Event) :
             /\ l = <<Ev("response.validated")>> /\ m = Nodes(n)
             /\ Without(l, ToolEvents) /\ Without(m, ToolEvents)
      <4>1. n \in Nat
        BY BoundsAssumption
      <4> QED
        BY <1>0, <1>1, <4>1
    <3>4. l \o m \in Seq(Event) /\ Without(l \o m, ToolEvents)
      BY <3>3, Concatenated DEF Without
    <3> QED
      BY <1>2, <3>1, <3>2, <3>3, <3>4
  <2> QED
    BY <2>1, <2>2
<1>5. CASE Review(r)
  <2>1. PICK b \in BOOLEAN, step \in {"complete", "compile", "remember"} :
           Advance(r, "review", <<Reviewed(b)>>, step)
    BY <1>5 DEF Review
  <2>2. \A s \in Runs \ {r} : Kept(s)
    BY <1>5 DEF Review, Kept, IInv, TypeOK
  <2> QED
    BY <1>0, <1>2, <2>1, <2>2
<1>6. CASE Remember(r)
  <2>1. PICK n \in 0 .. MaxEmissions : Advance(r, "remember", Nodes(n), "complete")
    BY <1>6 DEF Remember
  <2>2. n \in Nat /\ \A s \in Runs \ {r} : Kept(s)
    BY <1>6, BoundsAssumption DEF Remember, Kept, state
  <2> QED
    BY <1>1, <1>2, <2>1, <2>2
<1> QED
  BY <1>3, <1>4, <1>5, <1>6

(* A step of run_tool: it records one event e and moves the open call. *)
Turn(r, before, after) ==
    /\ status[r] = "running" /\ UNCHANGED <<status, project>>
    /\ pc[r] \notin {"failing", "ended"} /\ OpenCall(r) = before
    /\ \E e \in Event : /\ e.type \in ToolEvents /\ CallAfter(e) = after
                        /\ log' = [log EXCEPT ![r] = @ \o <<e>>]
    /\ OpenCall(r)' = after
    /\ \A s \in Runs \ {r} : QuietStep(s)

LEMMA AdvanceTurn ==
    ASSUME IInv, NEW r \in Runs, NEW e \in Event, e.type \in ToolEvents,
           NEW from \in {"request", "gate", "calling"}, NEW step,
           Advance(r, from, <<e>>, step), \A s \in Runs \ {r} : Kept(s),
           CallAfter(e) = IF step = "gate" THEN "requested"
                          ELSE IF step = "calling" THEN "allowed" ELSE "none"
    PROVE  Turn(r, IF from = "gate" THEN "requested"
                   ELSE IF from = "calling" THEN "allowed" ELSE "none", CallAfter(e))
PROOF
<1>1. <<e>> \in Seq(Event)
  OBVIOUS
<1>2. /\ pc[r] = from /\ pc'[r] = step /\ status[r] = "running"
      /\ \A s \in Runs \ {r} : QuietStep(s)
  BY <1>1, AdvanceOthers
<1>3. log' = [log EXCEPT ![r] = @ \o <<e>>] /\ UNCHANGED <<status, project>>
  BY DEF Advance, Record
<1>4. /\ OpenCall(r) = IF from = "gate" THEN "requested"
                       ELSE IF from = "calling" THEN "allowed" ELSE "none"
      /\ OpenCall(r)' = CallAfter(e) /\ pc[r] \notin {"failing", "ended"}
  BY <1>2 DEF OpenCall
<1> QED
  BY <1>2, <1>3, <1>4 DEF Turn

LEMMA ToolTurns ==
    ASSUME IInv, NEW r \in Runs
    PROVE  /\ RequestTool(r) => Turn(r, "none", "requested")
           /\ DecideTool(r) => Turn(r, "requested", "allowed") \/ Turn(r, "requested", "none")
           /\ EndCall(r) => Turn(r, "allowed", "none")
PROOF
<1>0. /\ nextCall[r] \in Nat /\ nextCall[r] - 1 \in Nat
      /\ "tool.requested" \in ToolEvents /\ "tool.decided" \in ToolEvents
      /\ "tool.completed" \in ToolEvents
  BY DEF IInv, TypeOK, ToolEvents
<1>1. ASSUME RequestTool(r) PROVE Turn(r, "none", "requested")
  <2>1. PICK e : e = CallEv("tool.requested", nextCall[r], TRUE)
    OBVIOUS
  <2>2. e \in Event /\ e.type \in ToolEvents /\ CallAfter(e) = "requested"
    BY <1>0, <2>1, CallEvIsEvent DEF CallAfter
  <2>3. /\ Advance(r, "request", <<e>>, "gate")
        /\ \A s \in Runs \ {r} : Kept(s)
    BY <1>1, <2>1 DEF RequestTool, Kept, IInv, TypeOK
  <2> QED
    BY <2>2, <2>3, AdvanceTurn
<1>2. ASSUME DecideTool(r) PROVE Turn(r, "requested", "allowed") \/ Turn(r, "requested", "none")
  <2>1. PICK b \in BOOLEAN :
           Advance(r, "gate", <<CallEv("tool.decided", nextCall[r] - 1, b)>>,
                   IF b THEN "calling" ELSE AfterCall(r, calls[r]))
    BY <1>2 DEF DecideTool
  <2>2. PICK e : e = CallEv("tool.decided", nextCall[r] - 1, b)
    OBVIOUS
  <2>3. /\ e \in Event /\ e.type \in ToolEvents /\ e.ok = b
        /\ CallAfter(e) = IF b THEN "allowed" ELSE "none"
    BY <1>0, <2>2, CallEvIsEvent DEF CallAfter
  <2>4. PICK step : step = IF b THEN "calling" ELSE AfterCall(r, calls[r])
    OBVIOUS
  <2>5. CallAfter(e) = IF step = "gate" THEN "requested"
                       ELSE IF step = "calling" THEN "allowed" ELSE "none"
    BY <2>3, <2>4 DEF AfterCall
  <2>6. Advance(r, "gate", <<e>>, step) /\ \A s \in Runs \ {r} : Kept(s)
    BY <1>2, <2>1, <2>2, <2>4 DEF DecideTool, Kept, state
  <2>7. Turn(r, "requested", CallAfter(e))
    BY <2>3, <2>5, <2>6, AdvanceTurn
  <2> QED
    BY <2>3, <2>7
<1>3. ASSUME EndCall(r) PROVE Turn(r, "allowed", "none")
  <2>1. PICK b \in BOOLEAN :
           Advance(r, "calling", <<CallEv("tool.completed", nextCall[r] - 1, b)>>,
                   AfterCall(r, calls[r]))
    BY <1>3 DEF EndCall
  <2>2. PICK e : e = CallEv("tool.completed", nextCall[r] - 1, b)
    OBVIOUS
  <2>3. e \in Event /\ e.type \in ToolEvents /\ CallAfter(e) = "none"
    BY <1>0, <2>2, CallEvIsEvent DEF CallAfter
  <2>4. PICK step : step = AfterCall(r, calls[r])
    OBVIOUS
  <2>5. step \notin {"gate", "calling"}
    BY <2>4 DEF AfterCall
  <2>6. Advance(r, "calling", <<e>>, step) /\ \A s \in Runs \ {r} : Kept(s)
    BY <1>3, <2>1, <2>2, <2>4 DEF EndCall, Kept
  <2> QED
    BY <2>3, <2>5, <2>6, AdvanceTurn
<1> QED
  BY <1>1, <1>2, <1>3

LEMMA TurnTold ==
    ASSUME IInv, NEW r \in Runs, NEW before, NEW after, Turn(r, before, after),
           \A s \in Runs : Told(s)
    PROVE  /\ \A s \in Runs : Told(s)'
           /\ CallOf(log[r]) = before /\ CallOf(log'[r]) = after
           /\ \A s \in Runs \ {r} : CallOf(log'[s]) = CallOf(log[s])
PROOF
<1>1. PICK e \in Event : /\ e.type \in ToolEvents /\ CallAfter(e) = after
                         /\ log' = [log EXCEPT ![r] = @ \o <<e>>]
  BY DEF Turn
<1>2. log[r] \in Seq(Event) /\ r \in DOMAIN log
  BY DEF IInv, TypeOK
<1>3. log'[r] = log[r] \o <<e>>
  BY <1>1, <1>2
<1>4. HasLast(log'[r]) /\ CallOf(log'[r]) = after
  BY <1>1, <1>2, <1>3, CallNext
<1>5. Told(r)' /\ CallOf(log[r]) = before
  BY <1>4 DEF Turn, Told
<1>6. \A s \in Runs \ {r} : Told(s)' /\ CallOf(log'[s]) = CallOf(log[s])
  BY QuietIsHush, HushTold DEF Turn
<1> QED
  BY <1>4, <1>5, <1>6

ToolTurn(r) ==
    \/ Turn(r, "none", "requested") \/ Turn(r, "requested", "allowed")
    \/ Turn(r, "requested", "none") \/ Turn(r, "allowed", "none")

LEMMA HushOrTurn ==
    ASSUME AInv, [Next]_vars
    PROVE  (\A s \in Runs : Hush(s)) \/ \E r \in Runs : ToolTurn(r)
PROOF
<1>0. IInv /\ \A s \in Runs : EvidenceOf(s)
  BY DEF AInv
<1>1. ASSUME NEW r \in Runs, NEW p \in Projects, NEW q \in Processes, Start(r, p, q)
      PROVE  \A s \in Runs : Hush(s)
  BY <1>0, <1>1, StartQuiet, QuietIsHush
<1>2. ASSUME NEW r \in Runs, Step(r) PROVE (\A s \in Runs : Hush(s)) \/ ToolTurn(r)
  <2>1. CASE \/ BeginFinish(r) \/ RequestJev(r) \/ JevAnswers(r) \/ FallbackAnswers(r)
             \/ Everything(r) \/ Compile(r) \/ InferAnswers(r)
    BY <1>0, <2>1, AskingQuiet, QuietIsHush
  <2>2. CASE Complete(r) \/ FailRun(r) \/ StoreFails(r) \/ SkipReview(r)
    BY <1>0, <2>2, EndingQuiet, QuietIsHush
  <2>3. CASE Infer(r) \/ Respond(r) \/ Review(r) \/ Remember(r)
    BY <1>0, <2>3, LoudIsHush
  <2>4. CASE RequestTool(r) \/ DecideTool(r) \/ EndCall(r)
    BY <1>0, <2>4, ToolTurns DEF ToolTurn
  <2> QED
    BY <1>2, <2>1, <2>2, <2>3, <2>4 DEF Step
<1>3. ASSUME NEW r \in Runs, Stop(r) \/ Stopped(r) PROVE \A s \in Runs : Hush(s)
  BY <1>0, <1>3, FailQuiet, OtherRun, QuietIsHush DEF Stop, Stopped, tables, state, Kept
<1>4. ASSUME NEW q \in Processes, Crash(q) \/ Restart(q) \/ Recover(q)
      PROVE  \A s \in Runs : Hush(s)
  BY <1>0, <1>4, ProcessQuiet, QuietIsHush
<1>5. CASE UNCHANGED vars
  BY <1>0, <1>5, OtherRun, QuietIsHush DEF vars, Kept
<1> QED
  BY <1>1, <1>2, <1>3, <1>4, <1>5 DEF Next

LEMMA NextTold == TInv /\ [Next]_vars => \A s \in Runs : Told(s)'
PROOF
<1> SUFFICES ASSUME TInv, [Next]_vars PROVE \A s \in Runs : Told(s)'
  OBVIOUS
<1>1. AInv /\ IInv /\ \A s \in Runs : Told(s)
  BY DEF TInv, AInv
<1>2. CASE \A s \in Runs : Hush(s)
  BY <1>1, <1>2, HushTold
<1>3. ASSUME NEW r \in Runs, ToolTurn(r) PROVE \A s \in Runs : Told(s)'
  BY <1>1, <1>3, TurnTold DEF ToolTurn
<1> QED
  BY <1>1, <1>2, <1>3, HushOrTurn

LEMMA ToldHolds == Spec => []TInv
PROOF
<1>1. Init => \A r \in Runs : Told(r)
  <2> SUFFICES ASSUME Init, NEW r \in Runs PROVE Told(r)
    OBVIOUS
  <2>1. log[r] = <<>> /\ pc[r] = "idle"
    BY DEF Init
  <2>2. Without(<<>>, ToolEvents)
    BY DEF Without
  <2>3. CallOf(<<>>) = "none"
    BY <2>2, NoCall
  <2> QED
    BY <2>1, <2>2, <2>3 DEF Told, HasLast, OpenCall
<1>2. (\A r \in Runs : Told(r)) /\ AInv /\ AInv' /\ [Next]_vars => (\A r \in Runs : Told(r))'
  BY NextTold DEF TInv
<1> QED
  BY <1>1, <1>2, ActsHold, PTL DEF Spec, TInv

LEMMA PhaseIsStatus ==
    ASSUME NEW l \in Seq(Event), NEW v \in {"absent", "running", "completed", "failed"},
           v = "absent" => l = <<>>,
           v = "running" => Len(l) > 0 /\ Steady(l),
           v = "completed" => EndsWith(l, "run.completed"),
           v = "failed" => EndsWith(l, "run.failed")
    PROVE  PhaseOf(l) = v
PROOF
<1>1. CASE v = "absent"
  BY <1>1 DEF PhaseOf
<1>2. CASE v = "running"
  <2>1. Len(l) \in 1 .. Len(l) /\ l # <<>>
    BY <1>2
  <2> QED
    BY <1>2, <2>1 DEF Steady, Terminal, PhaseOf
<1>3. CASE v \in {"completed", "failed"}
  BY <1>3 DEF EndsWith, PhaseOf
<1> QED
  BY <1>1, <1>2, <1>3

(* What each step does to the rows of the runs. *)
Rows ==
    \/ UNCHANGED <<status, project>>
    \/ \E r \in Runs, p \in Projects :
          /\ status[r] = "absent" /\ ~Busy(p)
          /\ status' = [status EXCEPT ![r] = "running"]
          /\ project' = [project EXCEPT ![r] = p]
    \/ \E r \in Runs :
          /\ status[r] = "running" /\ pc[r] = "complete"
          /\ status' = [status EXCEPT ![r] = "completed"] /\ UNCHANGED project
    \/ \E R \in SUBSET Runs :
          /\ R # {} /\ \A r \in R : status[r] = "running"
          /\ status' = [r \in Runs |-> IF r \in R THEN "failed" ELSE status[r]]
          /\ UNCHANGED project

LEMMA NextRows == ASSUME IInv, [Next]_vars PROVE Rows
PROOF
<1>0. status \in [Runs -> {"absent", "running", "completed", "failed"}]
  BY DEF IInv, TypeOK
<1>1. ASSUME NEW r \in Runs, NEW p \in Projects, NEW q \in Processes, Start(r, p, q) PROVE Rows
  BY <1>1 DEF Start, Rows
<1>2. ASSUME NEW r \in Runs, Step(r), ~Complete(r), ~FailRun(r) PROVE UNCHANGED <<status, project>>
  BY <1>2
     DEF Step, BeginFinish, RequestJev, JevAnswers, FallbackAnswers, Everything, Compile,
         Infer, InferAnswers, Respond, RequestTool, DecideTool, EndCall, SkipReview, Review,
         Remember, StoreFails, Advance, Record, Fail, tables
<1>3. ASSUME NEW r \in Runs, Complete(r) PROVE Rows
  BY <1>3 DEF Complete, RecordEnd, Rows
<1>4. ASSUME NEW r \in Runs, FailRun(r) PROVE Rows
  <2>1. status[r] = "running" /\ status' = [status EXCEPT ![r] = "failed"] /\ UNCHANGED project
    BY <1>4 DEF FailRun, RecordEnd
  <2>2. status' = [s \in Runs |-> IF s \in {r} THEN "failed" ELSE status[s]]
    BY <1>0, <2>1
  <2>3. {r} \in SUBSET Runs /\ {r} # {} /\ \A s \in {r} : status[s] = "running"
    BY <2>1
  <2> QED
    BY <2>1, <2>2, <2>3 DEF Rows
<1>5. ASSUME NEW r \in Runs, Stop(r) \/ Stopped(r) PROVE UNCHANGED <<status, project>>
  BY <1>5 DEF Stop, Stopped, Fail, tables
<1>6. ASSUME NEW q \in Processes, Crash(q) \/ Restart(q) PROVE UNCHANGED <<status, project>>
  BY <1>6 DEF Crash, Restart, tables
<1>7. ASSUME NEW q \in Processes, Recover(q) PROVE Rows
  <2>1. Stale(q) \in SUBSET Runs /\ Stale(q) # {} /\ \A r \in Stale(q) : status[r] = "running"
    BY <1>7 DEF Recover, Stale
  <2> QED
    BY <1>7, <2>1 DEF Recover, Rows
<1>8. CASE UNCHANGED vars
  BY <1>8 DEF vars, Rows
<1> QED
  BY <1>1, <1>2, <1>3, <1>4, <1>5, <1>6, <1>7, <1>8 DEF Next, Rows

LEMMA NextIsPromised ==
    ASSUME TInv, TInv', [Next]_vars
    PROVE  [Promise!Next]_(Promise!promiseVars)
PROOF
<1>0. /\ IInv /\ AInv /\ \A r \in Runs : Told(r)
      /\ status \in [Runs -> {"absent", "running", "completed", "failed"}]
  BY DEF TInv, AInv, IInv, TypeOK
<1>1. \A r \in Runs : PhaseOf(log[r]) = status[r]
  <2> SUFFICES ASSUME NEW r \in Runs PROVE PhaseOf(log[r]) = status[r]
    OBVIOUS
  <2>1. log[r] \in Seq(Event) /\ HistoryOf(r)
    BY <1>0 DEF IInv, TypeOK
  <2> QED
    BY <1>0, <2>1, PhaseIsStatus DEF HistoryOf
<1>2. \A r \in Runs : PhaseOf(log'[r]) = status'[r]
  <2> SUFFICES ASSUME NEW r \in Runs PROVE PhaseOf(log'[r]) = status'[r]
    OBVIOUS
  <2>1. /\ log'[r] \in Seq(Event) /\ HistoryOf(r)'
        /\ status'[r] \in {"absent", "running", "completed", "failed"}
    BY DEF TInv, AInv, IInv, TypeOK
  <2> QED
    BY <2>1, PhaseIsStatus DEF HistoryOf
<1> DEFINE phase == [r \in Runs |-> PhaseOf(log[r])]
           call == [r \in Runs |-> CallOf(log[r])]
<1>3. phase = status /\ phase' = status'
  <2>1. status' \in [Runs -> {"absent", "running", "completed", "failed"}]
    BY DEF TInv, AInv, IInv, TypeOK
  <2> QED
    BY <1>0, <1>1, <1>2, <2>1
<1>4. ASSUME NEW r \in Runs, ToolTurn(r) PROVE Promise!Next
  <2>1. ASSUME NEW before, NEW after, Turn(r, before, after)
        PROVE  Promise!Call(r, before, after)
    <3>1. /\ CallOf(log[r]) = before /\ CallOf(log'[r]) = after
          /\ \A s \in Runs \ {r} : CallOf(log'[s]) = CallOf(log[s])
      BY <1>0, <2>1, TurnTold
    <3>2. call[r] = before /\ call' = [call EXCEPT ![r] = after]
      BY <3>1
    <3>3. phase[r] = "running" /\ UNCHANGED <<project, phase>>
      BY <1>3, <2>1 DEF Turn
    <3> QED
      BY <3>2, <3>3 DEF Promise!Call
  <2> QED
    BY <1>4, <2>1 DEF ToolTurn, Promise!Next, Promise!Request, Promise!Allow, Promise!Deny,
                      Promise!Return
<1>5. CASE \A s \in Runs : Hush(s)
  <2>1. UNCHANGED call
    BY <1>0, <1>5, HushTold
  <2>2. CASE UNCHANGED <<status, project>>
    BY <1>3, <2>1, <2>2 DEF Promise!promiseVars
  <2>3. ASSUME NEW r \in Runs, NEW p \in Projects, status[r] = "absent", ~Busy(p),
               status' = [status EXCEPT ![r] = "running"],
               project' = [project EXCEPT ![r] = p]
        PROVE  Promise!Start(r, p)
    <3>1. \A other \in Runs : project[other] = p => phase[other] # "running"
      BY <1>3, <2>3 DEF Busy
    <3>2. phase[r] = "absent" /\ phase' = [phase EXCEPT ![r] = "running"]
      BY <1>3, <2>3
    <3> QED
      BY <2>1, <2>3, <3>1, <3>2 DEF Promise!Start
  <2>4. ASSUME NEW r \in Runs, status[r] = "running", pc[r] = "complete",
               status' = [status EXCEPT ![r] = "completed"], UNCHANGED project
        PROVE  Promise!Complete(r)
    <3>1. CallOf(log[r]) = "none"
      BY <1>0, <2>4 DEF Told, OpenCall
    <3>2. call[r] = "none"
      BY <3>1
    <3>3. phase[r] = "running" /\ phase' = [phase EXCEPT ![r] = "completed"]
      BY <1>3, <2>4
    <3> QED
      BY <2>1, <2>4, <3>2, <3>3 DEF Promise!Complete
  <2>5. ASSUME NEW R \in SUBSET Runs, R # {}, \A r \in R : status[r] = "running",
               status' = [r \in Runs |-> IF r \in R THEN "failed" ELSE status[r]],
               UNCHANGED project
        PROVE  Promise!Fail(R)
    <3>1. phase' = [r \in Runs |-> IF r \in R THEN "failed" ELSE phase[r]]
      BY <1>3, <2>5
    <3>2. \A r \in R : phase[r] = "running"
      BY <1>3, <2>5
    <3> QED
      BY <2>1, <2>5, <3>1, <3>2 DEF Promise!Fail
  <2> QED
    BY <1>0, <2>2, <2>3, <2>4, <2>5, NextRows DEF Rows, Promise!Next
<1> QED
  BY <1>0, <1>4, <1>5, HushOrTurn

(* Read from its events alone, a run starts once in a project without another running
   run, makes one call at a time, each requested, decided and only then made, completes
   with no call open, and stays ended: across crashes, stops and recoveries the runtime
   implements RunPromise. *)
THEOREM ImplementsPromise == Spec => PromiseHolds
PROOF
<1>1. Init => Promise!Init
  <2> SUFFICES ASSUME Init PROVE Promise!Init
    OBVIOUS
  <2>1. Without(<<>>, ToolEvents)
    BY DEF Without
  <2>2. \A r \in Runs : CallOf(log[r]) = "none" /\ PhaseOf(log[r]) = "absent"
    BY <2>1, NoCall DEF Init, PhaseOf
  <2> QED
    BY <2>2 DEF Init, Promise!Init
<1>2. TInv /\ TInv' /\ [Next]_vars => [Promise!Next]_(Promise!promiseVars)
  BY NextIsPromised
<1> QED
  BY <1>1, <1>2, ToldHolds, PTL DEF Spec, PromiseHolds, Promise!Spec
================================================================================
