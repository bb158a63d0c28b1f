--------------------------------- MODULE Runtime ---------------------------------
(***************************************************************************)
(* The lifecycle of runs: Runtime::start_in, finish, execute, run_tool,    *)
(* review, stop and recover_runs_except (crates/dagos-core/src/runtime.rs) *)
(* over the runs and events tables (store/runs.rs, store/events.rs).       *)
(*                                                                         *)
(* A run is executed by one process; the database is shared by every       *)
(* process opened on the workspace (`dagos serve`, `dagos run`,            *)
(* `dagos recover`).  Each action is one store transaction together with   *)
(* the await whose result it records, so a crash, a recovery or another    *)
(* run can come between any two of them.  What Jev, the provider, the gate,*)
(* a tool and the reviewer answer is chosen freely; each of them answers   *)
(* under a deadline.                                                       *)
(*                                                                         *)
(* Left out: streamed deltas (one event each, recorded while "inferring"), *)
(* context.added and context.removed (recorded with jev.classified and     *)
(* context.expanded), edges (recorded with the nodes of their response,    *)
(* see DagStore), the content of every event, and timestamps.              *)
(***************************************************************************)
EXTENDS Naturals, Sequences, FiniteSets

CONSTANTS
    Runs,              \* run identifiers
    Projects,
    NoProject,
    Processes,         \* processes that may execute and recover runs
    NoProcess,
    HasFallback,       \* a deterministic Jev stands in for a failing one
    HasReviewer,
    MaxToolSteps,      \* Runtime::max_tool_steps
    MaxReviewRounds,   \* Runtime::max_review_rounds
    MaxCalls,          \* bound: tool calls in one response
    MaxEmissions,      \* bound: nodes one response or one review adds
    MaxCode            \* bound: versions of the code a run's tools produce

ASSUME NoProjectAssumption == NoProject \notin Projects
ASSUME NoProcessAssumption == NoProcess \notin Processes
ASSUME BooleansAssumption == HasFallback \in BOOLEAN /\ HasReviewer \in BOOLEAN
ASSUME BoundsAssumption ==
    /\ MaxToolSteps \in Nat /\ MaxReviewRounds \in Nat
    /\ MaxCalls \in Nat /\ MaxEmissions \in Nat /\ MaxCode \in Nat

VARIABLES
    \* The database.
    project,   \* the project of each run
    status,    \* runs.status
    errorCode, \* runs.error_code
    log,       \* the run's events in sequence order
    \* The processes, and the execution of each run in one of them.
    up,        \* whether the process is running
    owner,     \* which process that is
    pc,        \* the step its execution is at
    rounds,    \* tool rounds so far
    calls,     \* calls of the current round still to make
    nextCall,  \* next_call: the number of the next call
    reviews,   \* ReviewState::rounds
    handed,    \* ReviewState::fingerprint: the code version last handed back, or 0
    code,      \* the version of the code the run changed, 0 while unchanged
    stop,      \* the run's entry in Runtime::stops
    failure    \* the StageFailure finish is about to record

tables == <<project, status, errorCode, log>>
state == <<rounds, calls, nextCall, reviews, handed, code>>
vars == <<project, status, errorCode, log, up, owner, pc, rounds, calls, nextCall,
          reviews, handed, code, stop, failure>>

ErrorCodes == {"jev_failed", "jev_invalid_output", "ir_invalid", "provider_failed",
               "provider_timeout", "response_invalid", "emission_rejected",
               "interrupted", "cancelled", "internal"}

EventTypes == {"run.started", "message.recorded", "context.carried",
               "jev.requested", "jev.rejected",
               "jev.fallback", "jev.classified", "context.expanded", "ir.compiled",
               "inference.started", "inference.completed", "response.validated",
               "response.rejected", "dag.node_created", "tool.requested",
               "tool.decided", "tool.completed", "review.completed",
               "run.completed", "run.failed"}

(* call numbers the tool call an event is about; ok tells an allowed call from
   a denied one, and a review without findings from one with. *)
Event == [type : EventTypes, call : Nat, ok : BOOLEAN]

Ev(t) == [type |-> t, call |-> 0, ok |-> TRUE]
Reviewed(clean) == [type |-> "review.completed", call |-> 0, ok |-> clean]
CallEv(t, c, ok) == [type |-> t, call |-> c, ok |-> ok]
Nodes(n) == [i \in 1 .. n |-> Ev("dag.node_created")]

(* Steps at which execute is in a running transaction or about to await. *)
LivePcs == {"started", "classify", "jev", "fallback", "everything", "compile",
            "infer", "inferring", "respond", "request", "gate", "calling",
            "review", "remember", "complete", "failing"}

NoFailure == [code |-> "none", evidence |-> <<>>]
Failure(c, evs) == [code |-> c, evidence |-> evs]

Live(r) == pc[r] \in LivePcs

Init ==
    /\ project = [r \in Runs |-> NoProject]
    /\ status = [r \in Runs |-> "absent"]
    /\ errorCode = [r \in Runs |-> "none"]
    /\ log = [r \in Runs |-> <<>>]
    /\ up = [q \in Processes |-> TRUE]
    /\ owner = [r \in Runs |-> NoProcess]
    /\ pc = [r \in Runs |-> "idle"]
    /\ rounds = [r \in Runs |-> 0]
    /\ calls = [r \in Runs |-> 0]
    /\ nextCall = [r \in Runs |-> 1]
    /\ reviews = [r \in Runs |-> 0]
    /\ handed = [r \in Runs |-> 0]
    /\ code = [r \in Runs |-> 0]
    /\ stop = [r \in Runs |-> "none"]
    /\ failure = [r \in Runs |-> NoFailure]

--------------------------------------------------------------------------------
(* The store *)

(* Tx::append_event: only a running run's history grows. *)
Record(r, evs) ==
    /\ status[r] = "running"
    /\ log' = [log EXCEPT ![r] = @ \o evs]
    /\ UNCHANGED <<project, status, errorCode>>

(* Mutant of RecordEnd: the error code is not kept. *)
RecordEndWithoutCode(r, evs, s, c) ==
    /\ status[r] = "running"
    /\ log' = [log EXCEPT ![r] = @ \o evs]
    /\ status' = [status EXCEPT ![r] = s]
    /\ UNCHANGED <<project, errorCode>>

(* complete_run and fail_run: the terminal event, then the status. *)
RecordEnd(r, evs, s, c) ==
    /\ status[r] = "running"
    /\ log' = [log EXCEPT ![r] = @ \o evs]
    /\ status' = [status EXCEPT ![r] = s]
    /\ errorCode' = [errorCode EXCEPT ![r] = c]
    /\ UNCHANGED project

(* Mutant of Busy: a run nobody executes does not count. *)
BusyExecuting(p) == \E r \in Runs : project[r] = p /\ Live(r)

(* Tx::running_run, checked by create_run_in and by the unique index. *)
Busy(p) == \E r \in Runs : project[r] = p /\ status[r] = "running"

--------------------------------------------------------------------------------
(* Control *)

Goto(r, step) == pc' = [pc EXCEPT ![r] = step]

(* An error leaves execute: finish drops the stop and records the failure. *)
Fail(r, c, evs) ==
    /\ Goto(r, "failing")
    /\ stop' = [stop EXCEPT ![r] = "none"]
    /\ failure' = [failure EXCEPT ![r] = Failure(c, evs)]
    /\ UNCHANGED <<tables, up, owner, state>>

(* A step that records evs and goes on at step. *)
Advance(r, from, evs, step) ==
    /\ pc[r] = from
    /\ Record(r, evs)
    /\ Goto(r, step)
    /\ UNCHANGED <<up, owner, stop, failure>>

(* start_in: the run, its task node, message and carried context, in one
   transaction. *)
Start(r, p, q) ==
    /\ up[q]
    /\ status[r] = "absent"
    /\ ~Busy(p)
    /\ project' = [project EXCEPT ![r] = p]
    /\ status' = [status EXCEPT ![r] = "running"]
    /\ log' = [log EXCEPT ![r] = <<Ev("run.started"), Ev("message.recorded"),
                                 Ev("context.carried")>>]
    /\ owner' = [owner EXCEPT ![r] = q]
    /\ Goto(r, "started")
    /\ UNCHANGED <<errorCode, up, state, stop, failure>>

(* finish: registers the stop and enters execute, unless a reload has taken
   the run's provider away. *)
BeginFinish(r) ==
    /\ pc[r] = "started"
    /\ \/ /\ Goto(r, "classify")
          /\ stop' = [stop EXCEPT ![r] = "armed"]
          /\ UNCHANGED <<tables, up, owner, state, failure>>
       \/ Fail(r, "provider_failed", <<>>)

(* classify_context *)
RequestJev(r) ==
    /\ Advance(r, "classify", <<Ev("jev.requested")>>, "jev")
    /\ UNCHANGED state

Rejection(rejected) == IF rejected THEN <<Ev("jev.rejected")>> ELSE <<>>
JevError(rejected) == IF rejected THEN "jev_invalid_output" ELSE "jev_failed"

(* classify_context after classify_with: a valid answer is applied; a late,
   failed or invalid one goes to the fallback, or fails the run. *)
JevAnswers(r) ==
    \/ /\ Advance(r, "jev", <<Ev("jev.classified")>>, "everything")
       /\ UNCHANGED state
    \/ \E rejected \in BOOLEAN :
         \/ /\ HasFallback
            /\ Advance(r, "jev", Rejection(rejected) \o <<Ev("jev.fallback")>>, "fallback")
            /\ UNCHANGED state
         \/ /\ ~HasFallback
            /\ pc[r] = "jev"
            /\ Fail(r, JevError(rejected), Rejection(rejected))

FallbackAnswers(r) ==
    \/ /\ Advance(r, "fallback", <<Ev("jev.classified")>>, "everything")
       /\ UNCHANGED state
    \/ /\ pc[r] = "fallback"
       /\ \E rejected \in BOOLEAN : Fail(r, JevError(rejected), Rejection(rejected))

(* wants_everything, then expand_context or recall_turns; the model's window. *)
Everything(r) ==
    \/ /\ Advance(r, "everything", <<Ev("context.expanded")>>, "compile")
       /\ UNCHANGED state
    \/ /\ pc[r] = "everything"
       /\ Goto(r, "compile")
       /\ UNCHANGED <<tables, up, owner, state, stop, failure>>

(* compact_tool_results and compile_ir *)
Compile(r) ==
    \/ /\ Advance(r, "compile", <<Ev("ir.compiled")>>, "infer")
       /\ UNCHANGED state
    \/ /\ pc[r] = "compile"
       /\ Fail(r, "ir_invalid", <<>>)

(* infer *)
Infer(r) ==
    /\ Advance(r, "infer", <<Ev("inference.started")>>, "inferring")
    /\ UNCHANGED state

InferAnswers(r) ==
    \/ /\ Advance(r, "inferring", <<Ev("inference.completed")>>, "respond")
       /\ UNCHANGED state
    \/ /\ pc[r] = "inferring"
       /\ \E c \in {"provider_failed", "provider_timeout"} : Fail(r, c, <<>>)

(* validate_response and apply_response: response.validated and the nodes of
   the response are one transaction.  A response without calls is reviewed;
   one with calls begins a tool round. *)
Respond(r) ==
    \/ /\ pc[r] = "respond"
       /\ \E c \in {"response_invalid", "emission_rejected"} :
             Fail(r, c, <<Ev("response.rejected")>>)
    \/ \E n \in 0 .. MaxEmissions, k \in 0 .. MaxCalls :
         /\ Advance(r, "respond", <<Ev("response.validated")>> \o Nodes(n),
                    IF k = 0 THEN "review" ELSE "request")
         /\ rounds' = [rounds EXCEPT ![r] = IF k = 0 THEN @ ELSE @ + 1]
         /\ calls' = [calls EXCEPT ![r] = k]
         /\ UNCHANGED <<nextCall, reviews, handed, code>>

OverLimit(r) == rounds[r] > MaxToolSteps

(* Where the round goes after a call that leaves n more. *)
AfterCall(r, n) ==
    IF n > 0 THEN "request" ELSE IF OverLimit(r) THEN "complete" ELSE "compile"

(* Mutant of RequestTool: every call has the same identifier. *)
RequestToolUnnumbered(r) ==
    /\ Advance(r, "request", <<CallEv("tool.requested", nextCall[r], TRUE)>>, "gate")
    /\ calls' = [calls EXCEPT ![r] = @ - 1]
    /\ UNCHANGED <<rounds, nextCall, reviews, handed, code>>

(* run_tool: the request is recorded before anyone is asked. *)
RequestTool(r) ==
    /\ Advance(r, "request", <<CallEv("tool.requested", nextCall[r], TRUE)>>, "gate")
    /\ nextCall' = [nextCall EXCEPT ![r] = @ + 1]
    /\ calls' = [calls EXCEPT ![r] = @ - 1]
    /\ UNCHANGED <<rounds, reviews, handed, code>>

(* Mutant of DecideTool: an allowed call is not waited for. *)
DecideToolDetached(r) ==
    \E allowed \in BOOLEAN :
      /\ allowed => ~OverLimit(r)
      /\ Advance(r, "gate", <<CallEv("tool.decided", nextCall[r] - 1, allowed)>>,
                 AfterCall(r, calls[r]))
      /\ UNCHANGED state

(* The limit, an unlisted tool, or the gate decides; an allowed call runs. *)
DecideTool(r) ==
    \E allowed \in BOOLEAN :
      /\ allowed => ~OverLimit(r)
      /\ Advance(r, "gate", <<CallEv("tool.decided", nextCall[r] - 1, allowed)>>,
                 IF allowed THEN "calling" ELSE AfterCall(r, calls[r]))
      /\ UNCHANGED state

(* The call returned, failed, or ran out of time; it may have changed code. *)
EndCall(r) ==
    \E ok \in BOOLEAN, v \in 0 .. MaxCode :
      /\ Advance(r, "calling", <<CallEv("tool.completed", nextCall[r] - 1, ok)>>,
                 AfterCall(r, calls[r]))
      /\ code' = [code EXCEPT ![r] = v]
      /\ UNCHANGED <<rounds, calls, nextCall, reviews, handed>>

MayReview(r) == HasReviewer /\ reviews[r] < MaxReviewRounds

(* review, when nothing is recorded: no reviewer (with a Jev that answers its
   questions), no reviews left, or no changed code to judge. *)
SkipReview(r) ==
    /\ pc[r] = "review"
    /\ ~MayReview(r) \/ code[r] = 0
    /\ Goto(r, "complete")
    /\ UNCHANGED <<tables, up, owner, state, stop, failure>>

(* review of changed code, or one that failed, which records no findings.
   Findings on the same code as the review before handed back, or in the last
   review, stay open when the run ends. *)
Review(r) ==
    \E clean \in BOOLEAN :
      /\ MayReview(r)
      /\ clean \/ code[r] # 0
      /\ LET again == code[r] # handed[r] /\ reviews[r] + 1 < MaxReviewRounds
         IN /\ Advance(r, "review", <<Reviewed(clean)>>,
                       IF clean THEN "complete" ELSE IF again THEN "compile" ELSE "remember")
            /\ handed' = [handed EXCEPT ![r] = IF ~clean /\ again THEN code[r] ELSE @]
      /\ reviews' = [reviews EXCEPT ![r] = @ + 1]
      /\ UNCHANGED <<rounds, calls, nextCall, code>>

(* record_findings: a node for each open finding the project does not know. *)
Remember(r) ==
    \E n \in 0 .. MaxEmissions :
      /\ Advance(r, "remember", Nodes(n), "complete")
      /\ UNCHANGED state

(* complete_run, then finish returns. *)
Complete(r) ==
    /\ pc[r] = "complete"
    /\ RecordEnd(r, <<Ev("run.completed")>>, "completed", "none")
    /\ Goto(r, "ended")
    /\ stop' = [stop EXCEPT ![r] = "none"]
    /\ UNCHANGED <<up, owner, state, failure>>

(* Mutant of FailRun: the evidence is lost. *)
FailRunBare(r) ==
    /\ pc[r] = "failing"
    /\ RecordEnd(r, <<Ev("run.failed")>>, "failed", failure[r].code)
    /\ Goto(r, "ended")
    /\ UNCHANGED <<up, owner, state, stop, failure>>

(* finish: the evidence and the failure, in one transaction. *)
FailRun(r) ==
    /\ pc[r] = "failing"
    /\ RecordEnd(r, failure[r].evidence \o <<Ev("run.failed")>>, "failed", failure[r].code)
    /\ Goto(r, "ended")
    /\ UNCHANGED <<up, owner, state, stop, failure>>

(* Steps that end in a store transaction. *)
Recording(r) ==
    \/ pc[r] \in LivePcs \ {"started", "review", "failing"}
    \/ pc[r] = "review" /\ MayReview(r)

(* Mutant of StoreFails: recording the failure is tried until it succeeds. *)
StoreFailsRetried(r) == Recording(r) /\ Fail(r, "internal", <<>>)

(* A transaction of the run's own fails: SQLite refuses it, or the run is no
   longer running.  execute then fails with `internal`; a failure that cannot
   be recorded leaves the run as it is. *)
StoreFails(r) ==
    \/ Recording(r) /\ Fail(r, "internal", <<>>)
    \/ /\ pc[r] = "failing"
       /\ Goto(r, "ended")
       /\ UNCHANGED <<tables, up, owner, state, stop, failure>>

--------------------------------------------------------------------------------
(* Stopping, crashing, recovering *)

(* Runtime::stop: notify_one leaves a permit for the next await. *)
Stop(r) ==
    /\ stop[r] = "armed"
    /\ stop' = [stop EXCEPT ![r] = "notified"]
    /\ UNCHANGED <<tables, up, owner, pc, state, failure>>

(* Where execute awaits, so that the select in finish can take the stop. *)
Awaiting(r) ==
    \/ pc[r] \in {"jev", "fallback", "everything", "compile", "inferring", "calling"}
    \/ pc[r] = "gate" /\ ~OverLimit(r)
    \/ pc[r] = "review" /\ MayReview(r)

Stopped(r) ==
    /\ stop[r] = "notified"
    /\ Awaiting(r)
    /\ Fail(r, "cancelled", <<>>)

(* Process q dies; its executions are gone and its uncommitted work with them. *)
Crash(q) ==
    /\ up[q]
    /\ up' = [up EXCEPT ![q] = FALSE]
    /\ pc' = [r \in Runs |-> IF owner[r] = q /\ Live(r) THEN "ended" ELSE pc[r]]
    /\ stop' = [r \in Runs |-> IF owner[r] = q THEN "none" ELSE stop[r]]
    /\ UNCHANGED <<tables, owner, state, failure>>

(* The process comes back (`dagos serve`): it opens the workspace and leaves
   the runs it finds as they are. *)
Restart(q) ==
    /\ ~up[q]
    /\ up' = [up EXCEPT ![q] = TRUE]
    /\ UNCHANGED <<tables, owner, pc, state, stop, failure>>

(* Mutants of Stale: recovery does not spare executing runs; it takes finished
   runs for stale ones. *)
StaleAll(q) == {r \in Runs : status[r] = "running"}
StaleEnded(q) == {r \in Runs : status[r] # "absent" /\ ~(owner[r] = q /\ Live(r))}

(* The running runs process q is not executing. *)
Stale(q) == {r \in Runs : status[r] = "running" /\ ~(owner[r] = q /\ Live(r))}

(* recover_runs_except(executing) in process q, one transaction. *)
Recover(q) ==
    /\ up[q]
    /\ Stale(q) # {}
    /\ log' = [r \in Runs |-> IF r \in Stale(q)
                              THEN Append(log[r], Ev("run.failed")) ELSE log[r]]
    /\ status' = [r \in Runs |-> IF r \in Stale(q) THEN "failed" ELSE status[r]]
    /\ errorCode' = [r \in Runs |-> IF r \in Stale(q) THEN "interrupted" ELSE errorCode[r]]
    /\ UNCHANGED <<project, up, owner, pc, state, stop, failure>>

(* The steps the executing process takes by itself. *)
Step(r) ==
    \/ BeginFinish(r)
    \/ RequestJev(r) \/ JevAnswers(r) \/ FallbackAnswers(r) \/ Everything(r)
    \/ Compile(r) \/ Infer(r) \/ InferAnswers(r) \/ Respond(r)
    \/ RequestTool(r) \/ DecideTool(r) \/ EndCall(r)
    \/ SkipReview(r) \/ Review(r) \/ Remember(r)
    \/ Complete(r) \/ FailRun(r) \/ StoreFails(r)

Next ==
    \/ \E r \in Runs, p \in Projects, q \in Processes : Start(r, p, q)
    \/ \E r \in Runs : Step(r) \/ Stop(r) \/ Stopped(r)
    \/ \E q \in Processes : Crash(q) \/ Restart(q) \/ Recover(q)

Spec == Init /\ [][Next]_vars

(* Every await of execute has a deadline (Jev, inference, tool, approval and
   guard timeouts) and transactions do not wait for ever, so a live process
   keeps stepping each execution; a crashed one is started again.  People and
   crashes owe nothing. *)
Fairness ==
    /\ \A r \in Runs : WF_vars(Step(r))
    /\ \A q \in Processes : WF_vars(Restart(q))

FairSpec == Spec /\ Fairness
--------------------------------------------------------------------------------
(* Types: rows satisfy the schema's checks; nobody executes an absent run. *)
TypeOK ==
    /\ project \in [Runs -> Projects \cup {NoProject}]
    /\ status \in [Runs -> {"absent", "running", "completed", "failed"}]
    /\ errorCode \in [Runs -> ErrorCodes \cup {"none"}]
    /\ log \in [Runs -> Seq(Event)]
    /\ up \in [Processes -> BOOLEAN]
    /\ owner \in [Runs -> Processes \cup {NoProcess}]
    /\ pc \in [Runs -> LivePcs \cup {"idle", "ended"}]
    /\ rounds \in [Runs -> Nat]
    /\ calls \in [Runs -> Nat]
    /\ nextCall \in [Runs -> Nat \ {0}]
    /\ reviews \in [Runs -> Nat]
    /\ handed \in [Runs -> 0 .. MaxCode]
    /\ code \in [Runs -> 0 .. MaxCode]
    /\ stop \in [Runs -> {"none", "armed", "notified"}]
    /\ failure \in [Runs -> [code : ErrorCodes \cup {"none"}, evidence : Seq(Event)]]

Terminal == {"run.completed", "run.failed"}

(* At most one run of a project is running, across starts, crashes and
   recoveries in any process (create_run_in; index runs_one_running). *)
OneRunPerProject ==
    \A r1, r2 \in Runs :
        /\ status[r1] = "running" /\ status[r2] = "running"
        /\ project[r1] = project[r2]
        => r1 = r2

(* A run's events alone tell how it stands: nothing follows a terminal event,
   and the last event agrees with the status and error code of its row, however
   the run ended and whoever ended it. *)
HistoryTellsStatus ==
    \A r \in Runs :
        LET l == log[r]  n == Len(log[r]) IN
        /\ status[r] = "absent" <=> n = 0
        /\ \A i \in 1 .. n : l[i].type \in Terminal => i = n
        /\ status[r] = "completed" <=> n > 0 /\ l[n].type = "run.completed"
        /\ status[r] = "failed" <=> n > 0 /\ l[n].type = "run.failed"
        /\ status[r] = "failed" <=> errorCode[r] # "none"

(* With one process, nobody ends a run under its execution: until the run
   itself records its end, it stays running (recover_runs_except spares the
   executing ones, and create_run_in starts no run twice). *)
LiveRunsAreRunning == \A r \in Runs : Live(r) => status[r] = "running"

(* Every completed tool call was requested and then allowed, once each, in
   that order; a denied one never ran (FR-027: every decision is an event). *)
CallsArePermitted ==
    \A r \in Runs : \A i \in 1 .. Len(log[r]) :
        LET e == log[r][i]
            Earlier(t) == {j \in 1 .. i - 1 : log[r][j].type = t /\ log[r][j].call = e.call}
        IN /\ e.type = "tool.completed" =>
                /\ Earlier("tool.completed") = {}
                /\ \E j \in Earlier("tool.decided") : log[r][j].ok
           /\ e.type = "tool.decided" =>
                Earlier("tool.decided") = {} /\ Earlier("tool.requested") # {}
           /\ e.type = "tool.requested" => Earlier("tool.requested") = {}

Count(l, t) == Cardinality({i \in 1 .. Len(l) : l[i].type = t})

(* Loops are bounded: one inference, one more for each tool round within the
   limit and for each review handed back; at most max_rounds reviews. *)
LoopsAreBounded ==
    \A r \in Runs :
        /\ Count(log[r], "inference.started") <=
              1 + MaxToolSteps + (IF MaxReviewRounds = 0 THEN 0 ELSE MaxReviewRounds - 1)
        /\ Count(log[r], "review.completed") <= MaxReviewRounds

(* A node enters the DAG only in the transaction that validated its response,
   or as what a review left open: validation precedes mutation. *)
NodesFollowValidation ==
    \A r \in Runs : \A i \in 1 .. Len(log[r]) :
        log[r][i].type = "dag.node_created" =>
            /\ i > 1
            /\ log[r][i - 1].type \in
                  {"dag.node_created", "response.validated", "review.completed"}

(* What a run does it was allowed to do: its calls, its loops and its nodes, however
   rounds, reviews, denials and failures follow each other.  About execute, run_tool,
   review and apply_response. *)
ActsAreAuthorised == CallsArePermitted /\ LoopsAreBounded /\ NodesFollowValidation

(* A run failed over a rejected answer carries the evidence right before its
   failure, whatever else it recorded, fallbacks and earlier rounds included. *)
FailureHasEvidence ==
    \A r \in Runs :
        LET n == Len(log[r]) IN
        /\ errorCode[r] \in {"response_invalid", "emission_rejected"} =>
              n > 1 /\ log[r][n - 1].type = "response.rejected"
        /\ errorCode[r] = "jev_invalid_output" =>
              n > 1 /\ log[r][n - 1].type = "jev.rejected"

Extends(r) == Len(log'[r]) >= Len(log[r]) /\ SubSeq(log'[r], 1, Len(log[r])) = log[r]

Unaltered(r) == log'[r] = log[r] /\ status'[r] = status[r] /\ errorCode'[r] = errorCode[r]

(* History is append-only, and a finished run never changes again, late
   answers, stops and recoveries notwithstanding. *)
HistoryIsFinal ==
    [][\A r \in Runs :
         Extends(r) /\ (status[r] \in {"completed", "failed"} => Unaltered(r))]_vars

(* Every execution ends: whatever its peers answer, a run does not hang. *)
ExecutionsEnd == \A r \in Runs : Live(r) ~> ~Live(r)

(* Seen from its events alone, a run keeps the promise of RunPromise. *)
PhaseOf(l) ==
    IF l = <<>> THEN "absent"
    ELSE CASE l[Len(l)].type = "run.completed" -> "completed"
           [] l[Len(l)].type = "run.failed" -> "failed"
           [] OTHER -> "running"

CallOf(l) ==
    LET tools == {i \in 1 .. Len(l) : l[i].type \in
                    {"tool.requested", "tool.decided", "tool.completed"}}
        e == l[CHOOSE i \in tools : \A j \in tools : j <= i]
    IN IF tools = {} \/ e.type = "tool.completed" THEN "none"
       ELSE IF e.type = "tool.requested" THEN "requested"
       ELSE IF e.ok THEN "allowed" ELSE "none"

Promise == INSTANCE RunPromise WITH
    phase <- [r \in Runs |-> PhaseOf(log[r])],
    call <- [r \in Runs |-> CallOf(log[r])]
PromiseHolds == Promise!Spec

================================================================================
