------------------------------- MODULE ServerRuns -------------------------------
(***************************************************************************)
(* The runs of one `dagos serve` process: start_run, stop_run and recover  *)
(* (crates/dagos/src/server.rs) over the tables AppState::executing and    *)
(* AppState::stop_requests, and the stops each Runtime registers while it  *)
(* executes a run (finish and stop, crates/dagos-core/src/runtime.rs).     *)
(*                                                                         *)
(* A handler and the task it spawns run on threads of their own, so every  *)
(* critical section is an action: what was read in one may have changed in *)
(* the next.  Reloads replace the workspace's runtime at any time; a run   *)
(* that waited for tools goes on with the new one.                         *)
(*                                                                         *)
(* What execute does is one step here (see Runtime); that the projects of  *)
(* the runs are free is left to create_run_in.                             *)
(***************************************************************************)
EXTENDS Naturals

CONSTANTS
    Runs,
    Stoppers,     \* stop requests the server handles at a time
    MaxRuntimes   \* bound: runtimes the workspace builds, numbered from 1

ASSUME MaxRuntimesAssumption == MaxRuntimes \in Nat \ {0}

Runtimes == 1 .. MaxRuntimes
Nobody == 0    \* no runtime

VARIABLES
    \* The workspace.
    live,          \* the runtime new runs use
    starting,      \* tools_starting
    \* The database.
    status, errorCode,
    \* AppState.
    executing,     \* the runtime marked as executing each run, or Nobody
    stopRequests,
    \* Runtime::stops of every runtime.
    stops,
    \* The task of each run: its step and its local `runtime`.
    pc, rt,
    \* The stop requests: step, run, the runtime they read and (history) whether
    \* the run executed then.
    asking

workspace == <<live, starting>>
runs == <<status, errorCode>>
vars == <<live, starting, status, errorCode, executing, stopRequests, stops,
          pc, rt, asking>>

BeforeFinish == {"spawned", "waiting", "swapping", "taking"}
TaskPcs == BeforeFinish \cup
    {"cancelling", "finishing", "executing", "ending", "recording", "leaving"}

Idle == [step |-> "idle"]
Asking == {Idle} \cup [step : {"record", "notify"}, run : Runs, runtime : Runtimes, met : BOOLEAN]

Init ==
    /\ live = 1
    /\ starting \in BOOLEAN
    /\ status = [r \in Runs |-> "absent"]
    /\ errorCode = [r \in Runs |-> "none"]
    /\ executing = [r \in Runs |-> Nobody]
    /\ stopRequests = {}
    /\ stops = [u \in Runtimes |-> [r \in Runs |-> "none"]]
    /\ pc = [r \in Runs |-> "none"]
    /\ rt = [r \in Runs |-> Nobody]
    /\ asking = [s \in Stoppers |-> Idle]

Goto(r, step) == pc' = [pc EXCEPT ![r] = step]

(* The mutex around `executing`, which start_run holds from recording a run
   to marking it. *)
Unlocked == \A r \in Runs : pc[r] # "recorded"

(* Tx::fail_run, which refuses a run that has ended. *)
FailRun(r, c) ==
    IF status[r] = "running"
    THEN /\ status' = [status EXCEPT ![r] = "failed"]
         /\ errorCode' = [errorCode EXCEPT ![r] = c]
    ELSE UNCHANGED runs

--------------------------------------------------------------------------------
(* The workspace *)

Reload ==
    /\ live < MaxRuntimes
    /\ live' = live + 1
    /\ UNCHANGED <<starting, runs, executing, stopRequests, stops, pc, rt, asking>>

(* start_tools sets the flag, and clears it when the servers are up. *)
ToolsStartOrEnd ==
    /\ starting' = ~starting
    /\ UNCHANGED <<live, runs, executing, stopRequests, stops, pc, rt, asking>>

--------------------------------------------------------------------------------
(* start_run *)

(* Under the lock: start_in records the run... *)
StartRun(r) ==
    /\ pc[r] = "none" /\ Unlocked
    /\ status' = [status EXCEPT ![r] = "running"]
    /\ rt' = [rt EXCEPT ![r] = live]
    /\ Goto(r, "recorded")
    /\ UNCHANGED <<workspace, errorCode, executing, stopRequests, stops, asking>>

(* ...and the run is marked executing, and its task spawned. *)
MarkExecuting(r) ==
    /\ pc[r] = "recorded"
    /\ executing' = [executing EXCEPT ![r] = rt[r]]
    /\ Goto(r, "spawned")
    /\ UNCHANGED <<workspace, runs, stopRequests, stops, rt, asking>>

CheckTools(r) ==
    /\ pc[r] = "spawned"
    /\ Goto(r, IF starting THEN "waiting" ELSE "taking")
    /\ UNCHANGED <<workspace, runs, executing, stopRequests, stops, rt, asking>>

(* wait_for_tools: the tools are up, or TOOLS_WAIT is over. *)
WaitForTools(r) ==
    /\ pc[r] = "waiting"
    /\ Goto(r, "swapping")
    /\ UNCHANGED <<workspace, runs, executing, stopRequests, stops, rt, asking>>

(* Mutants of SwapRuntime: the table keeps the runtime the run started with;
   the requests to stop are not looked at again after the wait. *)
SwapRuntimeUnmarked(r) ==
    /\ pc[r] = "swapping"
    /\ rt' = [rt EXCEPT ![r] = live]
    /\ Goto(r, "taking")
    /\ UNCHANGED <<workspace, runs, executing, stopRequests, stops, asking>>

SwapRuntimeAndFinish(r) ==
    /\ pc[r] = "swapping" /\ Unlocked
    /\ rt' = [rt EXCEPT ![r] = live]
    /\ executing' = [executing EXCEPT ![r] = live]
    /\ Goto(r, "finishing")
    /\ UNCHANGED <<workspace, runs, stopRequests, stops, asking>>

(* The runtime that has the tools takes the run over. *)
SwapRuntime(r) ==
    /\ pc[r] = "swapping" /\ Unlocked
    /\ rt' = [rt EXCEPT ![r] = live]
    /\ executing' = [executing EXCEPT ![r] = live]
    /\ Goto(r, "taking")
    /\ UNCHANGED <<workspace, runs, stopRequests, stops, asking>>

TakeStopRequest(r) ==
    /\ pc[r] = "taking"
    /\ stopRequests' = stopRequests \ {r}
    /\ Goto(r, IF r \in stopRequests THEN "cancelling" ELSE "finishing")
    /\ UNCHANGED <<workspace, runs, executing, stops, rt, asking>>

(* The failure is recorded, or the store refuses and the run stays running. *)
CancelRun(r) ==
    /\ pc[r] = "cancelling"
    /\ FailRun(r, "cancelled") \/ UNCHANGED runs
    /\ Goto(r, "leaving")
    /\ UNCHANGED <<workspace, executing, stopRequests, stops, rt, asking>>

--------------------------------------------------------------------------------
(* Runtime::finish *)

RegisterStop(r) ==
    /\ pc[r] = "finishing"
    /\ stops' = [stops EXCEPT ![rt[r]][r] = "armed"]
    /\ Goto(r, "executing")
    /\ UNCHANGED <<workspace, runs, executing, stopRequests, rt, asking>>

(* execute: complete_run is its last transaction; a failure is left to finish. *)
Execute(r) ==
    /\ pc[r] = "executing"
    /\ \/ /\ status[r] = "running"
          /\ status' = [status EXCEPT ![r] = "completed"]
          /\ UNCHANGED errorCode
       \/ UNCHANGED runs
    /\ Goto(r, "ending")
    /\ UNCHANGED <<workspace, executing, stopRequests, stops, rt, asking>>

(* The select takes the stop. *)
Cancelled(r) ==
    /\ pc[r] = "executing"
    /\ stops[rt[r]][r] = "notified"
    /\ Goto(r, "ending")
    /\ UNCHANGED <<workspace, runs, executing, stopRequests, stops, rt, asking>>

UnregisterStop(r) ==
    /\ pc[r] = "ending"
    /\ stops' = [stops EXCEPT ![rt[r]][r] = "none"]
    /\ Goto(r, IF status[r] = "completed" THEN "leaving" ELSE "recording")
    /\ UNCHANGED <<workspace, runs, executing, stopRequests, rt, asking>>

(* Any code but interrupted, which is recovery's; or the store refuses. *)
RecordFailure(r) ==
    /\ pc[r] = "recording"
    /\ (\E c \in {"cancelled", "other"} : FailRun(r, c)) \/ UNCHANGED runs
    /\ Goto(r, "leaving")
    /\ UNCHANGED <<workspace, executing, stopRequests, stops, rt, asking>>

--------------------------------------------------------------------------------
(* The end of the task *)

Unmark(r) ==
    /\ pc[r] = "leaving" /\ Unlocked
    /\ executing' = [executing EXCEPT ![r] = Nobody]
    /\ Goto(r, "forgetting")
    /\ UNCHANGED <<workspace, runs, stopRequests, stops, rt, asking>>

Forget(r) ==
    /\ pc[r] = "forgetting"
    /\ stopRequests' = stopRequests \ {r}
    /\ Goto(r, "done")
    /\ UNCHANGED <<workspace, runs, executing, stops, rt, asking>>

--------------------------------------------------------------------------------
(* stop_run: finds the runtime, records the request, notifies the runtime, and
   answers. *)

(* Mutant of FindRuntime: the workspace's runtime is asked to stop the run. *)
FindRuntimeLive(s, r) ==
    /\ asking[s].step = "idle" /\ Unlocked
    /\ executing[r] # Nobody
    /\ asking' = [asking EXCEPT ![s] = [step |-> "record", run |-> r, runtime |-> live,
                                       met |-> pc[r] = "executing"]]
    /\ UNCHANGED <<workspace, runs, executing, stopRequests, stops, pc, rt>>

FindRuntime(s, r) ==
    /\ asking[s].step = "idle" /\ Unlocked
    /\ executing[r] # Nobody
    /\ asking' = [asking EXCEPT ![s] = [step |-> "record", run |-> r,
                                       runtime |-> executing[r],
                                       met |-> pc[r] = "executing"]]
    /\ UNCHANGED <<workspace, runs, executing, stopRequests, stops, pc, rt>>

RequestStop(s) ==
    /\ asking[s].step = "record"
    /\ stopRequests' = stopRequests \cup {asking[s].run}
    /\ asking' = [asking EXCEPT ![s].step = "notify"]
    /\ UNCHANGED <<workspace, runs, executing, stops, pc, rt>>

(* Runtime::stop does nothing for a run the runtime is not executing. *)
NotifyRuntime(s) ==
    /\ asking[s].step = "notify"
    /\ LET r == asking[s].run  u == asking[s].runtime IN
         stops' = [stops EXCEPT ![u][r] = IF @ = "none" THEN @ ELSE "notified"]
    /\ asking' = [asking EXCEPT ![s] = Idle]
    /\ UNCHANGED <<workspace, runs, executing, stopRequests, pc, rt>>

--------------------------------------------------------------------------------
(* Mutant of Recover: the executing runs are read, and then recovered from,
   without the lock. *)
RecoverUnlocked ==
    LET stale == {r \in Runs : status[r] = "running" /\ executing[r] = Nobody}
    IN /\ stale # {}
       /\ status' = [r \in Runs |-> IF r \in stale THEN "failed" ELSE status[r]]
       /\ errorCode' = [r \in Runs |-> IF r \in stale THEN "interrupted" ELSE errorCode[r]]
       /\ UNCHANGED <<workspace, executing, stopRequests, stops, pc, rt, asking>>

(* recover: under the lock, every running run that is not marked executing. *)
Recover ==
    LET stale == {r \in Runs : status[r] = "running" /\ executing[r] = Nobody}
    IN /\ Unlocked /\ stale # {}
       /\ status' = [r \in Runs |-> IF r \in stale THEN "failed" ELSE status[r]]
       /\ errorCode' = [r \in Runs |-> IF r \in stale THEN "interrupted" ELSE errorCode[r]]
       /\ UNCHANGED <<workspace, executing, stopRequests, stops, pc, rt, asking>>

(* The process dies and is started again over the same database. *)
Restart ==
    /\ starting' \in BOOLEAN
    /\ executing' = [r \in Runs |-> Nobody]
    /\ stopRequests' = {}
    /\ stops' = [u \in Runtimes |-> [r \in Runs |-> "none"]]
    /\ pc' = [r \in Runs |-> IF pc[r] = "none" THEN "none" ELSE "done"]
    /\ asking' = [s \in Stoppers |-> Idle]
    /\ UNCHANGED <<live, runs, rt>>

TaskStep(r) ==
    \/ MarkExecuting(r) \/ CheckTools(r) \/ WaitForTools(r) \/ SwapRuntime(r)
    \/ TakeStopRequest(r) \/ CancelRun(r) \/ RegisterStop(r)
    \/ UnregisterStop(r) \/ RecordFailure(r) \/ Unmark(r) \/ Forget(r)

StopStep(s) == RequestStop(s) \/ NotifyRuntime(s)

Next ==
    \/ Reload \/ ToolsStartOrEnd \/ Recover \/ Restart
    \/ \E r \in Runs : StartRun(r) \/ TaskStep(r) \/ Execute(r) \/ Cancelled(r)
    \/ \E s \in Stoppers : StopStep(s) \/ \E r \in Runs : FindRuntime(s, r)

Spec == Init /\ [][Next]_vars

(* Threads keep running, TOOLS_WAIT elapses, and a select with a permit takes
   it.  Nothing is assumed of execute, nor of the tools ever being up. *)
Fairness ==
    /\ \A r \in Runs : WF_vars(TaskStep(r)) /\ WF_vars(Cancelled(r))
    /\ \A s \in Stoppers : WF_vars(StopStep(s))

FairSpec == Spec /\ Fairness

--------------------------------------------------------------------------------
TypeOK ==
    /\ live \in Runtimes
    /\ starting \in BOOLEAN
    /\ status \in [Runs -> {"absent", "running", "completed", "failed"}]
    /\ errorCode \in [Runs -> {"none", "cancelled", "interrupted", "other"}]
    /\ executing \in [Runs -> Runtimes \cup {Nobody}]
    /\ stopRequests \subseteq Runs
    /\ stops \in [Runtimes -> [Runs -> {"none", "armed", "notified"}]]
    /\ pc \in [Runs -> TaskPcs \cup {"none", "recorded", "forgetting", "done"}]
    /\ rt \in [Runs -> Runtimes \cup {Nobody}]
    /\ asking \in [Stoppers -> Asking]

(* A recovery at any moment leaves alone the runs this process has accepted:
   until its own task records its end, a run stays running. *)
AcceptedRunsAreSpared ==
    \A r \in Runs :
        pc[r] \in (TaskPcs \cup {"recorded"}) \ {"ending", "leaving"} =>
            status[r] = "running"

(* The table is exact whenever its lock is free: it names the runs that have a
   task, with the runtime in whose hands each one is, the one that stop_run
   must reach (AppState::executing: any other running run is stale). *)
ExecutingIsExact ==
    \A r \in Runs :
        /\ executing[r] # Nobody <=> pc[r] \in TaskPcs
        /\ executing[r] # Nobody /\ pc[r] # "swapping" => executing[r] = rt[r]
        /\ \A u \in Runtimes :
              stops[u][r] # "none" <=> pc[r] \in {"executing", "ending"} /\ u = rt[r]

(* A run asked to stop while it waits for tools never executes. *)
StopsWhileWaitingHold ==
    \A r \in Runs :
        [](r \in stopRequests /\ pc[r] \in BeforeFinish => [](pc[r] # "executing"))

(* A stop that finds its run executing ends it. *)
StopsEndExecutions ==
    \A r \in Runs :
        (\E s \in Stoppers : asking[s].step = "record" /\ asking[s].run = r /\ asking[s].met)
            ~> pc[r] # "executing"

(* No run waits for ever for tools that never come up. *)
WaitsEnd == \A r \in Runs : pc[r] = "waiting" ~> pc[r] # "waiting"

(* A run gets past its waits: for tools that never come up, and, once it is asked to
   stop, for a model, a tool or a person that never answers.  About start_run's
   task, wait_for_tools, stop_run and finish. *)
RunsDoNotHang == StopsEndExecutions /\ WaitsEnd
================================================================================
