------------------------------ MODULE ServerProofs ------------------------------
(***************************************************************************)
(* Proofs about the process of a server.  Its runs: types, that a recovery *)
(* at any moment spares the runs it has accepted, and that the executing   *)
(* table names the runtime of each run with a task.  Its live              *)
(* configuration: that the edits it confirms are in force.                 *)
(***************************************************************************)
EXTENDS ServerRuns, ToolConfig, TLAPS

--------------------------------------------------------------------------------
(* The inductive invariant *)

(* What the step of a run's task says about the run: its row, the table, its
   local runtime and the stops registered for it. *)
RowOK(r) ==
    /\ pc[r] \in (TaskPcs \cup {"recorded"}) \ {"ending", "leaving"} => status[r] = "running"
    /\ pc[r] = "ending" => status[r] \in {"running", "completed"}

TableOK(r) ==
    /\ executing[r] # Nobody <=> pc[r] \in TaskPcs
    /\ executing[r] # Nobody /\ pc[r] # "swapping" => executing[r] = rt[r]
    /\ pc[r] = "recorded" => rt[r] \in Runtimes

StopOK(r) ==
    \A u \in Runtimes : stops[u][r] # "none" <=> pc[r] \in {"executing", "ending"} /\ u = rt[r]

IInv ==
    /\ TypeOK
    /\ \A r \in Runs : RowOK(r)
    /\ \A r \in Runs : TableOK(r)
    /\ \A r \in Runs : StopOK(r)

LEMMA NobodyIsNoRuntime == Nobody \notin Runtimes
BY MaxRuntimesAssumption DEF Nobody, Runtimes

LEMMA InitIInv == Init => IInv
PROOF
<1> SUFFICES ASSUME Init PROVE IInv
  OBVIOUS
<1>1. 1 \in Runtimes
  BY MaxRuntimesAssumption DEF Runtimes
<1>2. TypeOK
  BY <1>1 DEF Init, TypeOK, Asking
<1>3. \A r \in Runs : RowOK(r) /\ TableOK(r) /\ StopOK(r)
  BY DEF Init, RowOK, TableOK, StopOK, TaskPcs, BeforeFinish
<1> QED
  BY <1>2, <1>3 DEF IInv

--------------------------------------------------------------------------------
(* The steps of a task, one after the other *)

LEMMA StartRunIInv == ASSUME IInv, NEW r \in Runs, StartRun(r) PROVE IInv'
PROOF
<1> USE DEF IInv, StartRun, Goto, workspace
<1>1. TypeOK'
  BY DEF TypeOK
<1>2. \A q \in Runs : RowOK(q)'
  BY DEF TypeOK, RowOK, TaskPcs, BeforeFinish
<1>3. \A q \in Runs : TableOK(q)'
  BY DEF TypeOK, TableOK, TaskPcs, BeforeFinish
<1>4. \A q \in Runs : StopOK(q)'
  BY DEF TypeOK, StopOK
<1> QED
  BY <1>1, <1>2, <1>3, <1>4

(* From the mark in the table to finish: rows and stops stay as they are. *)
LEMMA StartingIInv ==
    ASSUME IInv, NEW r \in Runs,
           \/ MarkExecuting(r) \/ CheckTools(r) \/ WaitForTools(r) \/ SwapRuntime(r)
           \/ TakeStopRequest(r)
    PROVE  IInv'
PROOF
<1> USE DEF IInv, MarkExecuting, CheckTools, WaitForTools, SwapRuntime, TakeStopRequest, Goto,
            workspace, runs
<1>1. TypeOK'
  BY DEF TypeOK, TaskPcs, BeforeFinish
<1>2. \A q \in Runs : RowOK(q)'
  BY DEF TypeOK, RowOK, TaskPcs, BeforeFinish
<1>3. \A q \in Runs : TableOK(q)'
  BY NobodyIsNoRuntime DEF TypeOK, TableOK, TaskPcs, BeforeFinish
<1>4. \A q \in Runs : StopOK(q)'
  BY DEF TypeOK, StopOK
<1> QED
  BY <1>1, <1>2, <1>3, <1>4

LEMMA RegisterStopIInv == ASSUME IInv, NEW r \in Runs, RegisterStop(r) PROVE IInv'
PROOF
<1> USE DEF IInv, RegisterStop, Goto, workspace, runs
<1>1. rt[r] \in Runtimes
  BY DEF TypeOK, TableOK, TaskPcs, BeforeFinish
<1>2. TypeOK'
  BY <1>1 DEF TypeOK, TaskPcs, BeforeFinish
<1>3. \A q \in Runs : RowOK(q)'
  BY DEF TypeOK, RowOK, TaskPcs, BeforeFinish
<1>4. \A q \in Runs : TableOK(q)'
  BY DEF TypeOK, TableOK, TaskPcs, BeforeFinish
<1>5. \A q \in Runs : StopOK(q)'
  BY <1>1 DEF TypeOK, StopOK
<1> QED
  BY <1>2, <1>3, <1>4, <1>5

LEMMA UnregisterStopIInv == ASSUME IInv, NEW r \in Runs, UnregisterStop(r) PROVE IInv'
PROOF
<1> USE DEF IInv, UnregisterStop, Goto, workspace, runs
<1>1. rt[r] \in Runtimes
  BY DEF TypeOK, TableOK, TaskPcs, BeforeFinish
<1>2. TypeOK'
  BY <1>1 DEF TypeOK, TaskPcs, BeforeFinish
<1>3. \A q \in Runs : RowOK(q)'
  BY DEF TypeOK, RowOK, TaskPcs, BeforeFinish
<1>4. \A q \in Runs : TableOK(q)'
  BY DEF TypeOK, TableOK, TaskPcs, BeforeFinish
<1>5. \A q \in Runs : StopOK(q)'
  BY <1>1 DEF TypeOK, StopOK
<1> QED
  BY <1>2, <1>3, <1>4, <1>5

(* execute and its end: only the row of r, and its step. *)
LEMMA ExecutingIInv ==
    ASSUME IInv, NEW r \in Runs, Execute(r) \/ Cancelled(r)
    PROVE  IInv'
PROOF
<1> USE DEF IInv, Execute, Cancelled, Goto, workspace, runs
<1>1. TypeOK'
  BY DEF TypeOK, TaskPcs, BeforeFinish
<1>2. \A q \in Runs : RowOK(q)'
  BY DEF TypeOK, RowOK, TaskPcs, BeforeFinish
<1>3. \A q \in Runs : TableOK(q)'
  BY DEF TypeOK, TableOK, TaskPcs, BeforeFinish
<1>4. \A q \in Runs : StopOK(q)'
  BY DEF TypeOK, StopOK
<1> QED
  BY <1>1, <1>2, <1>3, <1>4

LEMMA EndingIInv ==
    ASSUME IInv, NEW r \in Runs,
           CancelRun(r) \/ RecordFailure(r) \/ Unmark(r) \/ Forget(r)
    PROVE  IInv'
PROOF
<1> USE DEF IInv, CancelRun, RecordFailure, Unmark, Forget, FailRun, Goto, workspace, runs
<1>1. TypeOK'
  BY DEF TypeOK, TaskPcs, BeforeFinish
<1>2. \A q \in Runs : RowOK(q)'
  BY DEF TypeOK, RowOK, TaskPcs, BeforeFinish
<1>3. \A q \in Runs : TableOK(q)'
  BY DEF TypeOK, TableOK, TaskPcs, BeforeFinish
<1>4. \A q \in Runs : StopOK(q)'
  BY DEF TypeOK, StopOK
<1> QED
  BY <1>1, <1>2, <1>3, <1>4

--------------------------------------------------------------------------------
(* The stop requests, the workspace and the process *)

LEMMA StopRequestIInv ==
    ASSUME IInv, NEW s \in Stoppers,
           StopStep(s) \/ \E r \in Runs : FindRuntime(s, r)
    PROVE  IInv'
PROOF
<1> USE DEF IInv, workspace, runs
<1>1. asking[s].step \in {"record", "notify"} =>
          asking[s] \in [step : {"record", "notify"}, run : Runs, runtime : Runtimes,
                         met : BOOLEAN]
  BY DEF TypeOK, Asking, Idle
<1>2. CASE RequestStop(s)
  <2>1. TypeOK'
    BY <1>1, <1>2 DEF RequestStop, TypeOK, Asking
  <2> QED
    BY <1>2, <2>1 DEF RequestStop, RowOK, TableOK, StopOK
<1>3. CASE NotifyRuntime(s)
  <2>1. TypeOK'
    BY <1>1, <1>3 DEF NotifyRuntime, TypeOK, Asking
  <2>2. \A q \in Runs : StopOK(q)'
    BY <1>1, <1>3 DEF NotifyRuntime, TypeOK, StopOK
  <2> QED
    BY <1>3, <2>1, <2>2 DEF NotifyRuntime, RowOK, TableOK
<1>4. ASSUME NEW r \in Runs, FindRuntime(s, r) PROVE IInv'
  <2>1. executing[r] \in Runtimes
    BY <1>4 DEF FindRuntime, TypeOK
  <2>2. TypeOK'
    BY <1>4, <2>1 DEF FindRuntime, TypeOK, Asking
  <2> QED
    BY <1>4, <2>2 DEF FindRuntime, RowOK, TableOK, StopOK
<1> QED
  BY <1>2, <1>3, <1>4 DEF StopStep

(* The table spares every run with a task, the lock the run being marked: so a
   run recovery takes for stale has left no trace but its row. *)
LEMMA RecoverIInv == ASSUME IInv, Recover PROVE IInv'
PROOF
<1> USE DEF IInv, Recover, workspace
<1>1. TypeOK'
  BY DEF TypeOK
<1>2. \A q \in Runs : status[q] = "running" /\ executing[q] = Nobody =>
          pc[q] \notin TaskPcs \cup {"recorded"}
  BY DEF TableOK, Unlocked
<1>3. \A q \in Runs : RowOK(q)'
  BY <1>2 DEF TypeOK, RowOK, TaskPcs, BeforeFinish
<1> QED
  BY <1>1, <1>3 DEF TableOK, StopOK

LEMMA ProcessIInv == ASSUME IInv, Reload \/ ToolsStartOrEnd \/ Restart PROVE IInv'
PROOF
<1> USE DEF IInv, Reload, ToolsStartOrEnd, Restart, workspace, runs
<1>1. TypeOK'
  <2>1. CASE Reload
    BY <2>1, MaxRuntimesAssumption DEF TypeOK, Runtimes
  <2>2. CASE ToolsStartOrEnd
    BY <2>2 DEF TypeOK
  <2>3. CASE Restart
    <3>1. Idle \in Asking
      BY DEF Asking
    <3> QED
      BY <2>3, <3>1 DEF TypeOK
  <2> QED
    BY <2>1, <2>2, <2>3
<1>2. \A q \in Runs : RowOK(q)'
  BY DEF RowOK, TaskPcs, BeforeFinish
<1>3. \A q \in Runs : TableOK(q)'
  BY DEF TableOK, TaskPcs, BeforeFinish
<1>4. \A q \in Runs : StopOK(q)'
  BY DEF StopOK
<1> QED
  BY <1>1, <1>2, <1>3, <1>4

LEMMA NextIInv == IInv /\ [Next]_vars => IInv'
PROOF
<1> SUFFICES ASSUME IInv, [Next]_vars PROVE IInv'
  OBVIOUS
<1>1. CASE Reload \/ ToolsStartOrEnd \/ Restart
  BY <1>1, ProcessIInv
<1>2. CASE Recover
  BY <1>2, RecoverIInv
<1>3. ASSUME NEW r \in Runs, StartRun(r) \/ TaskStep(r) \/ Execute(r) \/ Cancelled(r)
      PROVE  IInv'
  BY <1>3, StartRunIInv, StartingIInv, RegisterStopIInv, ExecutingIInv, UnregisterStopIInv,
     EndingIInv DEF TaskStep
<1>4. ASSUME NEW s \in Stoppers, StopStep(s) \/ \E r \in Runs : FindRuntime(s, r)
      PROVE  IInv'
  BY <1>4, StopRequestIInv
<1>5. CASE UNCHANGED vars
  BY <1>5 DEF vars, IInv, TypeOK, RowOK, TableOK, StopOK
<1> QED
  BY <1>1, <1>2, <1>3, <1>4, <1>5 DEF Next

LEMMA InvariantHolds == Spec => []IInv
PROOF
<1> QED
  BY InitIInv, NextIInv, PTL DEF Spec

--------------------------------------------------------------------------------
(* The theorems *)

(* Every reachable state is well-typed: rows have the statuses and codes of the
   schema, and the tables and requests name runs and runtimes that exist. *)
THEOREM TypeCorrect == Spec => []TypeOK
PROOF
<1>1. IInv => TypeOK
  BY DEF IInv
<1> QED
  BY InvariantHolds, <1>1, PTL

(* A recovery at any moment leaves alone the runs the server has accepted,
   however many runs, stops, reloads and restarts there are. *)
THEOREM RecoverySparesAccepted == Spec => []AcceptedRunsAreSpared
PROOF
<1>1. IInv => AcceptedRunsAreSpared
  BY DEF IInv, RowOK, AcceptedRunsAreSpared
<1> QED
  BY InvariantHolds, <1>1, PTL

(* The executing table names exactly the runs with a task and the runtime each
   is in the hands of, which alone has a stop registered for it. *)
THEOREM TableIsExact == Spec => []ExecutingIsExact
PROOF
<1>1. IInv => ExecutingIsExact
  BY DEF IInv, TableOK, StopOK, ExecutingIsExact
<1> QED
  BY InvariantHolds, <1>1, PTL

--------------------------------------------------------------------------------
(* The live configuration, for any editors and starts of the tools. *)

(* The steps each kind of actor takes. *)
Reloading == {"reload", "build", "guard", "install", "end", "failed"}
RoleOK(a) ==
    at[a] \in (Reloading \cup {"idle"}) \cup
        (IF a \in Starters THEN {"start", "load", "discover", "decide", "pool"} ELSE {}) \cup
        (IF a \in ServerEditors THEN {"save", "start", "load", "discover", "decide", "pool"} ELSE {}) \cup
        (IF a \in PolicyEditors THEN {"save", "policies", "decide"} ELSE {}) \cup
        (IF a \in ProviderEditors THEN {"save"} ELSE {})

(* An edit under way holds its lock. *)
LockOK(a) ==
    /\ a \in ToolEditors /\ at[a] # "idle" => toolLock = a
    /\ a \in ProviderEditors /\ at[a] # "idle" => editLock = a

(* An editor has met the kinds that are active while it is. *)
MetOK(a) == at[a] # "idle" /\ a \notin Starters =>
    \A kind \in Kinds \ {KindOf(a)} : Active(kind) => kind \in met[a]

(* What an editor of the tools has saved is the file, and has been put in force as *)
(* far as its step says, unless the start of the tools came in between.            *)
SavedOK(a) ==
    a \in ToolEditors /\ at[a] \notin {"idle", "save"} => seen[a] = file /\ file # 0

Overtaken(a) == "start" \in met[a]

DecidedOK(a) ==
    a \in ToolEditors /\ ~Overtaken(a) =>
        /\ at[a] \in {"pool", "reload", "build", "guard", "install", "end"} => decided = file
        /\ at[a] \in {"reload", "build", "guard", "install", "end"} /\ a \in ServerEditors =>
              pool.config = file /\ pool.started = file
        /\ at[a] \in {"decide", "reload", "build", "guard", "install", "end"} /\ a \in PolicyEditors =>
              pool = NoPool \/ pool.config = file

(* What a reload has read is as it was, unless another was under way. *)
ReadOK(a) ==
    met[a] = {} =>
        /\ a \in ToolEditors /\ at[a] \in {"build", "guard", "install", "end"} =>
              read[a].tools = pool /\ (pool # NoPool => described = pool)
        /\ a \in ToolEditors /\ at[a] = "end" => runtime.tools = pool
        /\ a \in ProviderEditors /\ at[a] \in {"guard", "install", "end"} =>
              read[a].providers = providers
        /\ a \in ProviderEditors /\ at[a] \in {"install", "end"} => guard = providers
        /\ a \in ProviderEditors /\ at[a] = "end" => runtime.providers = providers

ActorOK(a) ==
    RoleOK(a) /\ LockOK(a) /\ MetOK(a) /\ SavedOK(a) /\ DecidedOK(a) /\ ReadOK(a)
ConfigInv == ConfigTypeOK /\ \A a \in Actors : ActorOK(a)

--------------------------------------------------------------------------------
(* Steps *)

Steps(a) ==
    \/ LockTools(a) \/ LockEdits(a) \/ SaveTools(a) \/ SaveProviders(a) \/ GiveUp(a)
    \/ SetPolicies(a) \/ SetConfig(a)
    \/ StartTools(a) \/ LoadConfig(a) \/ Discover(a) \/ Disconnect(a) \/ ReplacePool(a)
    \/ ReadPool(a) \/ Build(a) \/ SetGuard(a) \/ Install(a) \/ End(a)

LEMMA KindsAreApart ==
    /\ Starters \cap ToolEditors = {} /\ Starters \cap ProviderEditors = {}
    /\ ToolEditors \cap ProviderEditors = {}
    /\ ToolEditors = ServerEditors \cup PolicyEditors
    /\ ServerEditors \cap PolicyEditors = {} /\ NoEditor \notin Actors
    /\ Actors = Starters \cup ToolEditors \cup ProviderEditors
BY KindsAssumption, NoEditorAssumption DEF ToolEditors, Actors

LEMMA KindsOfActors ==
  ASSUME NEW a \in Actors
  PROVE  /\ KindOf(a) \in Kinds
         /\ a \in Starters => KindOf(a) = "start"
         /\ a \in ToolEditors => KindOf(a) = "tools"
         /\ a \in ProviderEditors => KindOf(a) = "providers"
BY KindsAreApart DEF KindOf, Kinds

(* An editor has met an active actor of another kind. *)
LEMMA Met ==
  ASSUME NEW a \in Actors, NEW b \in Actors, MetOK(a), a \notin Starters,
         at[a] # "idle", at[b] # "idle", KindOf(a) # KindOf(b)
  PROVE  KindOf(b) \in met[a]
<1>1. Active(KindOf(b)) BY DEF Active
<1> QED BY <1>1, KindsOfActors DEF MetOK

(* A kind that has been met stays so until the editor is done. *)
LEMMA MetGrows ==
  ASSUME Meet, NEW a \in Actors, at'[a] # "idle", a \notin Starters
  PROVE  met[a] \subseteq met'[a] /\ MetOK(a)'
<1>1. met'[a] = met[a] \cup {kind \in Kinds \ {KindOf(a)} : Active(kind)'} BY DEF Meet
<1> QED BY <1>1 DEF MetOK

LEMMA MeetTypes == ASSUME ConfigTypeOK, Meet PROVE met' \in [Actors -> SUBSET Kinds]
BY DEF ConfigTypeOK, Meet

(* A step is of one actor, and each variable has its writers: the file has the     *)
(* editors of the tools, which hold their lock, the decisions and the pool have    *)
(* those and the starts of the tools, the runtime whoever is active.               *)
LEMMA StepWrites ==
  ASSUME ConfigTypeOK, NEW a \in Actors, RoleOK(a), Steps(a)
  PROVE  /\ \A b \in Actors \ {a} : at'[b] = at[b] /\ seen'[b] = seen[b] /\ read'[b] = read[b]
         /\ at[a] = "idle" => \/ a \in ToolEditors /\ toolLock = NoEditor
                              \/ a \in ProviderEditors /\ editLock = NoEditor
         /\ at[a] = "idle" => UNCHANGED <<file, providers, pool, decided, described, guard, runtime>>
         /\ a \in ProviderEditors => UNCHANGED <<file, pool, decided, toolLock>>
         /\ a \in Starters => UNCHANGED <<file, providers, locks>>
         /\ a \in ToolEditors => UNCHANGED <<providers, editLock>>
<1> USE KindsAreApart DEF ConfigTypeOK, Moves, RoleOK, Reloading, files, locks, approvals
<1>1. CASE LockTools(a) \/ LockEdits(a) BY <1>1 DEF LockTools, LockEdits
<1>2. CASE SaveTools(a) \/ SaveProviders(a) BY <1>2 DEF SaveTools, SaveProviders
<1>3. CASE GiveUp(a) \/ Disconnect(a) \/ End(a)
  <2>1. /\ at[a] \in {"save", "discover", "end", "failed"}
        /\ \A b \in Actors \ {a} : at'[b] = at[b] /\ seen'[b] = seen[b] /\ read'[b] = read[b]
        /\ UNCHANGED <<files, pool, approvals, runtime>>
    BY <1>3 DEF GiveUp, Disconnect, End, Leave
  <2>2. /\ toolLock' = IF toolLock = a THEN NoEditor ELSE toolLock
        /\ editLock' = IF editLock = a THEN NoEditor ELSE editLock
    BY <1>3 DEF GiveUp, Disconnect, End, Leave
  <2>3. /\ a \notin ToolEditors => toolLock' = toolLock
        /\ a \notin ProviderEditors => editLock' = editLock
    BY <2>2
  <2> QED BY <2>1, <2>3
<1>4. CASE SetPolicies(a) \/ SetConfig(a) BY <1>4 DEF SetPolicies, SetConfig
<1>5. CASE StartTools(a) \/ LoadConfig(a) \/ Discover(a) \/ ReplacePool(a)
  BY <1>5 DEF StartTools, LoadConfig, Discover, ReplacePool
<1>6. CASE ReadPool(a) \/ Build(a) \/ SetGuard(a) \/ Install(a)
  BY <1>6 DEF ReadPool, Build, SetGuard, Install
<1> QED BY <1>1, <1>2, <1>3, <1>4, <1>5, <1>6 DEF Steps

LEMMA StepTypes ==
  ASSUME ConfigTypeOK, NEW a \in Actors, Steps(a), Meet
  PROVE  ConfigTypeOK'
<1> USE VersionsAssumption, KindsAreApart
    DEF ConfigTypeOK, Moves, files, locks, approvals, Files, Pools, NoPool, Live, NoLive
<1>0. met' \in [Actors -> SUBSET Kinds] BY MeetTypes
<1>1. CASE LockTools(a) \/ LockEdits(a) BY <1>0, <1>1 DEF LockTools, LockEdits
<1>2. CASE SaveTools(a) \/ SaveProviders(a) BY <1>0, <1>2 DEF SaveTools, SaveProviders
<1>3. CASE GiveUp(a) \/ Disconnect(a) \/ End(a)
  <2>1. /\ at' = [at EXCEPT ![a] = "idle"] /\ toolsStarting' \in BOOLEAN
        /\ UNCHANGED <<files, pool, approvals, runtime>>
    BY <1>3 DEF GiveUp, Disconnect, End
  <2>2. Leave(a) BY <1>3 DEF GiveUp, Disconnect, End
  <2>3. toolLock' \in ToolEditors \cup {NoEditor} /\ editLock' \in ProviderEditors \cup {NoEditor}
    BY <2>2 DEF Leave
  <2>4. seen' \in [Actors -> Files] /\ read' \in [Actors -> Live] BY <2>2 DEF Leave
  <2> QED BY <1>0, <2>1, <2>3, <2>4
<1>4. CASE SetPolicies(a) \/ SetConfig(a)
  <2>1. [pool EXCEPT !.config = seen[a]] \in Pools OBVIOUS
  <2> QED BY <1>0, <1>4, <2>1 DEF SetPolicies, SetConfig
<1>5. CASE StartTools(a) \/ LoadConfig(a) \/ Discover(a) \/ ReplacePool(a)
  <2>1. CASE StartTools(a) BY <1>0, <2>1 DEF StartTools
  <2>2. CASE LoadConfig(a) BY <1>0, <2>2 DEF LoadConfig
  <2>3. CASE Discover(a) \/ ReplacePool(a) BY <1>0, <2>3 DEF Discover, ReplacePool
  <2> QED BY <1>5, <2>1, <2>2, <2>3
<1>6. CASE ReadPool(a)
  <2>1. read' = [read EXCEPT ![a] = [@ EXCEPT !.tools = pool]] BY <1>6 DEF ReadPool
  <2>2. [read[a] EXCEPT !.tools = pool] \in Live OBVIOUS
  <2>3. read' \in [Actors -> Live] BY <2>1, <2>2
  <2> QED BY <1>0, <1>6, <2>3 DEF ReadPool
<1>7. CASE Build(a)
  <2>1. PICK new : new = [read[a] EXCEPT !.providers = providers] OBVIOUS
  <2>2. new \in Live BY <2>1
  <2>3. read' = read \/ read' = [read EXCEPT ![a] = new] BY <1>7, <2>1 DEF Build
  <2>4. read' \in [Actors -> Live] BY <2>2, <2>3
  <2> QED BY <1>0, <1>7, <2>4 DEF Build
<1>8. CASE SetGuard(a) \/ Install(a)
  <2>1. read[a] \in Live OBVIOUS
  <2>2. CASE SetGuard(a) BY <1>0, <2>1, <2>2 DEF SetGuard
  <2>3. CASE Install(a) BY <1>0, <2>1, <2>3 DEF Install
  <2> QED BY <1>8, <2>2, <2>3
<1> QED BY <1>1, <1>2, <1>3, <1>4, <1>5, <1>6, <1>7, <1>8 DEF Steps

(* The actor that takes the step. *)
LEMMA OwnStep ==
  ASSUME ConfigTypeOK, NEW a \in Actors, ActorOK(a), Steps(a), Meet, ConfigTypeOK'
  PROVE  ActorOK(a)'
<1>1. CASE at'[a] = "idle"
  <2>1. met'[a] = {} BY <1>1 DEF Meet
  <2> QED BY <1>1 DEF ActorOK, RoleOK, LockOK, MetOK, SavedOK, DecidedOK, ReadOK
<1>2. CASE at'[a] # "idle"
  <2>1. MetOK(a)' /\ (a \notin Starters => met[a] \subseteq met'[a]) BY <1>2, MetGrows DEF MetOK
  <2>2. RoleOK(a)' /\ LockOK(a)' /\ SavedOK(a)'
    <3> USE <1>2, KindsAreApart, VersionsAssumption
        DEF ActorOK, ConfigTypeOK, RoleOK, LockOK, SavedOK, Reloading, Moves, files, locks, Files
    <3>1. CASE LockTools(a) \/ LockEdits(a) BY <3>1 DEF LockTools, LockEdits
    <3>2. CASE SaveTools(a) \/ SaveProviders(a) BY <3>2 DEF SaveTools, SaveProviders
    <3>3. CASE GiveUp(a) \/ Disconnect(a) \/ End(a) BY <3>3 DEF GiveUp, Disconnect, End, Leave
    <3>4. CASE SetPolicies(a) \/ SetConfig(a) BY <3>4 DEF SetPolicies, SetConfig
    <3>5. CASE StartTools(a) \/ LoadConfig(a) \/ Discover(a) \/ ReplacePool(a)
      BY <3>5 DEF StartTools, LoadConfig, Discover, ReplacePool
    <3>6. CASE ReadPool(a) \/ Build(a) \/ SetGuard(a) \/ Install(a)
      BY <3>6 DEF ReadPool, Build, SetGuard, Install
    <3> QED BY <3>1, <3>2, <3>3, <3>4, <3>5, <3>6 DEF Steps
  <2>3. DecidedOK(a)'
    <3> SUFFICES ASSUME a \in ToolEditors, ~Overtaken(a)'
                 PROVE  DecidedOK(a)' BY DEF DecidedOK
    <3>0. ~Overtaken(a) /\ SavedOK(a) /\ DecidedOK(a) /\ RoleOK(a)
      BY <2>1, KindsAreApart DEF Overtaken, ActorOK
    <3> USE <1>2, <3>0, KindsAreApart
        DEF ConfigTypeOK, RoleOK, SavedOK, DecidedOK, Reloading, Moves, files, locks, approvals,
            NoPool, Pools, Files
    <3>1. CASE LockTools(a) \/ LockEdits(a) BY <3>1 DEF LockTools, LockEdits
    <3>2. CASE SaveTools(a) \/ SaveProviders(a) BY <3>2 DEF SaveTools, SaveProviders
    <3>3. CASE GiveUp(a) \/ Disconnect(a) \/ End(a) BY <3>3 DEF GiveUp, Disconnect, End, Leave
    <3>4. CASE SetPolicies(a) \/ SetConfig(a) BY <3>4 DEF SetPolicies, SetConfig
    <3>5. CASE StartTools(a) \/ LoadConfig(a) \/ Discover(a) \/ ReplacePool(a)
      BY <3>5 DEF StartTools, LoadConfig, Discover, ReplacePool
    <3>6. CASE ReadPool(a) \/ Build(a) \/ SetGuard(a) \/ Install(a)
      BY <3>6 DEF ReadPool, Build, SetGuard, Install
    <3> QED BY <3>1, <3>2, <3>3, <3>4, <3>5, <3>6 DEF Steps
  <2>4. ReadOK(a)'
    <3> SUFFICES ASSUME met'[a] = {}, a \notin Starters PROVE ReadOK(a)'
      BY KindsAreApart DEF ReadOK
    <3>0. met[a] = {} /\ ReadOK(a) /\ RoleOK(a) BY <2>1 DEF ActorOK
    <3> USE <1>2, <3>0, KindsAreApart
        DEF ConfigTypeOK, RoleOK, ReadOK, Reloading, Moves, files, locks, approvals, Live
    <3>1. CASE LockTools(a) \/ LockEdits(a) BY <3>1 DEF LockTools, LockEdits
    <3>2. CASE SaveTools(a) \/ SaveProviders(a) BY <3>2 DEF SaveTools, SaveProviders
    <3>3. CASE GiveUp(a) \/ Disconnect(a) \/ End(a) BY <3>3 DEF GiveUp, Disconnect, End, Leave
    <3>4. CASE SetPolicies(a) \/ SetConfig(a) BY <3>4 DEF SetPolicies, SetConfig
    <3>5. CASE StartTools(a) \/ LoadConfig(a) \/ Discover(a) \/ ReplacePool(a)
      BY <3>5 DEF StartTools, LoadConfig, Discover, ReplacePool
    <3>6. CASE ReadPool(a) \/ Build(a) \/ SetGuard(a) \/ Install(a)
      BY <3>6 DEF ReadPool, Build, SetGuard, Install
    <3> QED BY <3>1, <3>2, <3>3, <3>4, <3>5, <3>6 DEF Steps
  <2> QED BY <2>1, <2>2, <2>3, <2>4 DEF ActorOK
<1> QED BY <1>1, <1>2

(* The others: a lock keeps their own kind out, and whom it does not keep out they *)
(* have met.                                                                       *)
LEMMA OthersStep ==
  ASSUME ConfigTypeOK, NEW a \in Actors, ActorOK(a), Steps(a), Meet, ConfigTypeOK',
         NEW b \in Actors, b # a, ActorOK(b)
  PROVE  ActorOK(b)'
<1>1. /\ at'[b] = at[b] /\ seen'[b] = seen[b] /\ read'[b] = read[b]
      /\ at[a] = "idle" => \/ a \in ToolEditors /\ toolLock = NoEditor
                           \/ a \in ProviderEditors /\ editLock = NoEditor
      /\ at[a] = "idle" => UNCHANGED <<file, providers, pool, decided, described, guard, runtime>>
      /\ a \in ProviderEditors => UNCHANGED <<file, pool, decided, toolLock>>
      /\ a \in Starters => UNCHANGED <<file, providers, locks>>
      /\ a \in ToolEditors => UNCHANGED <<providers, editLock>>
  BY StepWrites DEF ActorOK
<1>2. CASE at[b] = "idle"
  <2>1. met'[b] = {} BY <1>1, <1>2 DEF Meet
  <2> QED BY <1>1, <1>2 DEF ActorOK, RoleOK, LockOK, MetOK, SavedOK, DecidedOK, ReadOK
<1>3. CASE at[b] # "idle"
  <2>1. MetOK(b)' /\ (b \notin Starters => met[b] \subseteq met'[b])
    BY <1>1, <1>3, MetGrows DEF MetOK
  <2>2. b \in ToolEditors => a \notin ToolEditors
    BY <1>1, <1>3, KindsAreApart DEF ActorOK, LockOK
  <2>3. b \in ProviderEditors => a \notin ProviderEditors
    BY <1>1, <1>3, KindsAreApart DEF ActorOK, LockOK
  <2>4. at[a] # "idle" /\ b \notin Starters => KindOf(a) \in met[b]
    <3>1. b \notin Starters => KindOf(a) # KindOf(b)
      BY <2>2, <2>3, KindsAreApart, KindsOfActors
    <3> QED BY <1>3, <3>1, Met DEF ActorOK
  <2>5. RoleOK(b)' BY <1>1 DEF ActorOK, RoleOK
  <2>6. LockOK(b)' BY <1>1, <2>2, <2>3, KindsAreApart DEF ActorOK, LockOK, locks
  <2>7. b \in ToolEditors => UNCHANGED file
    BY <1>1, <2>2, KindsAreApart
  <2>8. SavedOK(b)' BY <1>1, <2>7 DEF ActorOK, SavedOK
  <2>9. DecidedOK(b)'
    <3> SUFFICES ASSUME b \in ToolEditors, ~Overtaken(b)' PROVE DecidedOK(b)' BY DEF DecidedOK
    <3>1. ~Overtaken(b) /\ (at[a] = "idle" \/ a \notin Starters)
      BY <2>1, <2>4, KindsAreApart, KindsOfActors DEF Overtaken
    <3>2. UNCHANGED <<pool, decided>> BY <1>1, <2>2, <3>1, KindsAreApart
    <3> QED BY <1>1, <2>7, <3>1, <3>2 DEF ActorOK, DecidedOK
  <2>10. ReadOK(b)'
    <3> SUFFICES ASSUME met'[b] = {}, b \in ToolEditors \/ b \in ProviderEditors PROVE ReadOK(b)'
      BY DEF ReadOK
    <3>1. met[b] = {} /\ at[a] = "idle" BY <2>1, <2>4, KindsAreApart
    <3> QED BY <1>1, <3>1 DEF ActorOK, ReadOK
  <2> QED BY <2>1, <2>5, <2>6, <2>8, <2>9, <2>10 DEF ActorOK
<1> QED BY <1>2, <1>3

LEMMA ConfigInitInv == ConfigInit => ConfigInv
<1> SUFFICES ASSUME ConfigInit PROVE ConfigInv OBVIOUS
<1>1. ConfigTypeOK
  BY VersionsAssumption DEF ConfigInit, ConfigTypeOK, Files, Pools, NoPool, Live, NoLive
<1>2. ASSUME NEW a \in Actors PROVE ActorOK(a)
  <2> USE KindsAreApart DEF ConfigInit
  <2>1. at[a] = IF a \in Starters THEN "start" ELSE "idle" OBVIOUS
  <2>2. RoleOK(a) /\ LockOK(a) /\ SavedOK(a) /\ DecidedOK(a) /\ ReadOK(a)
    BY <2>1 DEF RoleOK, LockOK, SavedOK, DecidedOK, ReadOK
  <2>3. MetOK(a)
    <3> SUFFICES ASSUME at[a] # "idle", a \notin Starters PROVE FALSE BY DEF MetOK
    <3> QED BY <2>1
  <2> QED BY <2>2, <2>3 DEF ActorOK
<1> QED BY <1>1, <1>2 DEF ConfigInv

LEMMA ConfigNextInv == ConfigInv /\ [ConfigNext]_configVars => ConfigInv'
<1> SUFFICES ASSUME ConfigInv, [ConfigNext]_configVars PROVE ConfigInv' OBVIOUS
<1>1. CASE ConfigNext
  <2>1. PICK a \in Actors : Steps(a) BY <1>1 DEF ConfigNext, Steps
  <2>2. ConfigTypeOK' BY <1>1, <2>1, StepTypes DEF ConfigNext, ConfigInv
  <2>3. ActorOK(a)' BY <1>1, <2>1, <2>2, OwnStep DEF ConfigNext, ConfigInv
  <2>4. \A b \in Actors \ {a} : ActorOK(b)'
    BY <1>1, <2>1, <2>2, OthersStep DEF ConfigNext, ConfigInv
  <2> QED BY <2>2, <2>3, <2>4 DEF ConfigInv
<1>2. CASE UNCHANGED configVars
  BY <1>2 DEF configVars, ConfigInv, ConfigTypeOK, ActorOK, RoleOK, LockOK, MetOK, Active, SavedOK,
              Overtaken, DecidedOK, ReadOK
<1> QED BY <1>1, <1>2

LEMMA ConfigInvHolds == ConfigSpec => []ConfigInv
BY ConfigInitInv, ConfigNextInv, PTL DEF ConfigSpec

(* An actor is done only by its own last step. *)
LEMMA CompletionsEnd ==
  ASSUME ConfigInv, ConfigNext, NEW a \in Actors, Completes(a)
  PROVE  UNCHANGED <<file, providers, pool, decided, described, guard, runtime>>
<1>1. PICK b \in Actors : Steps(b) BY DEF ConfigNext, Steps
<1>2. b = a BY <1>1, StepWrites DEF ConfigInv, ActorOK, Completes
<1>3. at[a] = "end" BY DEF Completes
<1>4. End(a)
  BY <1>1, <1>2, <1>3 DEF Steps, Moves, LockTools, LockEdits, SaveTools, SaveProviders, GiveUp,
     SetPolicies, SetConfig, StartTools, LoadConfig, Discover, Disconnect, ReplacePool, ReadPool,
     Build, SetGuard, Install
<1> QED BY <1>4 DEF End, files, approvals

(* Whatever editors and starts of the tools there are, and whichever of them    *)
(* failed or were cut off before: an edit of the tools that the app confirms is *)
(* what calls are decided by and, in the pool, what new runs are offered and    *)
(* the guard is told of, an edit of the providers is what new runs and the      *)
(* guard use, as far as its lock reaches.                                       *)
THEOREM EditsInForce == ConfigSpec => EditsApply
<1>1. ConfigInv => ConfigTypeOK BY DEF ConfigInv
<1>2. ASSUME ConfigInv, ConfigNext, NEW a \in ToolEditors, Completes(a)
      PROVE  /\ "start" \notin met[a] =>
                   /\ decided' = file'
                   /\ pool'.config = file' \/ (a \in PolicyEditors /\ pool' = NoPool)
                   /\ a \in ServerEditors => pool'.started = file'
             /\ met[a] = {} => runtime'.tools = pool' /\ (pool' # NoPool => described' = pool')
  <2>1. a \in Actors /\ at[a] = "end" BY <1>2, KindsAreApart DEF Completes
  <2>2. UNCHANGED <<file, pool, decided, described, runtime>> BY <1>2, <2>1, CompletionsEnd
  <2>3. DecidedOK(a) /\ ReadOK(a) BY <1>2, <2>1 DEF ConfigInv, ActorOK
  <2> QED BY <2>1, <2>2, <2>3, KindsAreApart DEF DecidedOK, Overtaken, ReadOK, ToolEditors
<1>3. ASSUME ConfigInv, ConfigNext, NEW a \in ProviderEditors, Completes(a), met[a] = {}
      PROVE  runtime'.providers = providers' /\ guard' = providers'
  <2>1. a \in Actors /\ at[a] = "end" BY <1>3, KindsAreApart DEF Completes
  <2>2. UNCHANGED <<providers, guard, runtime>> BY <1>3, <2>1, CompletionsEnd
  <2> QED BY <1>3, <2>1, <2>2 DEF ConfigInv, ActorOK, ReadOK
<1>4. ConfigInv /\ [ConfigNext]_configVars =>
        /\ [\A a \in ToolEditors : Completes(a) =>
              /\ "start" \notin met[a] =>
                    /\ decided' = file'
                    /\ pool'.config = file' \/ (a \in PolicyEditors /\ pool' = NoPool)
                    /\ a \in ServerEditors => pool'.started = file'
              /\ met[a] = {} => /\ runtime'.tools = pool'
                                /\ pool' # NoPool => described' = pool']_configVars
        /\ [\A a \in ProviderEditors : Completes(a) /\ met[a] = {} =>
              runtime'.providers = providers' /\ guard' = providers']_configVars
  BY <1>2, <1>3
<1> QED
  BY <1>1, <1>4, ConfigInvHolds, PTL
  DEF EditsApply, ToolEditsApply, ProviderEditsApply, ConfigSpec
================================================================================
