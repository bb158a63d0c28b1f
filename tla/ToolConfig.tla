------------------------------- MODULE ToolConfig -------------------------------
(***************************************************************************)
(* The live configuration of one `dagos serve` process: mcp.json and       *)
(* providers.json, and what Workspace (crates/dagos/src/workspace.rs)      *)
(* makes of them: the server pool, the policies, the descriptions and the  *)
(* guard Approvals decides by, and the runtime new runs use.               *)
(*                                                                         *)
(* Its editors are HTTP handlers (server.rs), each on a thread: of the     *)
(* servers (save_tool_server, remove_tool_server), of the policies         *)
(* (set_tool_policy, set_guard, "always allow"), and of providers, keys    *)
(* and lint rules (edit, save_lint_settings, set_dismissal).  The first    *)
(* two serialize with tool_edit_lock, the last with edit_lock; all of them *)
(* reload.  `dagos serve` also starts the tools once (main.rs), with no    *)
(* lock.  A client that disconnects drops its handler at an await.         *)
(*                                                                         *)
(* A file, a configuration or a set of tools is the version of the file it *)
(* came from; 0 stands for no mcp.json, no pool, no tools.  A pool has its *)
(* configuration and the servers it started, which may be of an older      *)
(* file.  What a server answers to discover does not matter here: its      *)
(* failure is skipped.                                                     *)
(***************************************************************************)
EXTENDS Naturals

CONSTANTS
    Starters,         \* the task that starts the tools, if it is still to run
    ServerEditors, PolicyEditors, ProviderEditors,
    NoEditor,
    NoGuard,          \* approvals.guard before the first reload
    InitialFile,      \* the version of mcp.json at start, 0 if there is none
    MaxFile,          \* bound: versions of mcp.json
    MaxProviders,     \* bound: versions of providers.json
    MayFail           \* whether files may be refused when read or written

ASSUME NoEditorAssumption ==
    NoEditor \notin Starters \cup ServerEditors \cup PolicyEditors \cup ProviderEditors
ASSUME KindsAssumption ==
    /\ Starters \cap (ServerEditors \cup PolicyEditors \cup ProviderEditors) = {}
    /\ ServerEditors \cap (PolicyEditors \cup ProviderEditors) = {}
    /\ PolicyEditors \cap ProviderEditors = {}
ASSUME VersionsAssumption ==
    /\ MaxFile \in Nat /\ MaxProviders \in Nat
    /\ InitialFile \in 0 .. MaxFile /\ MayFail \in BOOLEAN

ToolEditors == ServerEditors \cup PolicyEditors
Actors == Starters \cup ToolEditors \cup ProviderEditors

VARIABLES
    \* Files.
    file, providers,
    \* Workspace.
    toolLock, editLock,
    toolsStarting, \* tools_starting
    pool,         \* mcp: the pool's configuration, and the servers it started
    \* Approvals: config, tools, and the Jev of its guard.
    decided, described, guard,
    runtime,      \* the tools and the providers of the runtime new runs use
    \* Each actor: its step, the configuration it loaded or saved, and what its
    \* reload read.
    at, seen, read,
    \* History: the other kinds of actors, which no lock keeps apart from this
    \* editor, that have been active since it began.
    met

files == <<file, providers>>
locks == <<toolLock, editLock>>
approvals == <<decided, described, guard>>
configVars == <<file, providers, toolLock, editLock, toolsStarting, pool,
                decided, described, guard, runtime, at, seen, read, met>>

Files == 0 .. MaxFile
Pools == [config : Files, started : Files]
NoPool == [config |-> 0, started |-> 0]
Live == [tools : Pools, providers : 0 .. MaxProviders]
NoLive == [tools |-> NoPool, providers |-> 0]

ConfigInit ==
    /\ file = InitialFile
    /\ providers = 0
    /\ toolLock = NoEditor
    /\ editLock = NoEditor
    /\ toolsStarting = (InitialFile # 0)
    /\ pool = NoPool
    /\ decided = 0
    /\ described = NoPool
    /\ guard = NoGuard
    /\ runtime = NoLive
    /\ at = [a \in Actors |-> IF a \in Starters THEN "start" ELSE "idle"]
    /\ seen = [a \in Actors |-> 0]
    /\ read = [a \in Actors |-> NoLive]
    /\ met = [a \in Actors |-> {}]

Moves(a, from, step) == at[a] = from /\ at' = [at EXCEPT ![a] = step]

(* The handler ends: its locks and its locals are dropped. *)
Leave(a) ==
    /\ toolLock' = IF toolLock = a THEN NoEditor ELSE toolLock
    /\ editLock' = IF editLock = a THEN NoEditor ELSE editLock
    /\ seen' = [seen EXCEPT ![a] = 0]
    /\ read' = [read EXCEPT ![a] = NoLive]

--------------------------------------------------------------------------------
(* Edits *)

(* Mutant of LockTools: the edits of mcp.json are not serialized. *)
LockToolsNever(a) ==
    /\ a \in ToolEditors
    /\ Moves(a, "idle", "save")
    /\ UNCHANGED <<files, locks, toolsStarting, pool, approvals, runtime, seen, read>>

LockTools(a) ==
    /\ a \in ToolEditors
    /\ toolLock = NoEditor
    /\ toolLock' = a
    /\ Moves(a, "idle", "save")
    /\ UNCHANGED <<files, editLock, toolsStarting, pool, approvals, runtime, seen, read>>

LockEdits(a) ==
    /\ a \in ProviderEditors
    /\ editLock = NoEditor
    /\ editLock' = a
    /\ Moves(a, "idle", "save")
    /\ UNCHANGED <<files, toolLock, toolsStarting, pool, approvals, runtime, seen, read>>

(* McpConfig::save: the handler goes on to start_tools or to the policies. *)
SaveTools(a) ==
    /\ a \in ToolEditors
    /\ file < MaxFile
    /\ file' = file + 1
    /\ seen' = [seen EXCEPT ![a] = file + 1]
    /\ Moves(a, "save", IF a \in ServerEditors THEN "start" ELSE "policies")
    /\ UNCHANGED <<providers, locks, toolsStarting, pool, approvals, runtime, read>>

SaveProviders(a) ==
    /\ a \in ProviderEditors
    /\ providers < MaxProviders
    /\ providers' = providers + 1
    /\ Moves(a, "save", "reload")
    /\ UNCHANGED <<file, locks, toolsStarting, pool, approvals, runtime, seen, read>>

(* The edit is refused, or changes nothing. *)
GiveUp(a) ==
    /\ Moves(a, "save", "idle")
    /\ Leave(a)
    /\ UNCHANGED <<files, toolsStarting, pool, approvals, runtime>>

(* set_tool_policies: pool.set_policies, if there is a pool; no server is restarted. *)
SetPolicies(a) ==
    /\ Moves(a, "policies", "decide")
    /\ pool' = IF pool = NoPool THEN pool ELSE [pool EXCEPT !.config = seen[a]]
    /\ UNCHANGED <<files, locks, toolsStarting, approvals, runtime, seen, read>>

(* approvals.set_config *)
SetConfig(a) ==
    /\ Moves(a, "decide", IF a \in PolicyEditors THEN "reload" ELSE "pool")
    /\ decided' = seen[a]
    /\ UNCHANGED <<files, locks, toolsStarting, pool, described, guard, runtime, seen, read>>

--------------------------------------------------------------------------------
(* start_tools *)

StartTools(a) ==
    /\ Moves(a, "start", "load")
    /\ toolsStarting' = TRUE
    /\ UNCHANGED <<files, locks, pool, approvals, runtime, seen, read>>

LoadConfig(a) ==
    /\ \/ /\ Moves(a, "load", IF file = 0 THEN "pool" ELSE "discover")
          /\ seen' = [seen EXCEPT ![a] = file]
       \/ /\ MayFail
          /\ Moves(a, "load", "failed")
          /\ UNCHANGED seen
    /\ UNCHANGED <<files, locks, toolsStarting, pool, approvals, runtime, read>>

(* The servers answered, or their time was over. *)
Discover(a) ==
    /\ Moves(a, "discover", "decide")
    /\ UNCHANGED <<files, locks, toolsStarting, pool, approvals, runtime, seen, read>>

(* The client of save_tool_server is gone: its handler ends at the await. *)
Disconnect(a) ==
    /\ a \in ServerEditors
    /\ Moves(a, "discover", "idle")
    /\ Leave(a)
    /\ UNCHANGED <<files, toolsStarting, pool, approvals, runtime>>

ReplacePool(a) ==
    /\ Moves(a, "pool", "reload")
    /\ pool' = [config |-> seen[a], started |-> seen[a]]
    /\ UNCHANGED <<files, locks, toolsStarting, approvals, runtime, seen, read>>

--------------------------------------------------------------------------------
(* reload *)

(* The tools of the pool, if there is one, which approvals.set_tools learns, too. *)
ReadPool(a) ==
    /\ Moves(a, "reload", "build")
    /\ read' = [read EXCEPT ![a].tools = pool]
    /\ described' = IF pool = NoPool THEN described ELSE pool
    /\ UNCHANGED <<files, locks, toolsStarting, pool, decided, guard, runtime, seen>>

(* build reads providers.json, the keys and lint.json; on error the previous
   runtime stays. *)
Build(a) ==
    /\ \/ /\ Moves(a, "build", "guard")
          /\ read' = [read EXCEPT ![a].providers = providers]
       \/ /\ MayFail
          /\ Moves(a, "build", "failed")
          /\ UNCHANGED read
    /\ UNCHANGED <<files, locks, toolsStarting, pool, approvals, runtime, seen>>

(* approvals.set_guard: a guard that asks the Jev of the new runtime. *)
SetGuard(a) ==
    /\ Moves(a, "guard", "install")
    /\ guard' = read[a].providers
    /\ UNCHANGED <<files, locks, toolsStarting, pool, decided, described, runtime, seen, read>>

Install(a) ==
    /\ Moves(a, "install", "end")
    /\ runtime' = read[a]
    /\ UNCHANGED <<files, locks, toolsStarting, pool, approvals, seen, read>>

(* start_tools clears its flag, whatever became of it; the handler answers. *)
End(a) ==
    /\ Moves(a, "end", "idle") \/ Moves(a, "failed", "idle")
    /\ toolsStarting' = IF a \in Starters \cup ServerEditors THEN FALSE ELSE toolsStarting
    /\ Leave(a)
    /\ UNCHANGED <<files, pool, approvals, runtime>>

Kinds == {"start", "tools", "providers"}
KindOf(a) == IF a \in Starters THEN "start" ELSE IF a \in ToolEditors THEN "tools" ELSE "providers"
Active(kind) == \E b \in Actors : KindOf(b) = kind /\ at[b] # "idle"

Meet ==
    met' = [a \in Actors |->
               IF at'[a] = "idle" \/ a \in Starters THEN {}
               ELSE met[a] \cup {kind \in Kinds \ {KindOf(a)} : Active(kind)'}]

ConfigNext ==
    /\ \E a \in Actors :
          \/ LockTools(a) \/ LockEdits(a) \/ SaveTools(a) \/ SaveProviders(a) \/ GiveUp(a)
          \/ SetPolicies(a) \/ SetConfig(a)
          \/ StartTools(a) \/ LoadConfig(a) \/ Discover(a) \/ Disconnect(a) \/ ReplacePool(a)
          \/ ReadPool(a) \/ Build(a) \/ SetGuard(a) \/ Install(a) \/ End(a)
    /\ Meet

ConfigSpec == ConfigInit /\ [][ConfigNext]_configVars

--------------------------------------------------------------------------------
ConfigTypeOK ==
    /\ file \in Files
    /\ providers \in 0 .. MaxProviders
    /\ toolLock \in ToolEditors \cup {NoEditor}
    /\ editLock \in ProviderEditors \cup {NoEditor}
    /\ toolsStarting \in BOOLEAN
    /\ pool \in Pools
    /\ decided \in Files
    /\ described \in Pools
    /\ guard \in 0 .. MaxProviders \cup {NoGuard}
    /\ runtime \in Live
    /\ at \in [Actors -> {"idle", "save", "policies", "decide", "start", "load", "discover",
                          "pool", "reload", "build", "guard", "install", "end", "failed"}]
    /\ seen \in [Actors -> Files]
    /\ read \in [Actors -> Live]
    /\ met \in [Actors -> SUBSET Kinds]

Completes(a) == at[a] = "end" /\ at'[a] = "idle"

(* An edit of the tools that the app confirms is in force, whatever edits before
   it failed or were cut off: calls are decided by the file as it is, an edit of
   the servers has started those of the file, and new runs are offered the tools
   of the pool, which the guard is told of.  That is as far as tool_edit_lock goes:
   the start of the tools may overwrite the first, and a reload for the providers
   the second. *)
ToolEditsApply ==
    [][\A a \in ToolEditors : Completes(a) =>
          /\ "start" \notin met[a] =>
                /\ decided' = file'
                /\ pool'.config = file' \/ (a \in PolicyEditors /\ pool' = NoPool)
                /\ a \in ServerEditors => pool'.started = file'
          /\ met[a] = {} => /\ runtime'.tools = pool'
                            /\ pool' # NoPool => described' = pool']_configVars

(* An edit of the providers that the app confirms is what new runs and the guard
   use, if no reload of another kind went on meanwhile. *)
ProviderEditsApply ==
    [][\A a \in ProviderEditors : Completes(a) /\ met[a] = {} =>
          runtime'.providers = providers' /\ guard' = providers']_configVars

(* Every edit the app confirms is in force, as far as its lock reaches, whatever the
   edits before it left behind.  About the handlers that edit, reload, start_tools
   and their locks. *)
EditsApply == []ConfigTypeOK /\ ToolEditsApply /\ ProviderEditsApply
================================================================================
