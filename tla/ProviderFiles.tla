----------------------------- MODULE ProviderFiles -----------------------------
(***************************************************************************)
(* The providers.json of each project and the user's keys.json, the        *)
(* settings edits that rewrite them, and what each `dagos serve` makes of  *)
(* them (crates/dagos/src/providers.rs, keys.rs, server.rs).               *)
(*                                                                         *)
(* A process serves one project.  The keys are the user's, by the id of a  *)
(* provider, for all projects: endpoints of one id share a key.            *)
(*                                                                         *)
(* Handlers of one process serialize with its edit_lock; those of another  *)
(* process share the files only.  Every edit reads a file, changes what it *)
(* read, and writes all of it: providers.json in place, keys.json through  *)
(* a temporary file that is renamed.  A process may be killed anywhere,    *)
(* and a write may fail before it begins.                                  *)
(*                                                                         *)
(* Edits of two processes at once may lose each other's changes and leave  *)
(* torn files: nothing prevents it, and the properties say nothing of the  *)
(* files from then on (clash).  The reloads of tools are in ToolConfig.    *)
(*                                                                         *)
(* An entry of providers.json is its address and its key's variable.       *)
(***************************************************************************)
EXTENDS Naturals, FiniteSets

CONSTANTS
    Providers, Presets,
    Entries,          \* [url, env] of an endpoint a person may save
    NoEntry,
    PresetEntry(_),   \* the built-in [url, env] of a preset
    Secrets, NoKey,
    Env(_, _),        \* the key a process has in a variable, or NoKey
    EnvJev(_),        \* DAGOS_JEV_PROVIDER of a process, or NoJev
    NoJev, Nobody,
    Torn,             \* the content of a file while a write is at its middle
    Projects, Processes, Editors,
    ProjectOf(_),     \* the project a process serves
    HomeOf(_),        \* the process of an editor
    MaxEdits,         \* bound: edits begun
    MaxCrashes,       \* bound: processes killed
    AfterClash        \* bound: whether steps are taken once editors of two processes
                      \* have met, when the properties say nothing any more

Files == [custom : [Providers -> Entries \cup {NoEntry}], jev : Providers \cup {NoJev}]
KeySets == [Providers -> Secrets \cup {NoKey}]

ASSUME ProvidersAssumption ==
    /\ Presets \subseteq Providers /\ NoEntry \notin Entries /\ NoKey \notin Secrets
    /\ NoJev \notin Providers /\ \A p \in Processes : EnvJev(p) \in Providers \cup {NoJev}
ASSUME EditorsAssumption ==
    /\ Nobody \notin Editors /\ \A e \in Editors : HomeOf(e) \in Processes
    /\ \A p \in Processes : ProjectOf(p) \in Projects
ASSUME TornAssumption == (\A f \in Files : f # Torn) /\ (\A k \in KeySets : k # Torn)
ASSUME BoundsAssumption == MaxEdits \in Nat /\ MaxCrashes \in Nat /\ AfterClash \in BOOLEAN

VARIABLES
    \* Files: providers.json of each project, keys.json and keys.json.tmp.
    file, keys, temporary,
    \* Each process: whether it serves, its edit_lock, its live settings.
    up, lock, live,
    \* Each editor: its step, its operation, the file it is to write, and what
    \* reload read.
    at, op, draft, read,
    \* History: edits and kills so far; providers whose removal did not end, or
    \* whose key was saved by stale settings; the processes whose settings are
    \* older than their providers.json; whether editors of two processes were
    \* ever at work at once.
    edits, crashes, excused, stale, clash

disk == <<file, keys, temporary>>
shared == <<up, lock, live>>
history == <<edits, crashes, excused, stale>>
vars == <<file, keys, temporary, up, lock, live, at, op, draft, read,
          edits, crashes, excused, stale, clash>>

NoFile == [custom |-> [p \in Providers |-> NoEntry], jev |-> NoJev]
NoKeys == [p \in Providers |-> NoKey]
Kinds == {"save_key", "remove_key", "save_provider", "remove_provider", "save_jev", "clear_jev"}
NoDraft == [file |-> NoFile, keys |-> NoKeys]
NoOp == [kind |-> "none", id |-> NoJev, entry |-> NoEntry, key |-> NoKey]

(* What a person asks for.  A text that is no key, and an entry that is refused,
   are NoKey and NoEntry. *)
Operations == [kind : Kinds, id : Providers, entry : Entries \cup {NoEntry},
               key : Secrets \cup {NoKey}]
Requests == {o \in Operations : /\ o.kind # "save_provider" => o.entry = NoEntry
                                /\ o.kind # "save_key" => o.key = NoKey}

Customs(f) == {p \in Providers : f.custom[p] # NoEntry}
Keyed(k) == {p \in Providers : k[p] # NoKey}

(* load: a custom endpoint stands in for the preset of its id, with a variable of
   its own; a key in the environment wins over a saved one, and an endpoint is sent
   the key of its id, whatever its address; a preset is usable with a key, a custom
   endpoint without one, too; the Jev of the environment wins over the file's, and
   one without an endpoint is left for the offline policy. *)
Load(proc, f, saved) ==
    LET shown == Presets \cup Customs(f)
        entry == [p \in shown |-> IF p \in Customs(f) THEN f.custom[p] ELSE PresetEntry(p)]
        fromEnv == [p \in shown |-> Env(proc, entry[p].env)]
        key == [p \in shown |-> IF fromEnv[p] # NoKey THEN fromEnv[p] ELSE saved[p]]
        usable == {p \in shown : p \in Customs(f) \/ key[p] # NoKey}
        chosen == IF EnvJev(proc) # NoJev THEN EnvJev(proc) ELSE f.jev
    IN [custom |-> Customs(f),
        source |-> [p \in shown |-> IF fromEnv[p] # NoKey THEN "env"
                                    ELSE IF saved[p] # NoKey THEN "saved" ELSE "none"],
        endpoints |-> [p \in usable |-> [url |-> entry[p].url, key |-> key[p]]],
        jev |-> IF chosen \in usable THEN chosen ELSE NoJev,
        problem |-> chosen \notin usable \cup {NoJev}]

(* Keys that cannot be read are ignored. *)
Saved(k) == IF k = Torn THEN NoKeys ELSE k

Init ==
    /\ file = [r \in Projects |-> NoFile]
    /\ keys = NoKeys
    /\ temporary = NoKeys
    /\ up = [p \in Processes |-> TRUE]
    /\ lock = [p \in Processes |-> Nobody]
    /\ live = [p \in Processes |-> Load(p, NoFile, NoKeys)]
    /\ at = [e \in Editors |-> "idle"]
    /\ op = [e \in Editors |-> NoOp]
    /\ draft = [e \in Editors |-> NoDraft]
    /\ read = [e \in Editors |-> NoKeys]
    /\ edits = 0
    /\ crashes = 0
    /\ excused = {}
    /\ stale = {}
    /\ clash = FALSE

Goto(e, from, step) == at[e] = from /\ at' = [at EXCEPT ![e] = step]
Home(e) == HomeOf(e)
Mine(e) == ProjectOf(HomeOf(e))

--------------------------------------------------------------------------------
(* Handlers *)

Configurable(p) == DOMAIN live[p].source

(* Where the handler goes once it has the lock: `configurable` asks the live
   settings, keys and entries are validated, and a preset cannot be removed. *)
FirstStep(e, o) ==
    IF /\ o.kind \in {"save_key", "remove_key"} /\ o.id \in Configurable(Home(e))
       /\ o.kind = "save_key" => o.key # NoKey
    THEN "read_keys"
    ELSE IF \/ o.kind = "save_provider" /\ o.entry # NoEntry
            \/ o.kind = "clear_jev"
            \/ o.kind = "save_jev" /\ o.id \in Configurable(Home(e))
            \/ o.kind = "remove_provider" /\ o.id \in live[Home(e)].custom
    THEN "read_file"
    ELSE "refused"

(* Mutant of Begin: edits of one process are not serialized. *)
BeginUnlocked(e) ==
    /\ up[Home(e)] /\ edits < MaxEdits
    /\ edits' = edits + 1
    /\ \E o \in Requests : Goto(e, "idle", FirstStep(e, o)) /\ op' = [op EXCEPT ![e] = o]
    /\ UNCHANGED <<disk, shared, draft, read, crashes, excused, stale>>

(* edit: the handler holds edit_lock to its end. *)
Begin(e) ==
    /\ up[Home(e)] /\ lock[Home(e)] = Nobody /\ edits < MaxEdits
    /\ edits' = edits + 1
    /\ lock' = [lock EXCEPT ![Home(e)] = e]
    /\ \E o \in Requests :
          /\ Goto(e, "idle", FirstStep(e, o))
          /\ op' = [op EXCEPT ![e] = o]
          /\ excused' = IF o.kind = "save_key" /\ Home(e) \in stale THEN excused \cup {o.id}
                        ELSE excused
    /\ UNCHANGED <<disk, up, live, draft, read, crashes, stale>>

(* save_custom, remove_custom, set_jev *)
Edited(f, o) ==
    CASE o.kind = "save_provider" -> [f EXCEPT !.custom[o.id] = o.entry]
      [] o.kind = "remove_provider" -> [f EXCEPT !.custom[o.id] = NoEntry]
      [] o.kind = "save_jev" -> [f EXCEPT !.jev = o.id]
      [] OTHER -> [f EXCEPT !.jev = NoJev]

(* remove_provider forgets the key, too, unless it is a preset's. *)
AfterFile(o) ==
    IF o.kind = "remove_provider" /\ o.id \notin Presets THEN "read_keys" ELSE "reload"

(* A removal that finds nothing to remove writes nothing. *)
ReadFile(e) ==
    /\ file[Mine(e)] # Torn
    /\ LET new == Edited(file[Mine(e)], op[e])
           same == op[e].kind = "remove_provider" /\ new = file[Mine(e)]
       IN /\ Goto(e, "read_file", IF same THEN AfterFile(op[e]) ELSE "truncate_file")
          /\ draft' = [draft EXCEPT ![e].file = new]
    /\ UNCHANGED <<disk, shared, op, read, history>>

(* std::fs::write empties the file before it writes. *)
TruncateFile(e) ==
    /\ Goto(e, "truncate_file", "write_file")
    /\ file' = [file EXCEPT ![Mine(e)] = Torn]
    /\ UNCHANGED <<keys, temporary, shared, op, draft, read, history>>

WriteFile(e) ==
    /\ Goto(e, "write_file", AfterFile(op[e]))
    /\ file' = [file EXCEPT ![Mine(e)] = draft[e].file]
    /\ excused' = IF AfterFile(op[e]) = "read_keys" THEN excused \cup {op[e].id}
                 ELSE excused
    /\ stale' = stale \cup {p \in Processes : ProjectOf(p) = Mine(e)}
    /\ UNCHANGED <<keys, temporary, shared, op, draft, read, edits, crashes>>

(* KeyStore::set and remove *)
ChangedKeys(k, o) == [k EXCEPT ![o.id] = IF o.kind = "save_key" THEN o.key ELSE NoKey]

(* read, change, write_private; a removal that finds no key writes nothing. *)
ReadKeys(e) ==
    /\ keys # Torn
    /\ LET new == ChangedKeys(keys, op[e])
           same == op[e].kind # "save_key" /\ new = keys
       IN /\ Goto(e, "read_keys", IF same THEN "reload" ELSE "truncate_keys")
          /\ draft' = [draft EXCEPT ![e].keys = new]
    /\ UNCHANGED <<disk, shared, op, read, history>>

TruncateKeys(e) ==
    /\ Goto(e, "truncate_keys", "write_keys")
    /\ temporary' = Torn
    /\ UNCHANGED <<file, keys, shared, op, draft, read, history>>

WriteKeys(e) ==
    /\ Goto(e, "write_keys", "rename")
    /\ temporary' = draft[e].keys
    /\ UNCHANGED <<file, keys, shared, op, draft, read, history>>

(* Mutant of Rename: the key file is written in place, its text not yet out. *)
RenameEarly(e) ==
    /\ at[e] \in {"write_keys", "rename"}
    /\ at' = [at EXCEPT ![e] = IF at[e] = "rename" THEN "reload" ELSE "write_keys"]
    /\ keys' = temporary
    /\ UNCHANGED <<file, temporary, shared, op, draft, read, history>>

(* The temporary file has one name, whoever writes it. *)
Rename(e) ==
    /\ Goto(e, "rename", "reload")
    /\ keys' = temporary
    /\ UNCHANGED <<file, temporary, shared, op, draft, read, history>>

(* reload: load reads the keys, then the file. *)
ReloadKeys(e) ==
    /\ Goto(e, "reload", "load")
    /\ read' = [read EXCEPT ![e] = Saved(keys)]
    /\ UNCHANGED <<disk, shared, op, draft, history>>

(* Mutant of Reload: saved keys are left out. *)
ReloadWithoutKeys(e) ==
    /\ file[Mine(e)] # Torn
    /\ Goto(e, "load", "confirmed")
    /\ live' = [live EXCEPT ![Home(e)] = Load(Home(e), file[Mine(e)], NoKeys)]
    /\ stale' = stale \ {Home(e)}
    /\ UNCHANGED <<disk, up, lock, op, draft, read, edits, crashes, excused>>

(* On an error the previous settings stay. *)
Reload(e) ==
    /\ file[Mine(e)] # Torn
    /\ Goto(e, "load", "confirmed")
    /\ live' = [live EXCEPT ![Home(e)] = Load(Home(e), file[Mine(e)], read[e])]
    /\ stale' = stale \ {Home(e)}
    /\ UNCHANGED <<disk, up, lock, op, draft, read, edits, crashes, excused>>

(* A file that is not JSON, or a disk that takes no more. *)
Fail(e) ==
    /\ \/ at[e] \in {"read_file", "load"} /\ file[Mine(e)] = Torn
       \/ at[e] = "read_keys" /\ keys = Torn
       \/ at[e] \in {"truncate_file", "truncate_keys"}
    /\ at' = [at EXCEPT ![e] = "refused"]
    /\ UNCHANGED <<disk, shared, op, draft, read, history>>

(* The answer: the new settings, or the error. *)
End(e) ==
    /\ Goto(e, "confirmed", "idle") \/ Goto(e, "refused", "idle")
    /\ lock' = [lock EXCEPT ![Home(e)] = IF @ = e THEN Nobody ELSE @]
    /\ op' = [op EXCEPT ![e] = NoOp]
    /\ draft' = [draft EXCEPT ![e] = NoDraft]
    /\ read' = [read EXCEPT ![e] = NoKeys]
    /\ excused' = IF at[e] = "confirmed" /\ op[e].kind = "remove_provider"
                  THEN excused \ {op[e].id} ELSE excused
    /\ UNCHANGED <<disk, up, live, edits, crashes, stale>>

--------------------------------------------------------------------------------
(* Processes *)

Crash(p) ==
    /\ up[p] /\ crashes < MaxCrashes
    /\ crashes' = crashes + 1
    /\ up' = [up EXCEPT ![p] = FALSE]
    /\ lock' = [lock EXCEPT ![p] = Nobody]
    /\ at' = [e \in Editors |-> IF Home(e) = p THEN "idle" ELSE at[e]]
    /\ op' = [e \in Editors |-> IF Home(e) = p THEN NoOp ELSE op[e]]
    /\ draft' = [e \in Editors |-> IF Home(e) = p THEN NoDraft ELSE draft[e]]
    /\ read' = [e \in Editors |-> IF Home(e) = p THEN NoKeys ELSE read[e]]
    /\ UNCHANGED <<disk, live, edits, excused, stale>>

(* Workspace::open refuses a providers.json it cannot read. *)
Open(p) ==
    /\ ~up[p] /\ file[ProjectOf(p)] # Torn
    /\ up' = [up EXCEPT ![p] = TRUE]
    /\ live' = [live EXCEPT ![p] = Load(p, file[ProjectOf(p)], Saved(keys))]
    /\ stale' = stale \ {p}
    /\ UNCHANGED <<disk, lock, at, op, draft, read, edits, crashes, excused>>

AtWork(p) == \E e \in Editors : HomeOf(e) = p /\ at[e] # "idle"
Watch == clash' = (clash \/ \E p, q \in Processes : p # q /\ AtWork(p)' /\ AtWork(q)')

Next ==
    /\ clash => AfterClash
    /\ \/ \E e \in Editors :
             \/ Begin(e) \/ ReadFile(e) \/ TruncateFile(e) \/ WriteFile(e)
             \/ ReadKeys(e) \/ TruncateKeys(e) \/ WriteKeys(e) \/ Rename(e)
             \/ ReloadKeys(e) \/ Reload(e) \/ Fail(e) \/ End(e)
       \/ \E p \in Processes : Crash(p) \/ Open(p)
    /\ Watch

Spec == Init /\ [][Next]_vars

--------------------------------------------------------------------------------
TypeOK ==
    /\ file \in [Projects -> Files \cup {Torn}]
    /\ keys \in KeySets \cup {Torn}
    /\ temporary \in KeySets \cup {Torn}
    /\ up \in [Processes -> BOOLEAN]
    /\ lock \in [Processes -> Editors \cup {Nobody}]
    /\ \A p \in Processes :
          /\ DOMAIN live[p].endpoints \subseteq DOMAIN live[p].source
          /\ live[p].jev \in DOMAIN live[p].endpoints \cup {NoJev}
    /\ at \in [Editors -> {"idle", "refused", "read_file", "truncate_file", "write_file",
                           "read_keys", "truncate_keys", "write_keys", "rename",
                           "reload", "load", "confirmed"}]
    /\ op \in [Editors -> Operations \cup {NoOp}]
    /\ draft \in [Editors -> [file : Files, keys : KeySets]]
    /\ read \in [Editors -> KeySets]
    /\ excused \in SUBSET Providers /\ stale \in SUBSET Processes

(* KeyStore::write "replaces the file atomically": however processes are killed,
   keys.json is whole, unless editors of two processes were ever at work at once. *)
KeysAreWhole == ~clash => keys # Torn

(* An edit changes the key or the entry of its own provider only, or the Jev only:
   what the edits before it saved is still there when it writes the whole file,
   unless editors of two processes were ever at work at once.  (That keys.json is whole
   is KeysAreWhole.)  About save_custom, remove_custom, set_jev, KeyStore::set and
   remove. *)
EditsKeepTheRest ==
    [][\A e \in Editors : ~clash' =>
          /\ at[e] = "rename" /\ at'[e] = "reload" /\ Torn \notin {keys, keys'} =>
                \A p \in Providers \ {op[e].id} : keys'[p] = keys[p]
          /\ at[e] = "truncate_file" /\ at'[e] = "write_file" /\ file[Mine(e)] # Torn =>
                LET old == file[Mine(e)]
                    new == draft[e].file
                IN IF op[e].kind \in {"save_provider", "remove_provider"}
                   THEN /\ new.jev = old.jev
                        /\ \A p \in Providers \ {op[e].id} : new.custom[p] = old.custom[p]
                   ELSE new.custom = old.custom]_vars

(* The files and the live settings hold the edit. *)
InForce(o, f, k, settings) ==
    /\ o.kind = "save_key" => k[o.id] = o.key
    /\ o.kind = "remove_key" => k[o.id] = NoKey
    /\ o.kind = "save_provider" =>
          f.custom[o.id] = o.entry /\ settings.endpoints[o.id].url = o.entry.url
    /\ o.kind = "remove_provider" =>
          f.custom[o.id] = NoEntry /\ (o.id \in Presets \/ k[o.id] = NoKey)
    /\ o.kind = "save_jev" => f.jev = o.id
    /\ o.kind = "clear_jev" => f.jev = NoJev

(* What the app confirms is so: the files hold the edit and new runs use it, unless
   editors of two processes were ever at work at once: then either may be lost.
   About the handlers of edits and Workspace::reload. *)
ConfirmedEditsApply ==
    [][\A e \in Editors : at[e] = "confirmed" /\ at'[e] = "idle" /\ up'[Home(e)] /\ ~clash' =>
          /\ live'[Home(e)] = Load(Home(e), file'[Mine(e)], keys')
          /\ InForce(op[e], file'[Mine(e)], keys', live'[Home(e)])]_vars

(* A key stays for a preset or an endpoint of that id in some project, whichever
   files edits rewrite and wherever they fail, unless
   - a removal was cut off or failed after it had removed the endpoint,
   - the key was saved in a process that had not loaded what was removed, be it by
     another or by an edit of its own that failed, or
   - editors of two processes were ever at work at once.
   It is the id that keeps the key: another project's endpoint of the id, one added
   there later and one given another address are sent it, too. *)
KeysBelong ==
    ~clash /\ keys # Torn /\ (\A r \in Projects : file[r] # Torn)
           /\ (\A e \in Editors : at[e] = "idle") =>
        Keyed(keys) \subseteq Presets \cup excused \cup UNION {Customs(file[r]) : r \in Projects}

(* The saved keys are whole and each is of a provider some project has, and a process
   has a source for each endpoint it would use, whatever edits failed or were cut off.
   About KeyStore::write, remove_provider and load. *)
KeysAreSound == TypeOK /\ KeysAreWhole /\ KeysBelong
================================================================================
