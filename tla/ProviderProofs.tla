----------------------------- MODULE ProviderProofs -----------------------------
(***************************************************************************)
(* The saved keys are whole and belong to endpoints, an edit keeps what    *)
(* others saved, and what is confirmed is so, for any providers, editors,  *)
(* processes, edits and crashes; scores belong to their questions and      *)
(* calls come back whole, for any tools, answers, sizes and limits.        *)
(*                                                                         *)
(* As long as editors of two processes were never at work at once, one     *)
(* editor is: its process's edit_lock keeps those of its own process out.  *)
(* What it read is then still what the files hold when it writes, and      *)
(* each of its steps says which part of its edit the files have by now.    *)
(*                                                                         *)
(* The batches of questions are intervals that follow each other, so their *)
(* answers in the order of the batches are those of the questions. Of each *)
(* call the first pieces have arrived, so a stream that ended has them     *)
(* all. A tool's name is free since there are as many numbers as tools.    *)
(***************************************************************************)
EXTENDS ProviderFiles, Adapter, FiniteSetTheorems, SequenceTheorems, WellFoundedInduction, TLAPS

Steps == {"idle", "refused", "read_file", "truncate_file", "write_file", "read_keys",
          "truncate_keys", "write_keys", "rename", "reload", "load", "confirmed"}

Types ==
    /\ file \in [Projects -> Files \cup {Torn}]
    /\ keys \in KeySets \cup {Torn}
    /\ temporary \in KeySets \cup {Torn}
    /\ up \in [Processes -> BOOLEAN]
    /\ lock \in [Processes -> Editors \cup {Nobody}]
    /\ at \in [Editors -> Steps]
    /\ op \in [Editors -> Operations \cup {NoOp}]
    /\ draft \in [Editors -> [file : Files, keys : KeySets]]
    /\ read \in [Editors -> KeySets]
    /\ excused \in SUBSET Providers /\ stale \in SUBSET Processes

(* The settings of a process were made of files by load, and they are those of
   providers.json unless they are older than it. *)
LiveOK ==
    /\ DOMAIN live = Processes
    /\ \A p \in Processes : \E f \in Files, k \in KeySets : live[p] = Load(p, f, k)
    /\ \A p \in Processes \ stale : file[ProjectOf(p)] # Torn =>
          live[p].custom = Customs(file[ProjectOf(p)])

(* An editor at work has its process's lock and an edit, of the file it is to write. *)
FileKinds == {"save_provider", "remove_provider", "save_jev", "clear_jev"}
KeyKinds == {"save_key", "remove_key", "remove_provider"}
KeySteps == {"read_keys", "truncate_keys", "write_keys", "rename"}

LockOK == \A e \in Editors : at[e] # "idle" =>
    /\ up[HomeOf(e)] /\ lock[HomeOf(e)] = e
    /\ op[e] \in Operations
    /\ at[e] \in {"read_file", "truncate_file", "write_file"} => op[e].kind \in FileKinds
    /\ at[e] \in KeySteps => op[e].kind \in KeyKinds
    /\ at[e] # "refused" /\ op[e].kind = "save_provider" => op[e].entry # NoEntry

(* Without a clash those at work are of one process. *)
Apart == ~clash => \A d, e \in Editors :
    at[d] # "idle" /\ at[e] # "idle" => HomeOf(d) = HomeOf(e)

(* The providers some project has. *)
AllWhole(f) == \A r \in Projects : f[r] # Torn
Had(f) == UNION {Customs(f[r]) : r \in Projects}
Homes(f) == Presets \cup excused \cup Had(f)
Going(o) == IF o.kind = "remove_provider" THEN {o.id} ELSE {}

(* What the step of an editor says of the files: before it writes providers.json, before
   it writes the keys, and once it has written. *)
FileStep(e) ==
    /\ at[e] = "truncate_file" =>
          file[Mine(e)] # Torn /\ draft[e].file = Edited(file[Mine(e)], op[e])
    /\ at[e] = "write_file" =>
          /\ \E f \in Files : draft[e].file = Edited(f, op[e])
          /\ LET new == [file EXCEPT ![Mine(e)] = draft[e].file]
             IN AllWhole(new) => Keyed(keys) \subseteq Homes(new) \cup Going(op[e])

KeyStep(e) ==
    /\ at[e] \in KeySteps =>
          /\ op[e].kind = "remove_provider" =>
                /\ op[e].id \notin Presets
                /\ file[Mine(e)] # Torn /\ file[Mine(e)].custom[op[e].id] = NoEntry
          /\ op[e].kind = "save_key" /\ AllWhole(file) => op[e].id \in Homes(file)
    /\ at[e] \in {"truncate_keys", "write_keys", "rename"} =>
          draft[e].keys = ChangedKeys(keys, op[e])
    /\ at[e] = "rename" => temporary = draft[e].keys

(* The files hold the edit. *)
Written(e) ==
    /\ op[e].kind = "save_key" => keys[op[e].id] = op[e].key
    /\ op[e].kind = "remove_key" => keys[op[e].id] = NoKey
    /\ op[e].kind \in FileKinds =>
          /\ file[Mine(e)] # Torn
          /\ \E f \in Files : file[Mine(e)] = Edited(f, op[e])
          /\ op[e].kind = "remove_provider" => op[e].id \in Presets \/ keys[op[e].id] = NoKey

DoneStep(e) ==
    /\ at[e] \in {"reload", "load", "confirmed"} => Written(e)
    /\ at[e] = "load" => read[e] = keys
    /\ at[e] = "confirmed" =>
          file[Mine(e)] # Torn /\ live[HomeOf(e)] = Load(HomeOf(e), file[Mine(e)], keys)

Belong == AllWhole(file) => Keyed(keys) \subseteq Homes(file)

Edits == ~clash =>
    /\ keys # Torn /\ Belong
    /\ \A e \in Editors : FileStep(e) /\ KeyStep(e) /\ DoneStep(e)

IInv == Types /\ LiveOK /\ LockOK /\ Apart /\ Edits

--------------------------------------------------------------------------------
(* What load makes of the files. *)
LEMMA LoadFacts ==
  ASSUME NEW proc, NEW f \in Files, NEW k \in KeySets
  PROVE  /\ Load(proc, f, k).custom = Customs(f)
         /\ DOMAIN Load(proc, f, k).source = Presets \cup Customs(f)
         /\ DOMAIN Load(proc, f, k).endpoints \subseteq Presets \cup Customs(f)
         /\ Load(proc, f, k).jev \in DOMAIN Load(proc, f, k).endpoints \cup {NoJev}
         /\ \A p \in Customs(f) : Load(proc, f, k).endpoints[p].url = f.custom[p].url
BY DEF Load

LEMMA SavedIsSet == \A k \in KeySets \cup {Torn} : Saved(k) \in KeySets
BY DEF Saved, KeySets, NoKeys

LEMMA SavedIsRead == \A k \in KeySets : Saved(k) = k
BY TornAssumption DEF Saved

(* What an edit makes of a file. *)
LEMMA EditedIsFile ==
  ASSUME NEW f \in Files, NEW o \in Operations, o.kind \in FileKinds
  PROVE  /\ Edited(f, o) \in Files /\ Edited(f, o) # Torn
         /\ \A p \in Providers \ {o.id} : Edited(f, o).custom[p] = f.custom[p]
         /\ o.kind = "save_provider" =>
               Edited(f, o).custom[o.id] = o.entry /\ Edited(f, o).jev = f.jev
         /\ o.kind = "remove_provider" =>
               Edited(f, o).custom[o.id] = NoEntry /\ Edited(f, o).jev = f.jev
         /\ o.kind = "save_jev" => Edited(f, o).jev = o.id /\ Edited(f, o).custom = f.custom
         /\ o.kind = "clear_jev" => Edited(f, o).jev = NoJev /\ Edited(f, o).custom = f.custom
<1> USE DEF Operations
<1>1. CASE o.kind = "save_provider" BY <1>1, TornAssumption DEF Edited, Files
<1>2. CASE o.kind = "remove_provider" BY <1>2, TornAssumption DEF Edited, Files
<1>3. CASE o.kind = "save_jev" BY <1>3, TornAssumption DEF Edited, Files
<1>4. CASE o.kind = "clear_jev" BY <1>4, TornAssumption DEF Edited, Files
<1> QED BY <1>1, <1>2, <1>3, <1>4 DEF FileKinds

(* Only the removal of a provider takes one out of a file. *)
LEMMA EditedKeeps ==
  ASSUME NEW f \in Files, NEW o \in Operations, o.kind \in FileKinds,
         o.kind = "save_provider" => o.entry # NoEntry
  PROVE  Customs(f) \subseteq Customs(Edited(f, o)) \cup Going(o)
<1> SUFFICES ASSUME NEW p \in Customs(f), p \notin Going(o) PROVE Edited(f, o).custom[p] # NoEntry
  BY DEF Customs
<1>1. CASE p # o.id BY <1>1, EditedIsFile DEF Customs
<1>2. CASE p = o.id BY <1>2, EditedIsFile DEF Customs, Going, FileKinds
<1> QED BY <1>1, <1>2

(* What an edit makes of the keys. *)
LEMMA ChangedIsKeys ==
  ASSUME NEW k \in KeySets, NEW o \in Operations
  PROVE  /\ ChangedKeys(k, o) \in KeySets
         /\ ChangedKeys(k, o)[o.id] = IF o.kind = "save_key" THEN o.key ELSE NoKey
         /\ \A p \in Providers \ {o.id} : ChangedKeys(k, o)[p] = k[p]
         /\ Keyed(ChangedKeys(k, o)) \subseteq
               Keyed(k) \cup (IF o.kind = "save_key" THEN {o.id} ELSE {})
         /\ o.kind # "save_key" => Keyed(ChangedKeys(k, o)) \subseteq Keyed(k) \ {o.id}
BY DEF ChangedKeys, Operations, KeySets, Keyed

LEMMA NothingTyped == NoFile \in Files /\ NoKeys \in KeySets
BY DEF NoFile, NoKeys, Files, KeySets

(* One editor is at work, in a process or anywhere. *)
LEMMA AloneAtHome ==
  ASSUME Types, LockOK, NEW d \in Editors, NEW e \in Editors,
         at[d] # "idle", at[e] # "idle", HomeOf(d) = HomeOf(e)
  PROVE  d = e
BY DEF LockOK

LEMMA Alone ==
  ASSUME Types, LockOK, Apart, ~clash, NEW d \in Editors, NEW e \in Editors,
         at[d] # "idle", at[e] # "idle"
  PROVE  d = e
BY AloneAtHome DEF Apart

LEMMA WatchApart == ASSUME Watch PROVE Apart' /\ (~clash' => ~clash)
BY EditorsAssumption DEF Watch, Apart, AtWork

--------------------------------------------------------------------------------
(* Types *)

EditorStep(e) ==
    \/ ReadFile(e) \/ TruncateFile(e) \/ WriteFile(e) \/ ReadKeys(e) \/ TruncateKeys(e)
    \/ WriteKeys(e) \/ Rename(e) \/ ReloadKeys(e) \/ Reload(e) \/ Fail(e)

LEMMA FirstSteps ==
  ASSUME NEW e, NEW o \in Requests
  PROVE  /\ o \in Operations
         /\ FirstStep(e, o) \in {"read_keys", "read_file", "refused"}
         /\ FirstStep(e, o) = "read_keys" =>
               o.kind \in {"save_key", "remove_key"} /\ o.id \in Configurable(Home(e))
         /\ FirstStep(e, o) = "read_file" => o.kind \in FileKinds
         /\ FirstStep(e, o) # "refused" /\ o.kind = "save_provider" => o.entry # NoEntry
BY DEF FirstStep, Requests, FileKinds

LEMMA TypesStep == ASSUME IInv, Next PROVE Types'
<1> USE DEF IInv, Types, Goto, Home
<1>1. ASSUME NEW e \in Editors, Begin(e) PROVE Types'
  <2>1. PICK o \in Requests :
           /\ at' = [at EXCEPT ![e] = FirstStep(e, o)]
           /\ op' = [op EXCEPT ![e] = o]
           /\ excused' = IF o.kind = "save_key" /\ Home(e) \in stale THEN excused \cup {o.id}
                         ELSE excused
    BY <1>1 DEF Begin
  <2>2. o \in Operations /\ FirstStep(e, o) \in {"read_keys", "read_file", "refused"} BY FirstSteps
  <2>3. FirstStep(e, o) \in Steps BY <2>2 DEF Steps
  <2>4. o.id \in Providers BY <2>2 DEF Operations
  <2> QED BY <1>1, <2>1, <2>2, <2>3, <2>4, EditorsAssumption DEF Begin, disk
<1>2. ASSUME NEW e \in Editors, ReadFile(e) PROVE Types'
  <2>1. op[e] \in Operations /\ op[e].kind \in FileKinds BY <1>2 DEF ReadFile, LockOK
  <2>2. file[Mine(e)] \in Files BY <1>2, EditorsAssumption DEF ReadFile, Mine
  <2>3. PICK new : new = Edited(file[Mine(e)], op[e]) OBVIOUS
  <2>4. new \in Files BY <2>1, <2>2, <2>3, EditedIsFile
  <2>5. draft' = [draft EXCEPT ![e].file = new] BY <1>2, <2>3 DEF ReadFile
  <2>6. draft' \in [Editors -> [file : Files, keys : KeySets]] BY <2>4, <2>5
  <2>7. at' \in [Editors -> Steps] BY <1>2 DEF ReadFile, AfterFile, Steps
  <2> QED BY <1>2, <2>6, <2>7 DEF ReadFile, disk, shared, history
<1>3. ASSUME NEW e \in Editors, TruncateFile(e) \/ TruncateKeys(e) \/ WriteKeys(e) \/ Rename(e)
      PROVE  Types'
  <2>1. at' \in [Editors -> Steps] BY <1>3 DEF TruncateFile, TruncateKeys, WriteKeys, Rename, Steps
  <2>2. /\ file' \in [Projects -> Files \cup {Torn}] /\ keys' \in KeySets \cup {Torn}
        /\ temporary' \in KeySets \cup {Torn}
    BY <1>3 DEF TruncateFile, TruncateKeys, WriteKeys, Rename
  <2>3. UNCHANGED <<up, lock, op, draft, read, excused, stale>>
    BY <1>3 DEF TruncateFile, TruncateKeys, WriteKeys, Rename, shared, history
  <2> QED BY <2>1, <2>2, <2>3
<1>4. ASSUME NEW e \in Editors, WriteFile(e) PROVE Types'
  <2>1. op[e].id \in Providers BY <1>4 DEF WriteFile, LockOK, Operations
  <2>2. draft[e].file \in Files OBVIOUS
  <2>3. file' \in [Projects -> Files \cup {Torn}] BY <1>4, <2>2 DEF WriteFile
  <2>4. at' \in [Editors -> Steps] BY <1>4 DEF WriteFile, AfterFile, Steps
  <2> QED BY <1>4, <2>1, <2>3, <2>4 DEF WriteFile, shared
<1>5. ASSUME NEW e \in Editors, ReadKeys(e) PROVE Types'
  <2>1. op[e] \in Operations /\ keys \in KeySets BY <1>5 DEF ReadKeys, LockOK
  <2>2. PICK new \in KeySets : draft' = [draft EXCEPT ![e].keys = new]
    BY <1>5, <2>1, ChangedIsKeys DEF ReadKeys
  <2>3. draft' \in [Editors -> [file : Files, keys : KeySets]] BY <2>2
  <2>4. at' \in [Editors -> Steps] BY <1>5 DEF ReadKeys, Steps
  <2> QED BY <1>5, <2>3, <2>4 DEF ReadKeys, disk, shared, history
<1>6. ASSUME NEW e \in Editors, ReloadKeys(e) \/ Reload(e) \/ Fail(e) PROVE Types'
  BY <1>6, SavedIsSet DEF ReloadKeys, Reload, Fail, disk, shared, history, Steps
<1>7. ASSUME NEW e \in Editors, End(e) PROVE Types'
  <2>1. NoDraft \in [file : Files, keys : KeySets] BY NothingTyped DEF NoDraft
  <2>3. at' = [at EXCEPT ![e] = "idle"] BY <1>7 DEF End
  <2> QED BY <1>7, <2>1, <2>3, NothingTyped DEF End, disk, Steps
<1>8. ASSUME NEW p \in Processes, Crash(p) PROVE Types'
  <2>1. NoDraft \in [file : Files, keys : KeySets] BY NothingTyped DEF NoDraft
  <2> QED BY <1>8, <2>1, NothingTyped DEF Crash, disk, Steps
<1>9. ASSUME NEW p \in Processes, Open(p) PROVE Types'
  BY <1>9 DEF Open, disk
<1> QED BY <1>1, <1>2, <1>3, <1>4, <1>5, <1>6, <1>7, <1>8, <1>9 DEF Next

--------------------------------------------------------------------------------
(* Locks *)

LEMMA LockStep == ASSUME IInv, Next PROVE LockOK'
<1> USE DEF IInv, Types, Goto, Home
<1>0. Types' BY TypesStep
<1>1. ASSUME NEW e \in Editors, Begin(e) PROVE LockOK'
  <2>1. PICK o \in Requests :
           at' = [at EXCEPT ![e] = FirstStep(e, o)] /\ op' = [op EXCEPT ![e] = o]
    BY <1>1 DEF Begin
  <2>2. /\ FirstStep(e, o) \in {"read_keys", "read_file", "refused"} /\ o \in Operations
        /\ FirstStep(e, o) = "read_keys" => o.kind \in KeyKinds
        /\ FirstStep(e, o) = "read_file" => o.kind \in FileKinds
        /\ FirstStep(e, o) # "refused" /\ o.kind = "save_provider" => o.entry # NoEntry
    BY FirstSteps DEF KeyKinds
  <2>3. \A d \in Editors \ {e} : at[d] # "idle" => HomeOf(d) # HomeOf(e)
    BY <1>1, EditorsAssumption DEF Begin, LockOK
  <2>4. HomeOf(e) \in Processes BY EditorsAssumption
  <2> QED BY <1>1, <2>1, <2>2, <2>3, <2>4 DEF Begin, LockOK, KeySteps
<1>2. ASSUME NEW e \in Editors, EditorStep(e) PROVE LockOK'
  <2>1. UNCHANGED <<up, lock, op>>
    BY <1>2 DEF EditorStep, ReadFile, TruncateFile, WriteFile, ReadKeys, TruncateKeys, WriteKeys,
                Rename, ReloadKeys, Reload, Fail, shared
  <2>2. \A d \in Editors \ {e} : at'[d] = at[d]
    BY <1>2 DEF EditorStep, ReadFile, TruncateFile, WriteFile, ReadKeys, TruncateKeys, WriteKeys,
                Rename, ReloadKeys, Reload, Fail
  <2>3. /\ at[e] \notin {"idle", "refused"}
        /\ at'[e] \in {"read_file", "truncate_file", "write_file"} =>
              at[e] \in {"read_file", "truncate_file", "write_file"}
        /\ at'[e] \in KeySteps => at[e] \in KeySteps \/ op[e].kind \in KeyKinds
    BY <1>2 DEF EditorStep, ReadFile, TruncateFile, WriteFile, ReadKeys, TruncateKeys, WriteKeys,
                Rename, ReloadKeys, Reload, Fail, AfterFile, KeySteps, KeyKinds
  <2> QED BY <2>1, <2>2, <2>3 DEF LockOK
<1>3. ASSUME NEW e \in Editors, End(e) PROVE LockOK'
  <2>1. at' = [at EXCEPT ![e] = "idle"] /\ at[e] # "idle" BY <1>3 DEF End
  <2>2. \A d \in Editors \ {e} : at[d] # "idle" => HomeOf(d) # HomeOf(e)
    BY <2>1, AloneAtHome
  <2> QED BY <1>3, <2>1, <2>2 DEF End, LockOK
<1>4. ASSUME NEW p \in Processes, Crash(p) PROVE LockOK'
  BY <1>4 DEF Crash, LockOK
<1>5. ASSUME NEW p \in Processes, Open(p) PROVE LockOK'
  BY <1>5, EditorsAssumption DEF Open, LockOK
<1> QED BY <1>1, <1>2, <1>3, <1>4, <1>5 DEF Next, EditorStep

--------------------------------------------------------------------------------
(* Settings *)

LEMMA LiveStep == ASSUME IInv, Next PROVE LiveOK'
<1> USE DEF IInv, Types, Goto, Home
<1>1. CASE UNCHANGED <<file, live, stale>> BY <1>1 DEF LiveOK
<1>2. ASSUME NEW e \in Editors, TruncateFile(e) PROVE LiveOK'
  BY <1>2 DEF TruncateFile, shared, history, LiveOK
<1>3. ASSUME NEW e \in Editors, WriteFile(e) PROVE LiveOK'
  BY <1>3 DEF WriteFile, shared, LiveOK
<1>4. ASSUME NEW p \in Processes, NEW k \in KeySets, UNCHANGED file,
             file[ProjectOf(p)] # Torn, stale' = stale \ {p},
             live' = [live EXCEPT ![p] = Load(p, file[ProjectOf(p)], k)]
      PROVE  LiveOK'
  <2>1. file[ProjectOf(p)] \in Files BY <1>4, EditorsAssumption
  <2>2. Load(p, file[ProjectOf(p)], k).custom = Customs(file[ProjectOf(p)])
    BY DEF Load
  <2> QED BY <1>4, <2>1, <2>2 DEF LiveOK
<1>5. ASSUME NEW e \in Editors, Reload(e) PROVE LiveOK'
  BY <1>4, <1>5, EditorsAssumption DEF Reload, disk, Mine
<1>6. ASSUME NEW p \in Processes, Open(p) PROVE LiveOK'
  BY <1>4, <1>6, SavedIsSet DEF Open, disk
<1> QED BY <1>1, <1>2, <1>3, <1>5, <1>6 DEF Next, Begin, ReadFile, ReadKeys, TruncateKeys, WriteKeys,
      Rename, ReloadKeys, Fail, End, Crash, disk, shared, history

--------------------------------------------------------------------------------
(* Edits *)

EditsBody ==
    /\ keys # Torn /\ Belong
    /\ \A e \in Editors : FileStep(e) /\ KeyStep(e) /\ DoneStep(e)

(* It is enough to look at the editor that made the step: no other is at work. *)
LEMMA OneEditor ==
  ASSUME Types', LockOK', Apart', ~clash', NEW e \in Editors, keys' # Torn, Belong',
         at'[e] # "idle" => FileStep(e)' /\ KeyStep(e)' /\ DoneStep(e)',
         \A d \in Editors \ {e} : at'[d] = "idle"
  PROVE  EditsBody'
<1> SUFFICES ASSUME NEW d \in Editors PROVE FileStep(d)' /\ KeyStep(d)' /\ DoneStep(d)'
  BY DEF EditsBody
<1>1. CASE at'[d] = "idle" BY <1>1 DEF FileStep, KeyStep, DoneStep, KeySteps
<1>2. CASE at'[d] # "idle" BY <1>2
<1> QED BY <1>1, <1>2

(* A file an entry is gone from is what its removal made of a file. *)
LEMMA GoneIsEdited ==
  ASSUME IInv, NEW e \in Editors, NEW o \in Operations, o.kind = "remove_provider",
         file[Mine(e)] # Torn, file[Mine(e)].custom[o.id] = NoEntry
  PROVE  \E f \in Files : file[Mine(e)] = Edited(f, o)
<1>1. PICK f : f = file[Mine(e)] OBVIOUS
<1>2. f \in Files BY <1>1, EditorsAssumption DEF IInv, Types, Mine
<1>3. Edited(f, o) = f BY <1>1, <1>2 DEF Edited, Files
<1> QED BY <1>1, <1>2, <1>3

LEMMA BeginEdits ==
  ASSUME IInv, Types', LockOK', Apart', ~clash, ~clash', NEW e \in Editors, Begin(e)
  PROVE  EditsBody'
<1> USE DEF IInv, Home
<1>1. PICK o \in Requests :
         /\ at[e] = "idle" /\ at' = [at EXCEPT ![e] = FirstStep(e, o)]
         /\ op' = [op EXCEPT ![e] = o]
         /\ excused' = IF o.kind = "save_key" /\ Home(e) \in stale THEN excused \cup {o.id}
                       ELSE excused
  BY DEF Begin, Goto
<1>2. UNCHANGED <<file, keys, temporary, live>> BY DEF Begin, disk
<1>3. excused \subseteq excused' BY <1>1
<1>4. keys' # Torn /\ Belong' BY <1>2, <1>3 DEF Edits, Belong, AllWhole, Homes, Had
<1>5. /\ FirstStep(e, o) \in {"read_keys", "read_file", "refused"}
      /\ FirstStep(e, o) = "read_keys" =>
            o.kind \in {"save_key", "remove_key"} /\ o.id \in Configurable(Home(e))
  BY FirstSteps
<1>6. at'[e] = FirstStep(e, o) /\ op'[e] = o BY <1>1 DEF Types
<1>7. ASSUME at'[e] = "read_keys", o.kind = "save_key", AllWhole(file)
      PROVE  o.id \in Homes(file)'
  <2>1. o.id \in Configurable(Home(e)) BY <1>5, <1>6, <1>7
  <2>2. HomeOf(e) \in Processes /\ Mine(e) \in Projects BY EditorsAssumption DEF Mine
  <2>3. PICK f \in Files, k \in KeySets : live[HomeOf(e)] = Load(HomeOf(e), f, k)
    BY <2>2 DEF LiveOK
  <2>4. o.id \in Presets \cup live[HomeOf(e)].custom BY <2>1, <2>3, LoadFacts DEF Configurable
  <2>5. HomeOf(e) \notin stale => live[HomeOf(e)].custom = Customs(file[Mine(e)])
    BY <1>7, <2>2 DEF LiveOK, AllWhole, Mine
  <2>6. Customs(file[Mine(e)]) \subseteq Had(file) BY <2>2 DEF Had
  <2>7. Home(e) \in stale => o.id \in excused' BY <1>1, <1>7
  <2>8. o.id \in Presets \cup excused' \cup Had(file) BY <2>4, <2>5, <2>6, <2>7
  <2> QED BY <1>2, <2>8 DEF Homes, Had
<1>8. FileStep(e)' BY <1>5, <1>6 DEF FileStep
<1>9. KeyStep(e)' BY <1>2, <1>5, <1>6, <1>7 DEF KeyStep, KeySteps, AllWhole
<1>10. DoneStep(e)' BY <1>5, <1>6 DEF DoneStep
<1>11. CASE at'[e] # "idle"
  <2>1. \A d \in Editors \ {e} : at'[d] = "idle"
    <3> SUFFICES ASSUME NEW d \in Editors \ {e}, at'[d] # "idle" PROVE FALSE OBVIOUS
    <3>1. HomeOf(d) = HomeOf(e) BY <1>11 DEF Apart
    <3> QED BY <1>11, <3>1 DEF LockOK
  <2> QED BY <1>4, <1>8, <1>9, <1>10, <2>1, OneEditor
<1> QED BY <1>5, <1>6, <1>11

LEMMA AloneAtWork ==
  ASSUME IInv, ~clash, NEW e \in Editors, EditorStep(e)
  PROVE  /\ at[e] # "idle"
         /\ \A d \in Editors \ {e} : at[d] = "idle" /\ at'[d] = "idle"
<1>1. at[e] # "idle" /\ \A d \in Editors \ {e} : at'[d] = at[d]
  BY DEF IInv, Types, EditorStep, ReadFile, TruncateFile, WriteFile, ReadKeys, TruncateKeys,
         WriteKeys, Rename, ReloadKeys, Reload, Fail, Goto
<1> QED BY <1>1, Alone DEF IInv

LEMMA ReadFileEdits ==
  ASSUME IInv, Types', LockOK', Apart', ~clash, ~clash', NEW e \in Editors, ReadFile(e)
  PROVE  EditsBody'
<1> USE DEF IInv
<1>1. PICK o, f : o = op[e] /\ f = file[Mine(e)] OBVIOUS
<1>2. at[e] = "read_file" BY DEF ReadFile, Goto
<1>3. o \in Operations /\ o.kind \in FileKinds BY <1>1, <1>2 DEF LockOK
<1>4. f \in Files /\ f # Torn BY <1>1, EditorsAssumption DEF ReadFile, Types, Mine
<1>5. UNCHANGED <<file, keys, temporary, live, op, read, excused>>
  BY DEF ReadFile, disk, shared, history
<1>6. keys' # Torn /\ Belong' BY <1>5 DEF Edits, Belong, AllWhole, Homes, Had
<1>7. draft'[e].file = Edited(f, o) BY <1>1 DEF ReadFile, Types
<1>8. at'[e] = IF o.kind = "remove_provider" /\ Edited(f, o) = f THEN AfterFile(o)
               ELSE "truncate_file"
  BY <1>1 DEF ReadFile, Goto, Types
<1>9. /\ at'[e] \in {"truncate_file", "read_keys", "reload"}
      /\ at'[e] # "truncate_file" => o.kind = "remove_provider" /\ Edited(f, o) = f
      /\ at'[e] = "read_keys" => o.id \notin Presets
      /\ at'[e] = "reload" => o.id \in Presets
  BY <1>8 DEF AfterFile
<1>10. o.kind = "remove_provider" /\ Edited(f, o) = f => f.custom[o.id] = NoEntry
  BY <1>3, <1>4, EditedIsFile
<1>11. FileStep(e)' BY <1>1, <1>4, <1>5, <1>7, <1>9 DEF FileStep
<1>12. KeyStep(e)' BY <1>1, <1>4, <1>5, <1>9, <1>10 DEF KeyStep, KeySteps
<1>13. DoneStep(e)' BY <1>1, <1>4, <1>5, <1>9 DEF DoneStep, Written
<1> QED BY <1>6, <1>11, <1>12, <1>13, OneEditor, AloneAtWork DEF EditorStep

LEMMA TruncateFileEdits ==
  ASSUME IInv, Types', LockOK', Apart', ~clash, ~clash', NEW e \in Editors, TruncateFile(e)
  PROVE  EditsBody'
<1> USE DEF IInv
<1>1. PICK o, f : o = op[e] /\ f = file[Mine(e)] OBVIOUS
<1>2. at[e] = "truncate_file" /\ at'[e] = "write_file" BY DEF TruncateFile, Goto, Types
<1>3. /\ o \in Operations /\ o.kind \in FileKinds
      /\ o.kind = "save_provider" => o.entry # NoEntry
  BY <1>1, <1>2 DEF LockOK
<1>4. Mine(e) \in Projects BY EditorsAssumption DEF Mine
<1>5. f \in Files /\ f # Torn /\ draft[e].file = Edited(f, o)
  BY <1>1, <1>2, <1>4 DEF Edits, FileStep, Types
<1>6. UNCHANGED <<keys, temporary, live, op, draft, read, excused>>
      /\ file' = [file EXCEPT ![Mine(e)] = Torn]
  BY DEF TruncateFile, shared, history
<1>7. ~AllWhole(file') BY <1>4, <1>6 DEF AllWhole, Types
<1>8. keys' # Torn /\ Belong' BY <1>6, <1>7 DEF Edits, Belong, AllWhole
<1>9. PICK g : g = Edited(f, o) OBVIOUS
<1>10. PICK new : new = [file EXCEPT ![Mine(e)] = g] OBVIOUS
<1>11. [file' EXCEPT ![Mine(e)] = g] = new BY <1>6, <1>10 DEF Types
<1>12. ASSUME AllWhole(new) PROVE Keyed(keys) \subseteq Homes(new) \cup Going(o)
  <2>1. AllWhole(file) BY <1>1, <1>4, <1>5, <1>10, <1>12 DEF AllWhole, Types
  <2>2. Keyed(keys) \subseteq Homes(file) BY <2>1 DEF Edits, Belong
  <2>3. Customs(f) \subseteq Customs(g) \cup Going(o) BY <1>3, <1>5, <1>9, EditedKeeps
  <2>4. Had(file) \subseteq Had(new) \cup Going(o)
    <3> SUFFICES ASSUME NEW r \in Projects
                 PROVE  Customs(file[r]) \subseteq Customs(new[r]) \cup Going(o)
      BY DEF Had
    <3>1. new[r] = IF r = Mine(e) THEN g ELSE file[r] BY <1>10 DEF Types
    <3> QED BY <1>1, <2>3, <3>1
  <2> QED BY <2>2, <2>4 DEF Homes
<1>13. (draft[e].file = g)' /\ (op[e] = o)' BY <1>1, <1>5, <1>6, <1>9
<1>14. LET mine == [file EXCEPT ![Mine(e)] = draft[e].file]
       IN (AllWhole(mine) => Keyed(keys) \subseteq Homes(mine) \cup Going(op[e]))'
  BY <1>6, <1>11, <1>12, <1>13 DEF AllWhole, Homes, Had
<1>15. FileStep(e)' BY <1>2, <1>5, <1>9, <1>13, <1>14 DEF FileStep
<1>16. KeyStep(e)' /\ DoneStep(e)' BY <1>2 DEF KeyStep, DoneStep, KeySteps
<1> QED BY <1>8, <1>15, <1>16, OneEditor, AloneAtWork DEF EditorStep

LEMMA WriteFileEdits ==
  ASSUME IInv, Types', LockOK', Apart', ~clash, ~clash', NEW e \in Editors, WriteFile(e)
  PROVE  EditsBody'
<1> USE DEF IInv
<1>1. PICK o, g : o = op[e] /\ g = draft[e].file OBVIOUS
<1>2. at[e] = "write_file" /\ at'[e] = AfterFile(o) BY <1>1 DEF WriteFile, Goto, Types
<1>3. o \in Operations /\ o.kind \in FileKinds BY <1>1, <1>2 DEF LockOK
<1>4. UNCHANGED <<keys, temporary, live, op, draft, read>> /\ file' = [file EXCEPT ![Mine(e)] = g]
      /\ excused' = IF AfterFile(o) = "read_keys" THEN excused \cup {o.id} ELSE excused
  BY <1>1 DEF WriteFile, shared
<1>5. Mine(e) \in Projects BY EditorsAssumption DEF Mine
<1>6. file'[Mine(e)] = g BY <1>4, <1>5 DEF Types
<1>7. /\ \E f \in Files : g = Edited(f, o)
      /\ AllWhole(file') => Keyed(keys) \subseteq Homes(file') \cup Going(o)
  BY <1>1, <1>2, <1>4 DEF Edits, FileStep
<1>8. g # Torn /\ (o.kind = "remove_provider" => g.custom[o.id] = NoEntry)
  BY <1>3, <1>7, EditedIsFile
<1>9. AfterFile(o) = IF o.kind = "remove_provider" /\ o.id \notin Presets THEN "read_keys" ELSE "reload"
  BY DEF AfterFile
<1>10. Going(o) \subseteq Presets \cup excused' BY <1>4, <1>9 DEF Going
<1>11. ASSUME AllWhole(file') PROVE Keyed(keys) \subseteq Homes(file)'
  <2>1. excused \subseteq excused' BY <1>4
  <2> QED BY <1>7, <1>10, <1>11, <2>1 DEF Homes
<1>12. keys' # Torn /\ Belong' BY <1>4, <1>11 DEF Belong, Edits, AllWhole
<1>13. (op[e] = o)' /\ (file[Mine(e)] = g)' BY <1>1, <1>4, <1>6
<1>14. FileStep(e)' BY <1>2, <1>9 DEF FileStep
<1>15. KeyStep(e)' BY <1>2, <1>3, <1>8, <1>9, <1>13 DEF KeyStep, KeySteps, FileKinds
<1>16. DoneStep(e)' BY <1>2, <1>3, <1>7, <1>8, <1>9, <1>13 DEF DoneStep, Written, FileKinds
<1> QED BY <1>12, <1>14, <1>15, <1>16, OneEditor, AloneAtWork DEF EditorStep

LEMMA ReadKeysEdits ==
  ASSUME IInv, Types', LockOK', Apart', ~clash, ~clash', NEW e \in Editors, ReadKeys(e)
  PROVE  EditsBody'
<1> USE DEF IInv
<1>1. PICK o : o = op[e] OBVIOUS
<1>2. PICK new : new = ChangedKeys(keys, o) OBVIOUS
<1>3. /\ at[e] = "read_keys"
      /\ at'[e] = IF o.kind # "save_key" /\ new = keys THEN "reload" ELSE "truncate_keys"
      /\ draft'[e].keys = new
  BY <1>1, <1>2 DEF ReadKeys, Goto, Types
<1>4. UNCHANGED <<file, keys, temporary, live, op, read, excused>>
  BY DEF ReadKeys, disk, shared, history
<1>5. keys' # Torn /\ Belong' BY <1>4 DEF Edits, Belong, AllWhole, Homes, Had
<1>6. o.kind \in KeyKinds /\ o \in Operations BY <1>1, <1>3 DEF LockOK, KeySteps
<1>7. KeyStep(e) BY DEF Edits
<1>8. new = keys /\ o.kind # "save_key" => keys[o.id] = NoKey
  <2> SUFFICES ASSUME new = keys, o.kind # "save_key" PROVE keys[o.id] = NoKey OBVIOUS
  <2>1. keys \in KeySets BY DEF ReadKeys, Types
  <2>2. ChangedKeys(keys, o)[o.id] = NoKey BY <1>6, <2>1, ChangedIsKeys
  <2> QED BY <1>2, <2>2
<1>9. (op[e] = o)' BY <1>1, <1>4
<1>10. FileStep(e)' BY <1>3 DEF FileStep
<1>11. KeyStep(e)'
  BY <1>1, <1>2, <1>3, <1>4, <1>7, <1>9 DEF KeyStep, KeySteps, AllWhole, Homes, Had
<1>12. ASSUME at'[e] = "reload" PROVE Written(e)'
  <2>1. o.kind # "save_key" /\ keys[o.id] = NoKey BY <1>3, <1>8, <1>12
  <2>2. ASSUME o.kind = "remove_provider"
        PROVE  file[Mine(e)] # Torn /\ \E f \in Files : file[Mine(e)] = Edited(f, o)
    BY <1>1, <1>3, <1>6, <1>7, <2>2, GoneIsEdited DEF KeyStep, KeySteps
  <2> QED BY <1>4, <1>6, <1>9, <2>1, <2>2 DEF Written, KeyKinds, FileKinds
<1>13. DoneStep(e)' BY <1>3, <1>12 DEF DoneStep
<1> QED BY <1>5, <1>10, <1>11, <1>13, OneEditor, AloneAtWork DEF EditorStep

LEMMA TemporaryEdits ==
  ASSUME IInv, Types', LockOK', Apart', ~clash, ~clash', NEW e \in Editors,
         TruncateKeys(e) \/ WriteKeys(e)
  PROVE  EditsBody'
<1> USE DEF IInv
<1>1. /\ at[e] \in {"truncate_keys", "write_keys"} /\ at'[e] \in {"write_keys", "rename"}
      /\ at'[e] = "rename" => temporary' = draft[e].keys
  BY DEF TruncateKeys, WriteKeys, Goto, Types
<1>2. UNCHANGED <<file, keys, live, op, draft, read, excused>>
  BY DEF TruncateKeys, WriteKeys, shared, history
<1>3. keys' # Torn /\ Belong' BY <1>2 DEF Edits, Belong, AllWhole, Homes, Had
<1>4. FileStep(e)' /\ DoneStep(e)' BY <1>1 DEF FileStep, DoneStep
<1>5. KeyStep(e) BY DEF Edits
<1>6. KeyStep(e)' BY <1>1, <1>2, <1>5 DEF KeyStep, KeySteps, AllWhole, Homes, Had
<1> QED BY <1>3, <1>4, <1>6, OneEditor, AloneAtWork DEF EditorStep

LEMMA RenameEdits ==
  ASSUME IInv, Types', LockOK', Apart', ~clash, ~clash', NEW e \in Editors, Rename(e)
  PROVE  EditsBody'
<1> USE DEF IInv
<1>1. PICK o : o = op[e] OBVIOUS
<1>2. at[e] = "rename" /\ at'[e] = "reload" BY DEF Rename, Goto, Types
<1>3. UNCHANGED <<file, live, op, draft, read, excused>> BY DEF Rename, shared, history
<1>4. KeyStep(e) BY DEF Edits
<1>5. keys' = ChangedKeys(keys, o) BY <1>1, <1>2, <1>4 DEF Rename, KeyStep
<1>6. o.kind \in KeyKinds /\ o \in Operations BY <1>1, <1>2 DEF LockOK, KeySteps
<1>7. keys \in KeySets BY DEF Edits, Types
<1>8. keys' # Torn BY <1>5, <1>6, <1>7, ChangedIsKeys, TornAssumption
<1>9. o.kind = "save_key" /\ AllWhole(file) => o.id \in Homes(file)
  BY <1>1, <1>2, <1>4 DEF KeyStep, KeySteps
<1>10. Keyed(keys') \subseteq Keyed(keys) \cup (IF o.kind = "save_key" THEN {o.id} ELSE {})
  BY <1>5, <1>6, <1>7, ChangedIsKeys
<1>11. AllWhole(file) => Keyed(keys') \subseteq Homes(file) BY <1>9, <1>10 DEF Edits, Belong
<1>12. Belong' BY <1>3, <1>11 DEF Belong, AllWhole, Homes, Had
<1>13. (op[e] = o)' BY <1>1, <1>3
<1>14. FileStep(e)' /\ KeyStep(e)' BY <1>2 DEF FileStep, KeyStep, KeySteps
<1>15. keys'[o.id] = IF o.kind = "save_key" THEN o.key ELSE NoKey
  BY <1>5, <1>6, <1>7, ChangedIsKeys
<1>16. ASSUME o.kind = "remove_provider"
       PROVE  file[Mine(e)] # Torn /\ \E f \in Files : file[Mine(e)] = Edited(f, o)
  BY <1>1, <1>2, <1>4, <1>6, <1>16, GoneIsEdited DEF KeyStep, KeySteps
<1>17. Written(e)' BY <1>3, <1>6, <1>13, <1>15, <1>16 DEF Written, KeyKinds, FileKinds
<1>18. DoneStep(e)' BY <1>2, <1>17 DEF DoneStep
<1> QED BY <1>8, <1>12, <1>14, <1>18, OneEditor, AloneAtWork DEF EditorStep

LEMMA ReloadEdits ==
  ASSUME IInv, Types', LockOK', Apart', ~clash, ~clash', NEW e \in Editors,
         ReloadKeys(e) \/ Reload(e)
  PROVE  EditsBody'
<1> USE DEF IInv
<1>1. /\ at[e] \in {"reload", "load"} /\ at'[e] \in {"load", "confirmed"}
      /\ at'[e] = "load" => read'[e] = Saved(keys)
      /\ at'[e] = "confirmed" =>
            /\ at[e] = "load" /\ file[Mine(e)] # Torn
            /\ live' = [live EXCEPT ![HomeOf(e)] = Load(HomeOf(e), file[Mine(e)], read[e])]
  BY DEF ReloadKeys, Reload, Goto, Types, Home
<1>2. UNCHANGED <<file, keys, temporary, op, excused>>
  BY DEF ReloadKeys, Reload, disk, shared, history
<1>3. keys' # Torn /\ Belong' BY <1>2 DEF Edits, Belong, AllWhole, Homes, Had
<1>4. DoneStep(e) BY DEF Edits
<1>5. Saved(keys) = keys BY SavedIsRead DEF Edits, Types
<1>6. HomeOf(e) \in DOMAIN live BY EditorsAssumption DEF LiveOK
<1>7. at'[e] = "confirmed" => live'[HomeOf(e)] = Load(HomeOf(e), file[Mine(e)], keys)
  BY <1>1, <1>4, <1>6 DEF DoneStep
<1>8. Written(e)' BY <1>1, <1>2, <1>4 DEF DoneStep, Written
<1>9. DoneStep(e)' BY <1>1, <1>2, <1>5, <1>7, <1>8 DEF DoneStep
<1>10. FileStep(e)' /\ KeyStep(e)' BY <1>1 DEF FileStep, KeyStep, KeySteps
<1> QED BY <1>3, <1>9, <1>10, OneEditor, AloneAtWork DEF EditorStep

LEMMA FailEdits ==
  ASSUME IInv, Types', LockOK', Apart', ~clash, ~clash', NEW e \in Editors, Fail(e)
  PROVE  EditsBody'
<1> USE DEF IInv
<1>1. at'[e] = "refused" BY DEF Fail, Types
<1>2. UNCHANGED <<file, keys, excused>> BY DEF Fail, disk, history
<1>3. keys' # Torn /\ Belong' BY <1>2 DEF Edits, Belong, AllWhole, Homes, Had
<1>4. FileStep(e)' /\ KeyStep(e)' /\ DoneStep(e)' BY <1>1 DEF FileStep, KeyStep, DoneStep, KeySteps
<1> QED BY <1>3, <1>4, OneEditor, AloneAtWork DEF EditorStep

(* A removal that is confirmed left no key of its endpoint. *)
LEMMA EndEdits ==
  ASSUME IInv, Types', LockOK', Apart', ~clash, ~clash', NEW e \in Editors, End(e)
  PROVE  EditsBody'
<1> USE DEF IInv
<1>1. at[e] # "idle" /\ at' = [at EXCEPT ![e] = "idle"] BY DEF End, Goto
<1>2. UNCHANGED <<file, keys, temporary, live>>
      /\ excused' = IF at[e] = "confirmed" /\ op[e].kind = "remove_provider"
                    THEN excused \ {op[e].id} ELSE excused
  BY DEF End, disk
<1>3. Belong'
  <2>1. CASE at[e] = "confirmed" /\ op[e].kind = "remove_provider"
    <3>1. op[e].id \in Presets \/ keys[op[e].id] = NoKey
      BY <2>1 DEF Edits, DoneStep, Written, FileKinds
    <3>2. op[e].id \in Presets \/ op[e].id \notin Keyed(keys) BY <3>1 DEF Keyed
    <3> QED BY <1>2, <2>1, <3>2 DEF Edits, Belong, AllWhole, Homes, Had
  <2>2. CASE ~(at[e] = "confirmed" /\ op[e].kind = "remove_provider")
    BY <1>2, <2>2 DEF Edits, Belong, AllWhole, Homes, Had
  <2> QED BY <2>1, <2>2
<1>4. \A d \in Editors \ {e} : at'[d] = "idle" BY <1>1, Alone
<1>5. keys' # Torn BY <1>2 DEF Edits
<1>6. at'[e] = "idle" BY <1>1 DEF Types
<1> QED BY <1>3, <1>4, <1>5, <1>6, OneEditor

(* What a step says of the files is so while they and the editor stay as they are. *)
LEMMA SameSteps ==
  ASSUME NEW d \in Editors, UNCHANGED <<file, keys, temporary, excused>>,
         at'[d] = at[d], op'[d] = op[d], draft'[d] = draft[d], read'[d] = read[d],
         at[d] = "confirmed" => live'[HomeOf(d)] = live[HomeOf(d)],
         FileStep(d), KeyStep(d), DoneStep(d)
  PROVE  FileStep(d)' /\ KeyStep(d)' /\ DoneStep(d)'
<1>1. FileStep(d)' BY DEF FileStep, AllWhole, Homes, Had
<1>2. KeyStep(d)' BY DEF KeyStep, AllWhole, Homes, Had
<1>3. DoneStep(d)' BY DEF DoneStep, Written
<1> QED BY <1>1, <1>2, <1>3

LEMMA CrashEdits ==
  ASSUME IInv, ~clash, NEW p \in Processes, Crash(p)
  PROVE  EditsBody'
<1>1. UNCHANGED <<file, keys, temporary, live, excused>> BY DEF Crash, disk
<1>2. keys' # Torn /\ Belong' BY <1>1 DEF IInv, Edits, Belong, AllWhole, Homes, Had
<1>3. ASSUME NEW d \in Editors PROVE FileStep(d)' /\ KeyStep(d)' /\ DoneStep(d)'
  <2>1. CASE HomeOf(d) = p
    <3>1. at'[d] = "idle" BY <2>1 DEF Crash, Home
    <3> QED BY <3>1 DEF FileStep, KeyStep, DoneStep, KeySteps
  <2>2. CASE HomeOf(d) # p
    <3>1. at'[d] = at[d] /\ op'[d] = op[d] /\ draft'[d] = draft[d] /\ read'[d] = read[d]
      BY <2>2 DEF Crash, Home
    <3>2. FileStep(d) /\ KeyStep(d) /\ DoneStep(d) BY DEF IInv, Edits
    <3> QED BY <1>1, <3>1, <3>2, SameSteps
  <2> QED BY <2>1, <2>2
<1> QED BY <1>2, <1>3 DEF EditsBody

LEMMA OpenEdits ==
  ASSUME IInv, ~clash, NEW p \in Processes, Open(p)
  PROVE  EditsBody'
<1>1. UNCHANGED <<file, keys, temporary, at, op, draft, read, excused>> BY DEF Open, disk
<1>2. keys' # Torn /\ Belong' BY <1>1 DEF IInv, Edits, Belong, AllWhole, Homes, Had
<1>3. ASSUME NEW d \in Editors PROVE FileStep(d)' /\ KeyStep(d)' /\ DoneStep(d)'
  <2>1. FileStep(d) /\ KeyStep(d) /\ DoneStep(d) BY DEF IInv, Edits
  <2>2. at[d] = "confirmed" => live'[HomeOf(d)] = live[HomeOf(d)]
    BY DEF IInv, LockOK, LiveOK, Open
  <2> QED BY <1>1, <2>1, <2>2, SameSteps
<1> QED BY <1>2, <1>3 DEF EditsBody

--------------------------------------------------------------------------------
LEMMA InitIInv == Init => IInv
<1> SUFFICES ASSUME Init PROVE IInv OBVIOUS
<1>1. NoFile \in Files /\ NoKeys \in KeySets BY NothingTyped
<1>2. Types BY <1>1 DEF Init, Types, Steps, NoDraft
<1>3. LiveOK
  <2>1. \A p \in Processes : live[p] = Load(p, NoFile, NoKeys) BY DEF Init
  <2>2. \A p \in Processes : Load(p, NoFile, NoKeys).custom = Customs(NoFile) BY DEF Load
  <2>3. \A p \in Processes : file[ProjectOf(p)] = NoFile BY EditorsAssumption DEF Init
  <2> QED BY <1>1, <2>1, <2>2, <2>3 DEF Init, LiveOK
<1>4. LockOK /\ Apart BY DEF Init, LockOK, Apart
<1>5. Edits
  <2>1. keys # Torn BY <1>1, TornAssumption DEF Init
  <2>2. Belong BY DEF Init, Belong, Keyed, NoKeys
  <2>3. \A e \in Editors : FileStep(e) /\ KeyStep(e) /\ DoneStep(e)
    BY DEF Init, FileStep, KeyStep, DoneStep, KeySteps
  <2> QED BY <2>1, <2>2, <2>3 DEF Edits
<1> QED BY <1>2, <1>3, <1>4, <1>5 DEF IInv

LEMMA NextIInv == IInv /\ [Next]_vars => IInv'
<1> SUFFICES ASSUME IInv, [Next]_vars PROVE IInv' OBVIOUS
<1>1. CASE UNCHANGED vars
  <2>1. Types' BY <1>1 DEF vars, IInv, Types
  <2>2. LiveOK' BY <1>1 DEF vars, IInv, LiveOK
  <2>3. LockOK' BY <1>1 DEF vars, IInv, LockOK
  <2>4. Apart' BY <1>1 DEF vars, IInv, Apart
  <2>5. Edits'
    <3>1. (~clash' => ~clash) /\ Edits BY <1>1 DEF vars, IInv
    <3>2. Belong' <=> Belong BY <1>1 DEF vars, Belong, AllWhole, Homes, Had
    <3>3. ASSUME ~clash, NEW e \in Editors PROVE FileStep(e)' /\ KeyStep(e)' /\ DoneStep(e)'
      <4>1. FileStep(e) /\ KeyStep(e) /\ DoneStep(e) BY <3>1, <3>3 DEF Edits
      <4> QED BY <1>1, <4>1, SameSteps DEF vars
    <3>4. keys' = keys BY <1>1 DEF vars
    <3> QED BY <3>1, <3>2, <3>3, <3>4 DEF Edits
  <2> QED BY <2>1, <2>2, <2>3, <2>4, <2>5 DEF IInv
<1>2. CASE Next
  <2>1. Types' /\ LockOK' /\ LiveOK' BY <1>2, TypesStep, LockStep, LiveStep
  <2>2. Apart' /\ (~clash' => ~clash) BY <1>2, WatchApart DEF Next
  <2>3. ~clash' => EditsBody'
    <3> SUFFICES ASSUME ~clash', ~clash PROVE EditsBody' BY <2>2
    <3>1. ASSUME NEW e \in Editors, Begin(e) \/ EditorStep(e) \/ End(e) PROVE EditsBody'
      BY <2>1, <2>2, <3>1, BeginEdits, ReadFileEdits, TruncateFileEdits, WriteFileEdits,
         ReadKeysEdits, TemporaryEdits, RenameEdits, ReloadEdits, FailEdits, EndEdits
      DEF EditorStep
    <3> QED BY <1>2, <3>1, CrashEdits, OpenEdits DEF Next, EditorStep
  <2> QED BY <2>1, <2>2, <2>3 DEF IInv, Edits, EditsBody
<1> QED BY <1>1, <1>2

(* Unless editors of two processes were ever at work at once, the saved keys are whole
   and each is of a preset or of an endpoint some project has, but for removals that were
   cut off or failed and keys saved by stale settings; and a process has a source for each
   endpoint it would use.  About KeyStore::write, remove_provider and load. *)
THEOREM SoundKeys == Spec => []KeysAreSound
<1>1. IInv => KeysAreSound
  <2> SUFFICES ASSUME IInv PROVE KeysAreSound OBVIOUS
  <2>1. \A p \in Processes :
           /\ DOMAIN live[p].endpoints \subseteq DOMAIN live[p].source
           /\ live[p].jev \in DOMAIN live[p].endpoints \cup {NoJev}
    <3> SUFFICES ASSUME NEW p \in Processes
                 PROVE  /\ DOMAIN live[p].endpoints \subseteq DOMAIN live[p].source
                        /\ live[p].jev \in DOMAIN live[p].endpoints \cup {NoJev}
      OBVIOUS
    <3>1. PICK f \in Files, k \in KeySets : live[p] = Load(p, f, k) BY DEF IInv, LiveOK
    <3>2. /\ DOMAIN Load(p, f, k).endpoints \subseteq DOMAIN Load(p, f, k).source
          /\ Load(p, f, k).jev \in DOMAIN Load(p, f, k).endpoints \cup {NoJev}
      BY LoadFacts
    <3> QED BY <3>1, <3>2
  <2>2. TypeOK BY <2>1 DEF IInv, Types, TypeOK, Steps
  <2>3. KeysAreWhole BY DEF IInv, Edits, KeysAreWhole
  <2>4. KeysBelong BY DEF IInv, Edits, Belong, KeysBelong, AllWhole, Homes, Had
  <2> QED BY <2>2, <2>3, <2>4 DEF KeysAreSound
<1> QED BY <1>1, InitIInv, NextIInv, PTL DEF Spec

(* Unless editors of two processes were ever at work at once, an edit that writes a whole
   file keeps what the edits before it saved of other providers, and of the Jev if it is
   not about the Jev.  About save_custom, remove_custom, set_jev, KeyStore::set and remove. *)
THEOREM EditsKeep == Spec => EditsKeepTheRest
<1> DEFINE KeptKeys(e) == at[e] = "rename" /\ at'[e] = "reload" =>
                \A p \in Providers \ {op[e].id} : keys'[p] = keys[p]
           KeptFile(e) == at[e] = "truncate_file" /\ at'[e] = "write_file" /\ file[Mine(e)] # Torn =>
                LET old == file[Mine(e)]
                    new == draft[e].file
                IN IF op[e].kind \in {"save_provider", "remove_provider"}
                   THEN /\ new.jev = old.jev
                        /\ \A p \in Providers \ {op[e].id} : new.custom[p] = old.custom[p]
                   ELSE new.custom = old.custom
           Keep == \A e \in Editors : ~clash' =>
          /\ at[e] = "rename" /\ at'[e] = "reload" /\ Torn \notin {keys, keys'} =>
                \A p \in Providers \ {op[e].id} : keys'[p] = keys[p]
          /\ at[e] = "truncate_file" /\ at'[e] = "write_file" /\ file[Mine(e)] # Torn =>
                LET old == file[Mine(e)]
                    new == draft[e].file
                IN IF op[e].kind \in {"save_provider", "remove_provider"}
                   THEN /\ new.jev = old.jev
                        /\ \A p \in Providers \ {op[e].id} : new.custom[p] = old.custom[p]
                   ELSE new.custom = old.custom
<1>1. IInv /\ [Next]_vars => [Keep]_vars
  <2> SUFFICES ASSUME IInv, Next, NEW e \in Editors, ~clash' PROVE KeptKeys(e) /\ KeptFile(e)
    OBVIOUS
  <2>1. ~clash BY WatchApart DEF Next
  <2>2. KeptKeys(e)
    <3> SUFFICES ASSUME at[e] = "rename", at'[e] = "reload"
                 PROVE  \A p \in Providers \ {op[e].id} : keys'[p] = keys[p]
      OBVIOUS
    <3>1. Rename(e)
      <4>1. \A d \in Editors \ {e} : at[d] = "idle" BY <2>1, Alone DEF IInv
      <4>2. PICK d \in Editors : Begin(d) \/ EditorStep(d) \/ End(d)
        BY DEF Next, Crash, Open, EditorStep, Home
      <4>3. d # e => at'[e] = at[e]
        BY <4>1, <4>2 DEF IInv, Types, Begin, EditorStep, ReadFile, TruncateFile, WriteFile,
           ReadKeys, TruncateKeys, WriteKeys, Rename, ReloadKeys, Reload, Fail, End, Goto
      <4>4. at \in [Editors -> Steps] BY DEF IInv, Types
      <4>5. d = e BY <4>3
      <4>6. ~Begin(e) /\ ~ReadFile(e) /\ ~TruncateFile(e) /\ ~WriteFile(e) /\ ~End(e)
        BY DEF Begin, ReadFile, TruncateFile, WriteFile, End, Goto
      <4>7. ~ReadKeys(e) /\ ~TruncateKeys(e) /\ ~WriteKeys(e) /\ ~ReloadKeys(e) /\ ~Reload(e)
        BY DEF ReadKeys, TruncateKeys, WriteKeys, ReloadKeys, Reload, Goto
      <4>8. ~Fail(e) BY <4>4 DEF Fail
      <4> QED BY <4>2, <4>5, <4>6, <4>7, <4>8 DEF EditorStep
    <3>2. keys' = ChangedKeys(keys, op[e])
      BY <2>1, <3>1 DEF Rename, IInv, Edits, KeyStep, KeySteps
    <3>3. keys \in KeySets /\ op[e] \in Operations BY <2>1 DEF IInv, Types, Edits, LockOK
    <3> QED BY <3>2, <3>3, ChangedIsKeys
  <2>3. KeptFile(e)
    <3> SUFFICES ASSUME at[e] = "truncate_file", file[Mine(e)] # Torn PROVE KeptFile(e)
      OBVIOUS
    <3>1. PICK f, o : f = file[Mine(e)] /\ o = op[e] OBVIOUS
    <3>2. draft[e].file = Edited(f, o) BY <2>1, <3>1 DEF IInv, Edits, FileStep
    <3>3. o \in Operations /\ o.kind \in FileKinds BY <3>1 DEF IInv, LockOK
    <3>4. f \in Files BY <3>1, EditorsAssumption DEF IInv, Types, Mine
    <3> QED BY <3>1, <3>2, <3>3, <3>4, EditedIsFile DEF FileKinds
  <2> QED BY <2>2, <2>3
<1> QED BY <1>1, InitIInv, NextIInv, PTL DEF Spec, EditsKeepTheRest

(* Unless editors of two processes were ever at work at once, what the app confirms is so:
   the files hold the edit, and the settings new runs use are those of the files.  About
   the handlers of edits and Workspace::reload. *)
THEOREM ConfirmedApply == Spec => ConfirmedEditsApply
<1> DEFINE Applied == \A e \in Editors :
          at[e] = "confirmed" /\ at'[e] = "idle" /\ up'[Home(e)] /\ ~clash' =>
          /\ live'[Home(e)] = Load(Home(e), file'[Mine(e)], keys')
          /\ InForce(op[e], file'[Mine(e)], keys', live'[Home(e)])
<1>1. IInv /\ [Next]_vars => [Applied]_vars
  <2> SUFFICES ASSUME IInv, Next, NEW e \in Editors,
                      at[e] = "confirmed", at'[e] = "idle", up'[Home(e)], ~clash'
               PROVE  /\ live'[Home(e)] = Load(Home(e), file'[Mine(e)], keys')
                      /\ InForce(op[e], file'[Mine(e)], keys', live'[Home(e)])
    OBVIOUS
  <2>1. ~clash BY WatchApart DEF Next
  <2>2. UNCHANGED <<file, keys, live>>
    <3>1. \A d \in Editors \ {e} : at[d] = "idle" BY <2>1, Alone DEF IInv
    <3>2. CASE \E d \in Editors : Begin(d) \/ EditorStep(d) \/ End(d)
      <4>1. PICK d \in Editors : Begin(d) \/ EditorStep(d) \/ End(d) BY <3>2
      <4>2. CASE d = e
        BY <4>1, <4>2 DEF Begin, EditorStep, ReadFile, TruncateFile, WriteFile,
           ReadKeys, TruncateKeys, WriteKeys, Rename, ReloadKeys, Reload, Fail, End, Goto, disk
      <4>3. CASE d # e
        BY <3>1, <4>1, <4>3 DEF Begin, EditorStep, ReadFile, TruncateFile, WriteFile,
           ReadKeys, TruncateKeys, WriteKeys, Rename, ReloadKeys, Reload, Fail, End, Goto, disk
      <4> QED BY <4>2, <4>3
    <3>3. CASE \E p \in Processes : Crash(p) BY <3>3 DEF Crash, disk
    <3>4. CASE \E p \in Processes : Open(p) BY <3>4 DEF Open
    <3> QED BY <3>2, <3>3, <3>4 DEF Next, EditorStep
  <2>3. DoneStep(e) BY <2>1 DEF IInv, Edits
  <2>4. PICK f, o : f = file[Mine(e)] /\ o = op[e] OBVIOUS
  <2>5. /\ f \in Files /\ keys \in KeySets /\ o \in Operations
        /\ o.kind = "save_provider" => o.entry # NoEntry
    BY <2>1, <2>3, <2>4, EditorsAssumption DEF IInv, Types, Edits, DoneStep, Mine, LockOK
  <2>6. live[Home(e)] = Load(Home(e), f, keys) /\ Written(e) BY <2>3, <2>4 DEF DoneStep, Home
  <2>7. o.kind \in FileKinds => \E g \in Files : f = Edited(g, o) BY <2>4, <2>6 DEF Written
  <2>8. /\ o.kind = "save_provider" => f.custom[o.id] = o.entry
        /\ o.kind = "remove_provider" => f.custom[o.id] = NoEntry
        /\ o.kind = "save_jev" => f.jev = o.id
        /\ o.kind = "clear_jev" => f.jev = NoJev
    BY <2>5, <2>7, EditedIsFile DEF FileKinds
  <2>9. o.kind = "save_provider" => live[Home(e)].endpoints[o.id].url = o.entry.url
    <3> SUFFICES ASSUME o.kind = "save_provider" PROVE live[Home(e)].endpoints[o.id].url = o.entry.url
      OBVIOUS
    <3>1. o.id \in Customs(f) BY <2>5, <2>8 DEF Customs, Operations
    <3> QED BY <2>5, <2>6, <2>8, <3>1, LoadFacts
  <2>10. InForce(o, f, keys, live[Home(e)])
    BY <2>4, <2>6, <2>8, <2>9 DEF InForce, Written, FileKinds
  <2> QED BY <2>2, <2>4, <2>6, <2>10
<1> QED BY <1>1, InitIInv, NextIInv, PTL DEF Spec, ConfirmedEditsApply

--------------------------------------------------------------------------------
(* The adapter: recursive functions, and numbers in order.                       *)

(* A set of numbers has a least one. *)
LEMMA LeastExists ==
  ASSUME NEW S, S \subseteq Nat, S # {} PROVE \E m \in S : \A n \in S : m <= n
<1>1. \E m \in S : \A n \in S : <<n, m>> \notin OpToRel(<, Nat)
  BY NatLessThanWellFounded, WFMin
<1>2. PICK m \in S : \A n \in S : ~(n < m) BY <1>1 DEF OpToRel
<1> QED BY <1>2

(* A set that has 0 and with each number below n the next one has all up to n.   *)
LEMMA Upward ==
  ASSUME NEW N \in Nat, NEW T, 0 \in T, \A n \in T : n \in 0 .. N - 1 => n + 1 \in T
  PROVE  0 .. N \subseteq T
<1> SUFFICES ASSUME ~(0 .. N \subseteq T) PROVE FALSE OBVIOUS
<1> DEFINE Missing == 0 .. N \ T
<1>1. Missing \subseteq Nat /\ Missing # {} OBVIOUS
<1>2. PICK m \in Missing : \A n \in Missing : m <= n BY <1>1, LeastExists
<1>3. m # 0 /\ m \in 0 .. N /\ m \notin T BY <1>2
<1>4. m - 1 \in 0 .. N - 1 /\ (m - 1) + 1 = m BY <1>3
<1>5. m - 1 \in T BY <1>2, <1>4
<1> QED BY <1>3, <1>4, <1>5

(* A function on 0..N may be given by its first value and the step to the next,  *)
(* and what each step keeps holds of its values.                                 *)
Stepwise(N, U, V, first, G) ==
    /\ \A n \in 0 .. N : V[n] \subseteq U
    /\ first \in V[0] /\ \A n \in 1 .. N : \A v \in V[n - 1] : G[n][v] \in V[n]

Solves(f, N, V, first, G) ==
    /\ f[0] = first /\ \A n \in 0 .. N : f[n] \in V[n]
    /\ \A n \in 1 .. N : f[n] = G[n][f[n - 1]]

LEMMA Recursion ==
  ASSUME NEW N \in Nat, NEW U, NEW V, NEW first, NEW G, Stepwise(N, U, V, first, G)
  PROVE  \E f \in [0 .. N -> U] : Solves(f, N, V, first, G)
<1> USE DEF Stepwise, Solves
<1> DEFINE Upto(f, m) == /\ f \in [0 .. m -> U]
                         /\ f[0] = first /\ \A n \in 0 .. m : f[n] \in V[n]
                         /\ \A n \in 1 .. m : f[n] = G[n][f[n - 1]]
           T == {m \in 0 .. N : \E f : Upto(f, m)}
<1>1. 0 \in T
  <2> DEFINE f == [n \in 0 .. 0 |-> first]
  <2>1. Upto(f, 0) OBVIOUS
  <2> HIDE DEF f
  <2> QED BY <2>1
<1>2. ASSUME NEW m \in T, m \in 0 .. N - 1 PROVE m + 1 \in T
  <2>1. PICK f : Upto(f, m) OBVIOUS
  <2> DEFINE g == [n \in 0 .. m + 1 |-> IF n = m + 1 THEN G[m + 1][f[m]] ELSE f[n]]
  <2>2. m + 1 \in 1 .. N /\ (m + 1) - 1 = m BY <1>2
  <2>3. G[m + 1][f[m]] \in V[m + 1] BY <2>1, <2>2, m \in 0 .. m
  <2>4. g \in [0 .. m + 1 -> U]
    <3>1. G[m + 1][f[m]] \in U BY <2>2, <2>3
    <3>2. \A n \in 0 .. m + 1 : n # m + 1 => f[n] \in U BY <2>1
    <3> QED BY <3>1, <3>2
  <2>5. \A n \in 0 .. m : g[n] = f[n] BY <2>2
  <2>6. g[m + 1] = G[m + 1][f[m]] BY <2>2
  <2> HIDE DEF g
  <2>7. g[0] = first BY <2>1, <2>5, <2>2
  <2>8. \A n \in 0 .. m + 1 : g[n] \in V[n] BY <2>1, <2>3, <2>5, <2>6
  <2>9. \A n \in 1 .. m + 1 : g[n] = G[n][g[n - 1]]
    <3> TAKE n \in 1 .. m + 1
    <3>1. CASE n = m + 1 BY <3>1, <2>5, <2>6
    <3>2. CASE n # m + 1
      <4>1. n \in 1 .. m /\ n - 1 \in 0 .. m /\ n \in 0 .. m BY <3>2
      <4> QED BY <4>1, <2>1, <2>5
    <3> QED BY <3>1, <3>2
  <2>10. Upto(g, m + 1) BY <2>4, <2>7, <2>8, <2>9
  <2> HIDE DEF Upto
  <2> QED BY <2>2, <2>10
<1>3. N \in T
  <2> HIDE DEF T
  <2>1. 0 .. N \subseteq T BY <1>1, <1>2, Upward
  <2> QED BY <2>1
<1> QED BY <1>3

(* The sizes of the first questions. *)
LEMMA Sums ==
    /\ SizeTo \in [0 .. Len(Sizes) -> Nat] /\ SizeTo[0] = 0
    /\ \A n \in 1 .. Len(Sizes) : SizeTo[n] = SizeTo[n - 1] + Sizes[n]
<1> DEFINE N == Len(Sizes)
           V == [n \in 0 .. N |-> Nat]
           G == [n \in 1 .. N |-> [v \in Nat |-> v + Sizes[n]]]
           Def(f) == f = [n \in 0 .. N |-> IF n = 0 THEN 0 ELSE f[n - 1] + Sizes[n]]
<1>1. N \in Nat /\ \A n \in 1 .. N : Sizes[n] \in Nat BY AdapterAssumption
<1>2. Stepwise(N, Nat, V, 0, G) BY <1>1 DEF Stepwise
<1>3. PICK f \in [0 .. N -> Nat] : Solves(f, N, V, 0, G)
  <2> HIDE DEF N, V, G
  <2> QED BY <1>1, <1>2, Recursion
<1>4. f[0] = 0 /\ \A n \in 1 .. N : f[n] = G[n][f[n - 1]] BY <1>3 DEF Solves
<1>5. \A n \in 1 .. N : f[n] = f[n - 1] + Sizes[n]
  <2> TAKE n \in 1 .. N
  <2>1. n - 1 \in 0 .. N BY <1>1
  <2>2. f[n - 1] \in Nat BY <2>1
  <2> QED BY <1>4, <2>2
<1>6. Def(f)
  <2>1. ASSUME NEW n \in 0 .. N PROVE f[n] = IF n = 0 THEN 0 ELSE f[n - 1] + Sizes[n]
    <3>1. CASE n = 0 BY <3>1, <1>4
    <3>2. CASE n # 0
      <4>1. n \in 1 .. N BY <3>2, <1>1
      <4> QED BY <4>1, <3>2, <1>5
    <3> QED BY <3>1, <3>2
  <2> QED BY <2>1, <1>4
<1>7. Def(SizeTo) BY <1>6 DEF SizeTo
<1>8. SizeTo[0] = 0 /\ \A n \in 1 .. N : SizeTo[n] = SizeTo[n - 1] + Sizes[n]
  <2>1. 0 \in 0 .. N /\ 1 .. N \subseteq 0 .. N /\ \A n \in 1 .. N : n # 0 BY <1>1
  <2> QED BY <1>7, <2>1
<1>9. \A n \in 0 .. N : SizeTo[n] \in Nat
  <2> DEFINE T == {n \in 0 .. N : SizeTo[n] \in Nat}
  <2>1. 0 \in T BY <1>1, <1>8
  <2>2. ASSUME NEW n \in T, n \in 0 .. N - 1 PROVE n + 1 \in T
    <3>1. n + 1 \in 1 .. N /\ (n + 1) - 1 = n BY <1>1, <2>2
    <3>2. SizeTo[n + 1] = SizeTo[n] + Sizes[n + 1] BY <3>1, <1>8
    <3> QED BY <3>1, <3>2, <1>1
  <2> HIDE DEF T
  <2>3. 0 .. N \subseteq T BY <1>1, <2>1, <2>2, Upward
  <2> QED BY <2>3 DEF T
<1> QED BY <1>7, <1>8, <1>9

(* A batch begins at its first question, which is no later than the others.      *)
LEMMA Firsts ==
    /\ First \in [0 .. Len(Sizes) -> Nat]
    /\ \A q \in 1 .. Len(Sizes) :
          /\ First[q] \in 1 .. q /\ First[q] \in {q, First[q - 1]}
          /\ First[q] < q => Total(First[q], q) <= BatchLimit
<1> DEFINE N == Len(Sizes)
           V == [n \in 0 .. N |-> IF n = 0 THEN {1} ELSE 1 .. n]
           Grown(v, n) == IF v < n /\ Total(v, n) > BatchLimit THEN n ELSE v
           G == [n \in 1 .. N |-> [v \in Nat |-> Grown(v, n)]]
           Def(f) == f = [q \in 0 .. N |-> IF q = 0 THEN 1 ELSE Grown(f[q - 1], q)]
<1>1. N \in Nat BY AdapterAssumption
<1>2. Stepwise(N, Nat, V, 1, G)
  <2>1. \A n \in 0 .. N : V[n] \subseteq Nat /\ 1 \in V[0] BY <1>1
  <2>2. ASSUME NEW n \in 1 .. N, NEW v \in V[n - 1] PROVE G[n][v] \in V[n]
    <3>1. n - 1 \in 0 .. N /\ n \in 0 .. N /\ n # 0 BY <1>1
    <3>2. v \in 1 .. n BY <3>1, <1>1
    <3>3. Grown(v, n) \in 1 .. n BY <3>2
    <3> HIDE DEF Grown
    <3> QED BY <3>1, <3>2, <3>3
  <2> HIDE DEF V, G
  <2> QED BY <2>1, <2>2, <1>1 DEF Stepwise
<1>3. PICK f \in [0 .. N -> Nat] : Solves(f, N, V, 1, G)
  <2> HIDE DEF N, V, G
  <2> QED BY <1>1, <1>2, Recursion
<1>4. f[0] = 1 /\ \A n \in 1 .. N : f[n] = Grown(f[n - 1], n)
  <2>1. f[0] = 1 /\ \A n \in 1 .. N : f[n] = G[n][f[n - 1]] BY <1>3 DEF Solves
  <2>2. \A n \in 1 .. N : f[n - 1] \in Nat BY <1>1
  <2> HIDE DEF Grown
  <2> QED BY <2>1, <2>2
<1>5. Def(f)
  <2>1. ASSUME NEW q \in 0 .. N PROVE f[q] = IF q = 0 THEN 1 ELSE Grown(f[q - 1], q)
    <3> HIDE DEF Grown
    <3>1. CASE q = 0 BY <3>1, <1>4
    <3>2. CASE q # 0
      <4>1. q \in 1 .. N BY <3>2, <1>1
      <4> QED BY <4>1, <3>2, <1>4
    <3> QED BY <3>1, <3>2
  <2> HIDE DEF Grown
  <2> QED BY <2>1
<1>6. Def(First) BY <1>5 DEF First
<1>7. First[0] = 1 /\ \A q \in 1 .. N : First[q] = Grown(First[q - 1], q)
  <2>1. 0 \in 0 .. N /\ 1 .. N \subseteq 0 .. N /\ \A n \in 1 .. N : n # 0 BY <1>1
  <2> HIDE DEF Grown
  <2> QED BY <1>6, <2>1
<1>8. \A q \in 0 .. N : First[q] \in V[q]
  <2> DEFINE T == {q \in 0 .. N : First[q] \in V[q]}
  <2>1. 0 \in T BY <1>1, <1>7
  <2>2. ASSUME NEW n \in T, n \in 0 .. N - 1 PROVE n + 1 \in T
    <3>1. n + 1 \in 1 .. N /\ (n + 1) - 1 = n BY <1>1, <2>2
    <3>2. First[n + 1] = Grown(First[n], n + 1) BY <3>1, <1>7
    <3>3. First[n] \in 1 .. n + 1 BY <3>1, <2>2, <1>1
    <3> QED BY <3>1, <3>2, <3>3, <1>1
  <2> HIDE DEF T
  <2>3. 0 .. N \subseteq T BY <1>1, <2>1, <2>2, Upward
  <2> QED BY <2>3 DEF T
<1>9. \A q \in 1 .. N : First[q] \in 1 .. q BY <1>8, <1>1
<1>10. First \in [0 .. N -> Nat]
  <2>1. \A q \in 0 .. N : First[q] \in Nat BY <1>8, <1>1
  <2> HIDE DEF Grown
  <2> QED BY <2>1, <1>6
<1>11. ASSUME NEW q \in 1 .. N
       PROVE  /\ First[q] \in {q, First[q - 1]}
              /\ First[q] < q => Total(First[q], q) <= BatchLimit
  <2>1. First[q] = Grown(First[q - 1], q) /\ First[q - 1] \in Nat BY <1>7, <1>10, <1>1
  <2>2. First[q - 1] \in 1 .. q
    <3>1. CASE q = 1 BY <3>1, <1>7
    <3>2. CASE q # 1
      <4>1. q - 1 \in 1 .. N BY <3>2, <1>1
      <4> QED BY <4>1, <1>9
    <3> QED BY <3>1, <3>2
  <2>3. \A a \in 1 .. q : Total(a, q) \in Int
    <3>1. \A a \in 1 .. q : a - 1 \in 0 .. N /\ q \in 0 .. N BY <1>1
    <3>2. \A n \in 0 .. N : SizeTo[n] \in Nat BY Sums
    <3>3. \A a \in 1 .. q : SizeTo[q] - SizeTo[a - 1] \in Int BY <3>1, <3>2
    <3> QED BY <3>3 DEF Total
  <2> QED BY <2>1, <2>2, <2>3, AdapterAssumption
<1> QED BY <1>9, <1>10, <1>11

(* Questions of one batch follow each other. *)
LEMMA BatchesAscend ==
    /\ \A p, q \in 1 .. Len(Sizes) : p <= q => First[p] <= First[q]
    /\ \A q \in 1 .. Len(Sizes) : First[First[q]] = First[q]
<1> DEFINE N == Len(Sizes)
           T == {q \in 0 .. N : /\ \A p \in 1 .. q : First[p] <= First[q]
                                /\ q # 0 => First[First[q]] = First[q]}
<1>1. N \in Nat /\ \A q \in 1 .. N : First[q] \in 1 .. q /\ First[q] \in {q, First[q - 1]}
  BY AdapterAssumption, Firsts
<1>2. 0 \in T BY <1>1
<1>3. ASSUME NEW n \in T, n \in 0 .. N - 1 PROVE n + 1 \in T
  <2>1. n + 1 \in 1 .. N /\ (n + 1) - 1 = n BY <1>1, <1>3
  <2>2. First[n + 1] \in 1 .. n + 1 /\ First[n + 1] \in {n + 1, First[n]} BY <1>1, <2>1
  <2>3. \A p \in 1 .. n + 1 : First[p] \in 1 .. p BY <1>1, <2>1
  <2>4. CASE First[n + 1] = n + 1
    <3>1. \A p \in 1 .. n + 1 : First[p] <= n + 1 BY <2>3, <2>1
    <3> QED BY <2>1, <2>4, <3>1
  <2>5. CASE First[n + 1] # n + 1
    <3>1. First[n + 1] = First[n] /\ n # 0 BY <2>2, <2>5
    <3>2. \A p \in 1 .. n + 1 : p = n + 1 \/ p \in 1 .. n BY <2>1
    <3>3. \A p \in 1 .. n + 1 : First[p] <= First[n + 1] BY <3>1, <3>2, <2>2
    <3> QED BY <2>1, <3>1, <3>3
  <2> QED BY <2>4, <2>5
<1> HIDE DEF T
<1>4. 0 .. N \subseteq T BY <1>1, <1>2, <1>3, Upward
<1>5. \A q \in 1 .. N : q \in T /\ q # 0 BY <1>1, <1>4
<1> QED BY <1>5 DEF T

(* Numbers have an order. *)
Ascends(s) == \A i, j \in DOMAIN s : i < j => s[i] < s[j]
Lists(s, S) ==
    /\ s \in [1 .. Cardinality(S) -> S] /\ Cardinality(S) \in Nat
    /\ Ascends(s) /\ \A x \in S : \E i \in DOMAIN s : s[i] = x

LEMMA OrderExists ==
  ASSUME NEW N \in Nat, NEW S \in SUBSET (1 .. N)
  PROVE  Lists(InOrder(S), S)
<1> DEFINE T == {n \in 0 .. N : \A K \in SUBSET (1 .. n) : \E s : Lists(s, K)}
<1>1. 0 \in T
  <2>1. ASSUME NEW K \in SUBSET (1 .. 0) PROVE \E s : Lists(s, K)
    <3> DEFINE s == [i \in 1 .. 0 |-> 1]
    <3>0. K = {} BY <2>1
    <3>1. K = {} /\ Cardinality(K) = 0 BY <3>0, FS_EmptySet
    <3>2. Lists(s, K) BY <3>1 DEF Lists, Ascends
    <3> QED BY <3>2
  <2> QED BY <2>1
<1>2. ASSUME NEW n \in T, n \in 0 .. N - 1 PROVE n + 1 \in T
  <2>1. ASSUME NEW K \in SUBSET (1 .. n + 1) PROVE \E s : Lists(s, K)
    <3> DEFINE rest == K \ {n + 1}
    <3>1. rest \in SUBSET (1 .. n) BY <1>2
    <3>2. PICK s : Lists(s, rest) BY <3>1
    <3>3. CASE n + 1 \notin K BY <3>2, <3>3, rest = K
    <3>4. CASE n + 1 \in K
      <4> DEFINE c == Cardinality(rest)
                 t == [i \in 1 .. c + 1 |-> IF i = c + 1 THEN n + 1 ELSE s[i]]
      <4>1. c \in Nat /\ s \in [1 .. c -> rest] BY <3>2 DEF Lists
      <4>2. Cardinality(K) = c + 1
        <5>1. IsFiniteSet(1 .. n) BY FS_Interval
        <5>2. IsFiniteSet(rest) BY <3>1, <5>1, FS_Subset
        <5>3. K = rest \cup {n + 1} /\ n + 1 \notin rest BY <3>4
        <5> HIDE DEF rest
        <5> QED BY <5>2, <5>3, FS_AddElement DEF c
      <4>3. \A i \in 1 .. c : t[i] = s[i] BY <4>1
      <4>4. t[c + 1] = n + 1 BY <4>1
      <4>5. t \in [1 .. c + 1 -> K]
        <5>1. ASSUME NEW i \in 1 .. c + 1 PROVE t[i] \in K
          <6>1. CASE i = c + 1 BY <6>1, <3>4
          <6>2. CASE i # c + 1
            <7>1. i \in 1 .. c BY <6>2, <4>1
            <7>2. s[i] \in rest BY <7>1, <4>1
            <7> QED BY <7>2, <6>2
          <6> QED BY <6>1, <6>2
        <5>2. t = [i \in 1 .. c + 1 |-> t[i]] OBVIOUS
        <5> HIDE DEF t
        <5> QED BY <5>1, <5>2
      <4>6. \A i \in 1 .. c : s[i] \in 1 .. n BY <4>1, <3>1
      <4>7. Ascends(t)
        <5>1. DOMAIN t = 1 .. c + 1 OBVIOUS
        <5>2. \A i, j \in 1 .. c : i < j => s[i] < s[j] BY <3>2, <4>1 DEF Lists, Ascends
        <5>3. ASSUME NEW i \in 1 .. c + 1, NEW j \in 1 .. c + 1, i < j PROVE t[i] < t[j]
          <6>1. i \in 1 .. c BY <5>3, <4>1
          <6>2. CASE j = c + 1
            <7>1. t[i] = s[i] /\ t[j] = n + 1 /\ s[i] \in 1 .. n BY <6>1, <6>2, <4>3, <4>4, <4>6
            <7> HIDE DEF t
            <7> QED BY <7>1
          <6>3. CASE j # c + 1
            <7>1. j \in 1 .. c BY <6>3, <4>1
            <7> QED BY <6>1, <7>1, <4>3, <5>2, <5>3
          <6> QED BY <6>2, <6>3
        <5> HIDE DEF t
        <5> QED BY <5>1, <5>3 DEF Ascends
      <4>8. ASSUME NEW x \in K PROVE \E i \in DOMAIN t : t[i] = x
        <5>1. DOMAIN t = 1 .. c + 1 OBVIOUS
        <5>2. CASE x = n + 1 BY <5>1, <5>2, <4>4, <4>1
        <5>3. CASE x # n + 1
          <6>1. PICK i \in 1 .. c : s[i] = x BY <5>3, <3>2, <4>1 DEF Lists
          <6> QED BY <6>1, <5>1, <4>3, <4>1
        <5> QED BY <5>2, <5>3
      <4> HIDE DEF t, c
      <4>9. Lists(t, K) BY <4>1, <4>2, <4>5, <4>7, <4>8 DEF Lists
      <4> QED BY <4>9
    <3> QED BY <3>3, <3>4
  <2>2. n + 1 \in 0 .. N BY <1>2
  <2> QED BY <2>1, <2>2
<1>3. N \in T
  <2> HIDE DEF T
  <2>1. 0 .. N \subseteq T BY <1>1, <1>2, Upward
  <2> QED BY <2>1
<1>4. PICK s : Lists(s, S) BY <1>3
<1>5. Cardinality(S) \in Nat BY <1>4 DEF Lists
<1> DEFINE Ordered(t) == /\ \A i, j \in DOMAIN t : i < j => t[i] < t[j]
                         /\ \A x \in S : \E i \in DOMAIN t : t[i] = x
<1>6. s \in [1 .. Cardinality(S) -> S] /\ Ordered(s) BY <1>4 DEF Lists, Ascends
<1>7. InOrder(S) = CHOOSE t \in [1 .. Cardinality(S) -> S] : Ordered(t) BY DEF InOrder
<1> HIDE DEF Ordered
<1>8. InOrder(S) \in [1 .. Cardinality(S) -> S] /\ Ordered(InOrder(S)) BY <1>6, <1>7
<1> QED BY <1>5, <1>8 DEF Ordered, Lists, Ascends

(* An interval is listed from end to end. *)
LEMMA OrderOfInterval ==
  ASSUME NEW a \in Nat \ {0}, NEW b \in Nat, a <= b + 1
  PROVE  InOrder(a .. b) = [i \in 1 .. b - a + 1 |-> a + i - 1]
<1> DEFINE s == InOrder(a .. b)
           n == b - a + 1
<1>1. a .. b \in SUBSET (1 .. b) OBVIOUS
<1>2. n \in Nat /\ Cardinality(a .. b) = n
  <2>1. Cardinality(a .. b) = IF a > b THEN 0 ELSE b - a + 1 BY FS_Interval
  <2> QED BY <2>1
<1>3. s \in [1 .. n -> a .. b] /\ \A i, j \in 1 .. n : i < j => s[i] < s[j]
  BY <1>1, <1>2, OrderExists DEF Lists, Ascends
<1> HIDE DEF s, n
<1>4. \A i \in 1 .. n : s[i] >= a + i - 1
  <2> DEFINE T == {i \in 0 .. n : i # 0 => s[i] >= a + i - 1}
  <2>1. 0 \in T BY <1>2
  <2>2. ASSUME NEW i \in T, i \in 0 .. n - 1 PROVE i + 1 \in T
    <3>1. i + 1 \in 1 .. n BY <1>2, <2>2
    <3>2. CASE i = 0 BY <3>1, <3>2, <1>3
    <3>3. CASE i # 0
      <4>1. i \in 1 .. n /\ s[i] >= a + i - 1 BY <3>3, <1>2, <2>2
      <4>2. s[i] < s[i + 1] /\ s[i] \in Nat /\ s[i + 1] \in Nat BY <4>1, <3>1, <1>3
      <4> QED BY <4>1, <4>2, <3>1
    <3> QED BY <3>2, <3>3
  <2> HIDE DEF T
  <2>3. 0 .. n \subseteq T BY <1>2, <2>1, <2>2, Upward
  <2> QED BY <2>3, <1>2 DEF T
<1>5. \A i \in 1 .. n : s[i] <= a + i - 1
  <2> DEFINE T == {k \in 0 .. n : k # n => s[n - k] <= b - k}
  <2>1. 0 \in T
    <3>1. n # 0 => n \in 1 .. n BY <1>2
    <3>2. n # 0 => s[n] <= b BY <3>1, <1>3
    <3> QED BY <3>2, <1>2
  <2>2. ASSUME NEW k \in T, k \in 0 .. n - 1 PROVE k + 1 \in T
    <3>1. k + 1 \in 0 .. n BY <1>2, <2>2
    <3>2. CASE k + 1 = n BY <3>1, <3>2
    <3>3. CASE k + 1 # n
      <4>1. n - k \in 1 .. n /\ n - (k + 1) \in 1 .. n /\ n - (k + 1) < n - k
        BY <3>3, <1>2, <2>2
      <4>2. s[n - (k + 1)] < s[n - k] /\ s[n - k] <= b - k BY <4>1, <1>3, <2>2
      <4>3. s[n - k] \in Nat /\ s[n - (k + 1)] \in Nat BY <4>1, <1>3
      <4> QED BY <3>1, <4>2, <4>3
    <3> QED BY <3>2, <3>3
  <2> HIDE DEF T
  <2>3. 0 .. n \subseteq T BY <1>2, <2>1, <2>2, Upward
  <2> TAKE i \in 1 .. n
  <2>4. n - i \in 0 .. n /\ n - i # n /\ n - (n - i) = i BY <1>2
  <2>5. s[i] <= b - (n - i) BY <2>3, <2>4 DEF T
  <2>6. b - (n - i) = a + i - 1 BY DEF n
  <2> QED BY <2>5, <2>6
<1>6. \A i \in 1 .. n : s[i] = a + i - 1 BY <1>3, <1>4, <1>5
<1> QED BY <1>3, <1>6 DEF s, n

(* The numbers after a up to b, one after the other.                             *)
Counts(s, a, b) == s \in Seq(Nat) /\ Len(s) = b - a /\ \A i \in 1 .. b - a : s[i] = a + i

LEMMA UptoThen ==
  ASSUME NEW a \in Nat, NEW b \in Nat, a <= b, NEW u, NEW w, Counts(u, 0, a), Counts(w, a, b)
  PROVE  Counts(u \o w, 0, b)
<1> USE DEF Counts
<1>0. /\ u \in Seq(Nat) /\ Len(u) = a /\ \A q \in 1 .. a : u[q] = q
      /\ w \in Seq(Nat) /\ Len(w) = b - a /\ \A i \in 1 .. b - a : w[i] = a + i
  <2>1. \A q \in 1 .. a : u[q] = 0 + q /\ a - 0 = a /\ 0 + q = q OBVIOUS
  <2> QED BY <2>1
<1>1. Len(u \o w) = b /\ u \o w \in Seq(Nat)
  <2>1. u \o w \in Seq(Nat) /\ Len(u \o w) = Len(u) + Len(w) BY <1>0, ConcatProperties
  <2> QED BY <2>1, <1>0
<1>2. ASSUME NEW q \in 1 .. b PROVE (u \o w)[q] = q
  <2>1. CASE q <= a
    <3>1. q \in 1 .. a /\ q \in 1 .. Len(u) + Len(w) /\ q <= Len(u) BY <2>1, <1>0
    <3>2. (u \o w)[q] = u[q] BY <3>1, <1>0, ConcatProperties
    <3> QED BY <3>1, <3>2, <1>0
  <2>2. CASE ~(q <= a)
    <3>1. q - a \in 1 .. b - a /\ q \in 1 .. Len(u) + Len(w) /\ ~(q <= Len(u)) BY <2>2, <1>0
    <3>2. (u \o w)[q] = w[q - Len(u)] BY <3>1, <1>0, ConcatProperties
    <3>3. w[q - a] = a + (q - a) BY <3>1, <1>0
    <3> QED BY <3>2, <3>3, <1>0
  <2> QED BY <2>1, <2>2
<1> QED BY <1>1, <1>2

(* Counted from the first, the numbers are in their places. *)
LEMMA CountsFromOne ==
  ASSUME NEW b \in Nat, NEW s, Counts(s, 0, b)
  PROVE  s = [q \in 1 .. b |-> q]
<1> DEFINE all == [q \in 1 .. b |-> q]
<1>1. all \in Seq(Nat) /\ Len(all) = b /\ \A q \in 1 .. b : all[q] = q OBVIOUS
<1>2. s \in Seq(Nat) /\ Len(s) = b /\ \A q \in 1 .. b : s[q] = q
  <2>1. \A q \in 1 .. b : s[q] = 0 + q /\ 0 + q = q BY DEF Counts
  <2>2. b - 0 = b OBVIOUS
  <2> QED BY <2>1, <2>2 DEF Counts
<1> HIDE DEF all
<1>3. s = all BY <1>1, <1>2, SeqEqual
<1> QED BY <1>3 DEF all

(* Pieces of the numbers up to some, one after the other. *)
Cut(n, end, t) ==
    /\ end \in [0 .. n -> Nat] /\ end[0] = 0 /\ t \in [1 .. n -> Seq(Nat)]
    /\ \A k \in 1 .. n : end[k - 1] <= end[k] /\ Counts(t[k], end[k - 1], end[k])

LEMMA FlattenedPieces ==
  ASSUME NEW n \in Nat, NEW end, NEW t, Cut(n, end, t)
  PROVE  FlattenSeq(t) = [q \in 1 .. end[n] |-> q]
<1> USE DEF Cut
<1> DEFINE Upto(m) == [q \in 1 .. m |-> q]
           Def(f) == f = [k \in 1 .. n |-> IF k = 1 THEN t[k] ELSE f[k - 1] \o t[k]]
           whole == [k \in 1 .. n |-> Upto(end[k])]
<1>1. t \in Seq(Seq(Nat)) /\ Len(t) = n OBVIOUS
<1>2. CASE n = 0
  <2>1. FlattenSeq(t) = t BY <1>1, <1>2 DEF FlattenSeq
  <2>2. t = <<>> /\ Upto(end[n]) = <<>> BY <1>1, <1>2
  <2> QED BY <2>1, <2>2
<1>3. CASE n # 0
  <2>1. 1 \in 1 .. n /\ n \in 1 .. n BY <1>3
  <2>2. t[1] = Upto(end[1])
    <3>1. end[1] \in Nat /\ Counts(t[1], 0, end[1]) BY <2>1
    <3> QED BY <3>1, CountsFromOne
  <2>3. ASSUME NEW k \in 2 .. n PROVE Upto(end[k - 1]) \o t[k] = Upto(end[k])
    <3> DEFINE a == end[k - 1]
               b == end[k]
    <3>1. k \in 1 .. n /\ k - 1 \in 0 .. n /\ k \in 0 .. n OBVIOUS
    <3>2. a \in Nat /\ b \in Nat /\ a <= b BY <3>1
    <3> HIDE DEF a, b
    <3> DEFINE u == Upto(a)
               w == t[k]
               c == u \o w
    <3>3. Counts(u, 0, a) BY <3>2 DEF Counts
    <3>4. Counts(w, a, b) BY <3>1 DEF a, b
    <3> HIDE DEF Upto, u, w
    <3>5. Counts(c, 0, b) BY <3>2, <3>3, <3>4, UptoThen
    <3>6. c = Upto(b) BY <3>2, <3>5, CountsFromOne DEF Upto
    <3> QED BY <3>6 DEF a, b, c, u, w
  <2>4. Def(whole)
    <3>1. ASSUME NEW k \in 1 .. n
          PROVE  whole[k] = IF k = 1 THEN t[k] ELSE whole[k - 1] \o t[k]
      <4>1. CASE k = 1 BY <4>1, <2>2
      <4>2. CASE k # 1
        <5>1. k \in 2 .. n /\ k - 1 \in 1 .. n BY <4>2
        <5>2. whole[k] = Upto(end[k]) /\ whole[k - 1] = Upto(end[k - 1]) BY <5>1
        <5> HIDE DEF Upto, whole
        <5> QED BY <5>1, <5>2, <4>2, <2>3
      <4> QED BY <4>1, <4>2
    <3>2. whole = [k \in 1 .. n |-> whole[k]] OBVIOUS
    <3> HIDE DEF whole
    <3> QED BY <3>1, <3>2
  <2> DEFINE flatten == CHOOSE f : Def(f)
  <2>5. Def(flatten)
    <3> HIDE DEF Def
    <3> QED BY <2>4
  <2>6. FlattenSeq(t) = flatten[n] BY <1>1, <1>3 DEF FlattenSeq
  <2> HIDE DEF flatten
  <2>7. \A k \in 1 .. n : flatten[k] = IF k = 1 THEN t[k] ELSE flatten[k - 1] \o t[k] BY <2>5
  <2>8. flatten[n] = Upto(end[n])
    <3> DEFINE T == {k \in 0 .. n : k # 0 => flatten[k] = Upto(end[k])}
    <3> HIDE DEF Upto
    <3>1. 0 \in T OBVIOUS
    <3>2. ASSUME NEW k \in T, k \in 0 .. n - 1 PROVE k + 1 \in T
      <4>1. k + 1 \in 1 .. n /\ (k + 1) - 1 = k BY <3>2
      <4>2. CASE k = 0 BY <4>1, <4>2, <2>2, <2>7
      <4>3. CASE k # 0
        <5>1. k + 1 \in 2 .. n /\ k + 1 # 1 BY <4>3, <3>2
        <5>2. flatten[k + 1] = flatten[k] \o t[k + 1] BY <4>1, <5>1, <2>7
        <5>3. flatten[k] = Upto(end[k]) BY <4>3
        <5>4. Upto(end[k]) \o t[k + 1] = Upto(end[k + 1]) BY <4>1, <5>1, <2>3
        <5> QED BY <4>1, <5>2, <5>3, <5>4
      <4> QED BY <4>2, <4>3
    <3> HIDE DEF T
    <3>3. 0 .. n \subseteq T BY <3>1, <3>2, Upward
    <3> QED BY <3>3, <2>1, n \in 0 .. n, n # 0 DEF T
  <2> QED BY <2>6, <2>8
<1> QED BY <1>2, <1>3

(* One piece, flattened, is that piece. *)
LEMMA FlattenedOne ==
  ASSUME NEW n \in Nat, n = 1, NEW s \in Seq(Nat), NEW t \in [1 .. n -> Seq(Nat)], t[1] = s
  PROVE  FlattenSeq(t) = s
<1> DEFINE Def(f) == f = [k \in 1 .. n |-> IF k = 1 THEN t[k] ELSE f[k - 1] \o t[k]]
           flatten == CHOOSE f : Def(f)
<1>1. t \in Seq(Seq(Nat)) /\ Len(t) = n
  <2>1. t = [k \in 1 .. n |-> t[k]] /\ \A k \in 1 .. n : t[k] \in Seq(Nat) OBVIOUS
  <2>2. t \in Seq(Seq(Nat)) BY <2>1, IsASeq
  <2>3. DOMAIN t = 1 .. n /\ DOMAIN t = 1 .. Len(t) /\ Len(t) \in Nat BY <2>2, LenProperties
  <2> QED BY <2>2, <2>3
<1>2. Def([k \in 1 .. n |-> s])
  <2> DEFINE g == [k \in 1 .. n |-> s]
  <2>1. \A k \in 1 .. n : g[k] = IF k = 1 THEN t[k] ELSE g[k - 1] \o t[k] OBVIOUS
  <2>2. g = [k \in 1 .. n |-> g[k]] OBVIOUS
  <2> HIDE DEF g
  <2>3. Def(g) BY <2>1, <2>2
  <2> QED BY <2>3 DEF g
<1>3. Def(flatten)
  <2> HIDE DEF Def
  <2> QED BY <1>2
<1>4. FlattenSeq(t) = flatten[n] BY <1>1 DEF FlattenSeq
<1> HIDE DEF flatten
<1>5. flatten[n] = s BY <1>3
<1> QED BY <1>4, <1>5

(* The first questions of the batches, in order, cut the questions into the batches. *)
Starts == {First[q] : q \in DOMAIN Sizes}
EndOf(k) == IF k = Cardinality(Starts) THEN Len(Sizes) ELSE InOrder(Starts)[k + 1] - 1

LEMMA StartsListed ==
    /\ Lists(InOrder(Starts), Starts) /\ Cardinality(Starts) \in Nat
    /\ Starts \subseteq 1 .. Len(Sizes) /\ DOMAIN Sizes = 1 .. Len(Sizes) /\ Len(Sizes) \in Nat
    /\ \A b \in Starts : First[b] = b
<1> DEFINE N == Len(Sizes)
<1>1. N \in Nat /\ DOMAIN Sizes = 1 .. N BY AdapterAssumption
<1>2. \A q \in 1 .. N : First[q] \in 1 .. q /\ First[First[q]] = First[q]
  BY Firsts, BatchesAscend
<1>3. Starts \subseteq 1 .. N
  <2>1. \A q \in 1 .. N : First[q] \in 1 .. N BY <1>1, <1>2
  <2> QED BY <1>1, <2>1 DEF Starts
<1>4. \A b \in Starts : First[b] = b BY <1>1, <1>2 DEF Starts
<1>5. Lists(InOrder(Starts), Starts) BY <1>1, <1>3, OrderExists
<1>6. Cardinality(Starts) \in Nat BY <1>5 DEF Lists
<1> QED BY <1>1, <1>3, <1>4, <1>5, <1>6

LEMMA BatchesCut ==
    /\ \A k \in 0 .. Cardinality(Starts) : EndOf(k) \in Nat
    /\ EndOf(0) = 0 /\ EndOf(Cardinality(Starts)) = Len(Sizes)
    /\ \A k \in 1 .. Cardinality(Starts) :
           /\ EndOf(k - 1) <= EndOf(k) /\ InOrder(Starts)[k] \in Starts
           /\ {q \in DOMAIN Sizes : First[q] = InOrder(Starts)[k]} = EndOf(k - 1) + 1 .. EndOf(k)
<1> DEFINE N == Len(Sizes)
           n == Cardinality(Starts)
           order == InOrder(Starts)
<1>1. /\ N \in Nat /\ n \in Nat /\ Starts \subseteq 1 .. N /\ DOMAIN Sizes = 1 .. N
      /\ \A b \in Starts : First[b] = b
  BY StartsListed
<1>2. order \in [1 .. n -> Starts] /\ \A i, j \in 1 .. n : i < j => order[i] < order[j]
  BY StartsListed DEF Lists, Ascends
<1>3. \A b \in Starts : \E i \in 1 .. n : order[i] = b BY StartsListed DEF Lists
<1>4. \A q \in 1 .. N : First[q] \in Starts /\ First[q] \in 1 .. q
  BY <1>1, Firsts DEF Starts
<1>5. \A p, q \in 1 .. N : p <= q => First[p] <= First[q] BY BatchesAscend
<1>6. EndOf(n) = N BY DEF EndOf
<1>7. \A k \in 0 .. n : k # n => EndOf(k) = order[k + 1] - 1 BY DEF EndOf
<1> HIDE DEF N, n, order
<1>8. \A k \in 1 .. n : order[k] \in 1 .. N /\ order[k] \in Starts BY <1>1, <1>2
<1>9. \A k \in 0 .. n : EndOf(k) \in Nat
  <2> TAKE k \in 0 .. n
  <2>1. CASE k = n BY <2>1, <1>1, <1>6
  <2>2. CASE k # n
    <3>1. k + 1 \in 1 .. n BY <2>2, <1>1
    <3> QED BY <2>2, <3>1, <1>7, <1>8
  <2> QED BY <2>1, <2>2
<1>10. EndOf(0) = 0
  <2>1. CASE n = 0
    <3>1. Starts = {} BY <2>1, <1>3
    <3>2. N = 0 BY <3>1, <1>1, <1>4
    <3> QED BY <2>1, <3>2, <1>6
  <2>2. CASE n # 0
    <3>1. 1 \in 1 .. n /\ 0 \in 0 .. n BY <2>2, <1>1
    <3>2. order[1] \in 1 .. N BY <3>1, <1>8
    <3>3. 1 \in 1 .. N BY <3>2, <1>1
    <3>4. 1 \in Starts BY <3>3, <1>4
    <3>5. PICK i \in 1 .. n : order[i] = 1 BY <3>4, <1>3
    <3>6. order[1] = 1
      <4>1. CASE i = 1 BY <4>1, <3>5
      <4>2. CASE i # 1 BY <4>2, <3>1, <3>2, <3>5, <1>2
      <4> QED BY <4>1, <4>2
    <3> QED BY <3>1, <3>6, <2>2, <1>7
  <2> QED BY <2>1, <2>2
<1>11. ASSUME NEW k \in 1 .. n
       PROVE  /\ EndOf(k - 1) = order[k] - 1 /\ EndOf(k - 1) <= EndOf(k)
              /\ \A q \in 1 .. N : First[q] = order[k] <=> q \in order[k] .. EndOf(k)
  <2>1. k - 1 \in 0 .. n /\ k - 1 # n /\ (k - 1) + 1 = k /\ k \in 0 .. n BY <1>1
  <2>2. EndOf(k - 1) = order[k] - 1 BY <2>1, <1>7
  <2>3. order[k] \in 1 .. N /\ order[k] \in Starts BY <1>8
  <2>4. First[order[k]] = order[k] BY <2>3, <1>1
  <2>5. CASE k = n
    <3>1. EndOf(k) = N BY <2>5, <1>6
    <3>2. ASSUME NEW q \in 1 .. N, q >= order[k] PROVE First[q] = order[k]
      <4>1. First[q] >= order[k] /\ First[q] \in Starts /\ First[q] \in 1 .. N
        BY <3>2, <2>3, <2>4, <1>1, <1>4, <1>5
      <4>2. PICK j \in 1 .. n : order[j] = First[q] BY <4>1, <1>3
      <4>3. CASE j = k BY <4>2, <4>3
      <4>4. CASE j # k
        <5>1. order[j] < order[k] BY <4>4, <2>5, <1>1, <1>2
        <5> QED BY <5>1, <4>1, <4>2, <2>3
      <4> QED BY <4>3, <4>4
    <3>3. ASSUME NEW q \in 1 .. N, First[q] = order[k] PROVE q >= order[k]
      BY <3>3, <1>4
    <3>4. EndOf(k - 1) <= EndOf(k) BY <3>1, <2>2, <2>3, <1>1
    <3>5. ASSUME NEW q \in 1 .. N PROVE q \in order[k] .. EndOf(k) <=> q >= order[k]
      BY <3>1, <2>3, <1>1
    <3> QED BY <3>2, <3>3, <3>4, <3>5, <2>2
  <2>6. CASE k # n
    <3>1. k + 1 \in 1 .. n BY <2>6, <1>1
    <3>2. EndOf(k) = order[k + 1] - 1 BY <2>1, <2>6, <1>7
    <3>3. order[k + 1] \in 1 .. N /\ order[k] < order[k + 1] /\ First[order[k + 1]] = order[k + 1]
      BY <3>1, <1>1, <1>2, <1>8
    <3>4. ASSUME NEW q \in 1 .. N, q >= order[k], q < order[k + 1] PROVE First[q] = order[k]
      <4>1. First[q] >= order[k] /\ First[q] \in Starts /\ First[q] \in 1 .. q
        BY <3>4, <2>3, <2>4, <1>4, <1>5
      <4>2. PICK j \in 1 .. n : order[j] = First[q] BY <4>1, <1>3
      <4>3. CASE j = k BY <4>2, <4>3
      <4>4. CASE j < k
        <5>1. order[j] < order[k] BY <4>4, <1>2
        <5> QED BY <5>1, <4>1, <4>2, <2>3
      <4>5. CASE j = k + 1 BY <4>1, <4>2, <4>5, <3>3, <3>4
      <4>6. CASE j > k + 1
        <5>1. order[k + 1] < order[j] BY <4>6, <3>1, <1>2
        <5> QED BY <5>1, <4>1, <4>2, <3>3, <3>4
      <4> QED BY <4>3, <4>4, <4>5, <4>6
    <3>5. ASSUME NEW q \in 1 .. N, First[q] = order[k] PROVE q >= order[k] /\ q < order[k + 1]
      <4>1. q >= order[k] BY <3>5, <1>4
      <4>2. CASE q >= order[k + 1]
        <5>1. First[order[k + 1]] <= First[q] BY <4>2, <3>3, <1>5
        <5> QED BY <5>1, <3>3, <3>5, <2>3
      <4> QED BY <4>1, <4>2, <3>3
    <3> QED BY <3>2, <3>3, <3>4, <3>5, <2>2, <2>3
  <2> QED BY <2>5, <2>6
<1>12. ASSUME NEW k \in 1 .. n
       PROVE  {q \in DOMAIN Sizes : First[q] = order[k]} = EndOf(k - 1) + 1 .. EndOf(k)
  <2>1. k \in 0 .. n /\ EndOf(k) \in Nat /\ order[k] \in 1 .. N BY <1>8, <1>9
  <2>2. EndOf(k) <= N
    <3>1. CASE k = n BY <3>1, <1>6, <1>1
    <3>2. CASE k # n
      <4>1. k + 1 \in 1 .. n BY <3>2, <1>1
      <4>2. EndOf(k) = order[k + 1] - 1 BY <2>1, <3>2, <1>7
      <4>3. order[k + 1] \in 1 .. N BY <4>1, <1>8
      <4> QED BY <4>2, <4>3, <1>1
    <3> QED BY <3>1, <3>2
  <2> QED BY <2>1, <2>2, <1>1, <1>11
<1> QED BY <1>6, <1>8, <1>9, <1>10, <1>11, <1>12 DEF N, n, order

(* While questions are asked, a batch is open or answered, and an answer has the    *)
(* questions of its batch in order, all of them unless it is a classification.     *)
Joined(b, s) ==
    \E given \in SUBSET Batches[b] : s = InOrder(given) /\ (phase = "classify" \/ given = Batches[b])

Ranked == IF joined[1][1] = "classify" THEN Ascends(joined[1][2])
          ELSE joined[1][2] = [q \in DOMAIN Sizes |-> q]

AskedInv ==
    /\ phase \in {"idle", "native", "json", "done", "relevance", "decide", "classify", "scored"}
    /\ phase = "idle" => joined = <<>>
    /\ Asking => /\ joined \in Seq((DOMAIN Batches) \X Seq(Nat)) /\ open \subseteq DOMAIN Batches
                 /\ \A b \in DOMAIN Batches \ open : \E i \in DOMAIN joined : joined[i][1] = b
                 /\ \A i \in DOMAIN joined : Joined(joined[i][1], joined[i][2])
    /\ phase = "scored" => Ranked

(* A batch is within the limit as far as each question that is not its first. *)
LEMMA BatchesWithinLimit ==
  \A b \in DOMAIN RecallBatches : \A q \in RecallBatches[b] \ {b} : Total(b, q) <= BatchLimit
<1> DEFINE N == Len(Sizes)
<1>1. N \in Nat /\ DOMAIN Sizes = 1 .. N BY AdapterAssumption
<1> TAKE b \in DOMAIN RecallBatches
<1> TAKE q \in RecallBatches[b] \ {b}
<1>2. q \in 1 .. N /\ First[q] = b /\ q # b BY <1>1 DEF RecallBatches
<1>3. First[q] \in 1 .. q /\ (First[q] < q => Total(First[q], q) <= BatchLimit) BY <1>2, Firsts
<1>4. First[q] < q BY <1>2, <1>3
<1> QED BY <1>2, <1>3, <1>4

LEMMA ScoresBelongIs == ScoresBelong <=> (phase = "scored" => Ranked)
BY BatchesWithinLimit DEF ScoresBelong, Ranked, Ascends

(* A batch is a set of questions. *)
LEMMA BatchesAre ==
    /\ \A b \in DOMAIN Batches : Batches[b] \in SUBSET (1 .. Len(Sizes))
    /\ phase = "relevance" => DOMAIN Batches = Starts /\ \A b \in Starts :
           Batches[b] = {q \in DOMAIN Sizes : First[q] = b}
    /\ phase # "relevance" => DOMAIN Batches = {1} /\ Batches[1] = DOMAIN Sizes
<1>1. DOMAIN Sizes = 1 .. Len(Sizes) BY AdapterAssumption
<1>2. CASE phase = "relevance" BY <1>1, <1>2 DEF Batches, RecallBatches, Starts
<1>3. CASE phase # "relevance" BY <1>1, <1>3 DEF Batches
<1> QED BY <1>2, <1>3

LEMMA OrderIsSeq ==
  ASSUME NEW S \in SUBSET (1 .. Len(Sizes))
  PROVE  InOrder(S) \in Seq(Nat) /\ Ascends(InOrder(S))
<1>1. Len(Sizes) \in Nat BY AdapterAssumption
<1>2. Lists(InOrder(S), S) BY <1>1, OrderExists
<1>3. InOrder(S) \in [1 .. Cardinality(S) -> Nat] /\ Cardinality(S) \in Nat
  <2>1. InOrder(S) \in [1 .. Cardinality(S) -> S] /\ Cardinality(S) \in Nat BY <1>2 DEF Lists
  <2>2. S \subseteq Nat BY <1>1
  <2> HIDE DEF InOrder
  <2> QED BY <2>1, <2>2
<1> QED BY <1>2, <1>3 DEF Lists

(* A pair of two sets has one of each. *)
LEMMA Halves == \A A, B, p : p \in A \X B => p[1] \in A /\ p[2] \in B
OBVIOUS

(* The answers of all batches, in the order of the batches, are the scores. *)
LEMMA ScoresAreRanked ==
  ASSUME AskedInv, Asking, open = {}
  PROVE  IF phase = "classify" THEN Ascends(Scores) ELSE Scores = [q \in DOMAIN Sizes |-> q]
<1> DEFINE N == Len(Sizes)
           Keys == {joined[i][1] : i \in DOMAIN joined}
           order == InOrder(Keys)
           t == [k \in DOMAIN order |-> AnswersTo(order[k])]
<1>1. N \in Nat /\ DOMAIN Sizes = 1 .. N BY AdapterAssumption
<1>2. joined \in Seq((DOMAIN Batches) \X Seq(Nat)) /\ DOMAIN joined = 1 .. Len(joined)
  BY DEF AskedInv
<1>3. Keys = DOMAIN Batches
  <2>1. \A i \in DOMAIN joined : joined[i] \in (DOMAIN Batches) \X Seq(Nat) BY <1>2
  <2>2. Keys \subseteq DOMAIN Batches BY <2>1, Halves
  <2>3. DOMAIN Batches \subseteq Keys BY DEF AskedInv
  <2> QED BY <2>2, <2>3
<1>4. Scores = FlattenSeq(t) BY DEF Scores
<1>5. ASSUME NEW b \in DOMAIN Batches PROVE Joined(b, AnswersTo(b)) /\ AnswersTo(b) \in Seq(Nat)
  <2> DEFINE Of(i) == i \in DOMAIN joined /\ joined[i][1] = b
             j == CHOOSE i \in DOMAIN joined : joined[i][1] = b
  <2>1. \E i \in DOMAIN joined : joined[i][1] = b BY DEF AskedInv
  <2>2. j \in DOMAIN joined /\ joined[j][1] = b BY <2>1
  <2>3. AnswersTo(b) = joined[j][2] BY DEF AnswersTo
  <2> HIDE DEF j
  <2>4. joined[j] \in (DOMAIN Batches) \X Seq(Nat) BY <2>2, <1>2
  <2>5. joined[j][2] \in Seq(Nat) BY <2>4, Halves
  <2>6. Joined(joined[j][1], joined[j][2]) BY <2>2 DEF AskedInv
  <2> QED BY <2>2, <2>3, <2>5, <2>6
<1> HIDE DEF Keys
<1>6. CASE phase = "relevance"
  <2> DEFINE n == Cardinality(Starts)
             end == [k \in 0 .. n |-> EndOf(k)]
  <2>1. Keys = Starts /\ DOMAIN Batches = Starts BY <1>3, <1>6, BatchesAre
  <2>2. order \in [1 .. n -> Starts] /\ n \in Nat BY <2>1, StartsListed DEF Lists
  <2>3. t = [k \in 1 .. n |-> AnswersTo(order[k])] BY <2>2
  <2>4. ASSUME NEW k \in 1 .. n
        PROVE  /\ AnswersTo(order[k]) \in Seq(Nat) /\ EndOf(k - 1) <= EndOf(k)
               /\ Counts(AnswersTo(order[k]), EndOf(k - 1), EndOf(k))
    <3> DEFINE a == EndOf(k - 1)
               b == EndOf(k)
    <3>1. order[k] \in Starts BY <2>2
    <3>2. Joined(order[k], AnswersTo(order[k])) /\ AnswersTo(order[k]) \in Seq(Nat)
      BY <3>1, <2>1, <1>5
    <3>3. AnswersTo(order[k]) = InOrder(Batches[order[k]]) BY <3>2, <1>6 DEF Joined
    <3>4. Batches[order[k]] = a + 1 .. b
      <4>1. Batches[order[k]] = {q \in DOMAIN Sizes : First[q] = order[k]}
        BY <3>1, <1>6, BatchesAre
      <4> QED BY <4>1, <2>1, BatchesCut
    <3>5. a \in Nat /\ b \in Nat /\ a <= b
      <4>1. k \in 0 .. n /\ k - 1 \in 0 .. n BY <2>2
      <4> QED BY <4>1, BatchesCut
    <3> HIDE DEF a, b
    <3>6. InOrder(a + 1 .. b) = [i \in 1 .. b - (a + 1) + 1 |-> (a + 1) + i - 1]
      BY <3>5, OrderOfInterval
    <3>7. b - (a + 1) + 1 = b - a /\ \A i \in 1 .. b - a : (a + 1) + i - 1 = a + i BY <3>5
    <3>8. InOrder(a + 1 .. b) = [i \in 1 .. b - a |-> a + i] BY <3>6, <3>7
    <3>9. Counts(InOrder(a + 1 .. b), a, b) BY <3>5, <3>8 DEF Counts
    <3>10. AnswersTo(order[k]) = InOrder(a + 1 .. b) BY <3>3, <3>4
    <3>11. Counts(AnswersTo(order[k]), a, b) BY <3>9, <3>10
    <3> QED BY <3>2, <3>5, <3>11 DEF a, b
  <2> HIDE DEF order
  <2>5. Cut(n, end, t)
    <3>1. end \in [0 .. n -> Nat] /\ end[0] = 0 BY <2>2, BatchesCut
    <3>2. t \in [1 .. n -> Seq(Nat)] /\ \A k \in 1 .. n : t[k] = AnswersTo(order[k]) BY <2>3, <2>4
    <3>3. \A k \in 1 .. n : end[k] = EndOf(k) /\ end[k - 1] = EndOf(k - 1) BY <2>2
    <3> HIDE DEF end, n, t
    <3> QED BY <3>1, <3>2, <3>3, <2>4 DEF Cut
  <2>6. end[n] = N BY <2>2, BatchesCut
  <2> HIDE DEF end, n, t
  <2>7. FlattenSeq(t) = [q \in 1 .. end[n] |-> q] BY <2>2, <2>5, FlattenedPieces
  <2> QED BY <2>6, <2>7, <1>1, <1>4, <1>6
<1>7. CASE phase # "relevance"
  <2>1. Keys = {1} /\ DOMAIN Batches = {1} /\ Batches[1] = 1 .. N BY <1>1, <1>3, <1>7, BatchesAre
  <2>2. order = [i \in 1 .. 1 |-> 1]
    <3>1. Keys = 1 .. 1 BY <2>1
    <3>2. InOrder(1 .. 1) = [i \in 1 .. 1 - 1 + 1 |-> 1 + i - 1] BY OrderOfInterval
    <3> QED BY <3>1, <3>2
  <2>3. Joined(1, AnswersTo(1)) /\ AnswersTo(1) \in Seq(Nat) BY <2>1, <1>5
  <2>4. t \in [1 .. 1 -> Seq(Nat)] /\ t[1] = AnswersTo(1) BY <2>2, <2>3
  <2> HIDE DEF t, order
  <2>5. Scores = AnswersTo(1) BY <2>3, <2>4, <1>4, FlattenedOne
  <2>6. PICK given \in SUBSET (1 .. N) :
           AnswersTo(1) = InOrder(given) /\ (phase = "classify" \/ given = 1 .. N)
    BY <2>1, <2>3 DEF Joined
  <2>7. CASE phase = "classify" BY <2>5, <2>6, <2>7, OrderIsSeq
  <2>8. CASE phase # "classify"
    <3>1. InOrder(1 .. N) = [i \in 1 .. N - 1 + 1 |-> 1 + i - 1] BY <1>1, OrderOfInterval
    <3>2. N - 1 + 1 = N /\ \A i \in 1 .. N : 1 + i - 1 = i BY <1>1
    <3>3. InOrder(1 .. N) = [i \in 1 .. N |-> i] BY <3>1, <3>2
    <3> QED BY <3>3, <2>5, <2>6, <2>8, <1>1
  <2> QED BY <2>7, <2>8
<1> QED BY <1>6, <1>7

LEMMA AskedStays ==
  ASSUME AskedInv, UNCHANGED <<phase, asked>>
  PROVE  AskedInv'
BY DEF AskedInv, Asking, Batches, Joined, Ranked, Ascends, asked

LEMMA AskedLeft ==
  ASSUME AskedInv, \/ phase' \in {"native", "json", "done"}
                   \/ phase' = "idle" /\ joined' = <<>>
  PROVE  AskedInv'
BY DEF AskedInv, Asking

LEMMA AskAsked ==
  ASSUME AskedInv, NEW kind \in {"relevance", "decide", "classify"}, Ask(kind)
  PROVE  AskedInv'
<1>1. phase' = kind /\ joined' = <<>> BY DEF Ask, AskedInv
<1>2. open' = DOMAIN Batches' BY <1>1 DEF Ask, Batches
<1>3. joined' \in Seq((DOMAIN Batches') \X Seq(Nat)) /\ DOMAIN joined' = {} BY <1>1
<1> QED BY <1>1, <1>2, <1>3 DEF AskedInv, Asking

LEMMA AnsweredAsked ==
  ASSUME AskedInv, NEW b \in open, NEW given \in SUBSET Batches[b], Answered(b, given)
  PROVE  AskedInv'
<1> DEFINE s == InOrder(given)
           D == DOMAIN Batches
<1>1. /\ Asking /\ phase' = phase /\ open' = open \ {b} /\ joined' = Append(joined, <<b, s>>)
      /\ phase = "classify" \/ given = Batches[b]
  BY DEF Answered
<1>2. Batches' = Batches BY <1>1 DEF Batches
<1>3. /\ joined \in Seq(D \X Seq(Nat)) /\ open \subseteq D
      /\ \A c \in D \ open : \E i \in DOMAIN joined : joined[i][1] = c
      /\ \A i \in DOMAIN joined : Joined(joined[i][1], joined[i][2])
  BY <1>1 DEF AskedInv
<1>4. s \in Seq(Nat)
  <2>1. given \in SUBSET (1 .. Len(Sizes)) BY <1>3, BatchesAre
  <2> QED BY <2>1, OrderIsSeq
<1>5. Joined(b, s) BY <1>1 DEF Joined
<1>6. \A c, r : Joined(c, r)' <=> Joined(c, r) BY <1>1, <1>2 DEF Joined
<1> HIDE DEF s, D
<1>7. <<b, s>> \in D \X Seq(Nat) BY <1>3, <1>4
<1>8. /\ joined' \in Seq(D \X Seq(Nat)) /\ Len(joined') = Len(joined) + 1
      /\ \A i \in 1 .. Len(joined) : joined'[i] = joined[i]
      /\ joined'[Len(joined) + 1] = <<b, s>>
  BY <1>1, <1>3, <1>7
<1>9. DOMAIN joined = 1 .. Len(joined) /\ Len(joined) \in Nat /\ DOMAIN joined' = 1 .. Len(joined) + 1
  BY <1>3, <1>8
<1>10. ASSUME NEW c \in D \ open' PROVE \E i \in DOMAIN joined' : joined'[i][1] = c
  <2>1. CASE c = b
    <3>1. joined'[Len(joined) + 1][1] = c BY <2>1, <1>8
    <3> QED BY <3>1, <1>9
  <2>2. CASE c # b
    <3>1. PICK i \in DOMAIN joined : joined[i][1] = c BY <2>2, <1>1, <1>3
    <3> QED BY <3>1, <1>8, <1>9
  <2> QED BY <2>1, <2>2
<1>11. ASSUME NEW i \in DOMAIN joined' PROVE Joined(joined'[i][1], joined'[i][2])
  <2>1. CASE i \in DOMAIN joined BY <2>1, <1>3, <1>8, <1>9
  <2>2. CASE i = Len(joined) + 1
    <3>1. joined'[i][1] = b /\ joined'[i][2] = s BY <2>2, <1>8
    <3> QED BY <3>1, <1>5
  <2> QED BY <2>1, <2>2, <1>9
<1>12. \A i \in DOMAIN joined' : Joined(joined[i][1], joined[i][2])' BY <1>6, <1>11
<1> QED BY <1>1, <1>2, <1>3, <1>8, <1>10, <1>12 DEF AskedInv, Asking, D

LEMMA ScoredAsked == ASSUME AskedInv, Scored PROVE AskedInv'
<1>1. Asking /\ open = {} /\ phase' = "scored" /\ joined' = <<<<phase, Scores>>>> BY DEF Scored
<1>2. joined'[1][1] = phase /\ joined'[1][2] = Scores BY <1>1
<1>3. Ranked' BY <1>1, <1>2, ScoresAreRanked DEF Ranked, Ascends
<1> QED BY <1>1, <1>3 DEF AskedInv, Asking

(* Scores are those of the questions asked, in their order, whatever order the     *)
(* batches were answered in, and only a question by itself is over the limit.      *)
(* About relevance, decide and classify.                                           *)
THEOREM ScoresInOrder == AdapterSpec => []ScoresBelong
<1>1. AdapterInit => AskedInv
  BY DEF AdapterInit, AskedInv, Asking
<1>2. \A native \in BOOLEAN : Opens(native) => phase' \in {"native", "json"} BY DEF Opens
<1>3. /\ Refusal => phase' \in {"native", "json"}
      /\ Failure => phase' = "done"
  BY <1>2 DEF Refusal, Failure, Returned
<1>4. ASSUME AskedInv, [AdapterNext]_adapterVars PROVE AskedInv'
  <2>1. CASE \E m \in Models : Infer(m)
    <3>1. phase' \in {"native", "json"} BY <1>2, <2>1 DEF Infer
    <3> QED BY <1>4, <3>1, AskedLeft
  <2>2. CASE Interrupted BY <1>4, <2>2, <1>3, AskedLeft DEF Interrupted
  <2>3. CASE Write BY <1>4, <2>3, AskedStays DEF Write, Begins, asked
  <2>4. CASE PushComment BY <1>4, <2>4, AskedStays DEF PushComment, Kept
  <2>5. CASE PushContent BY <1>4, <2>5, AskedStays DEF PushContent, Kept
  <2>6. CASE PushPart BY <1>4, <2>6, AskedStays DEF PushPart, Kept
  <2>7. CASE PushWhole BY <1>4, <2>7, AskedStays DEF PushWhole, Kept
  <2>8. CASE PushGarbage BY <1>4, <2>8, <1>3, AskedLeft DEF PushGarbage
  <2>9. CASE PushError BY <1>4, <2>9, <1>3, AskedLeft DEF PushError
  <2>10. CASE \E byDone \in BOOLEAN : Finish(byDone)
    <3>1. phase' = "done" BY <2>10 DEF Finish, Returned
    <3> QED BY <1>4, <3>1, AskedLeft
  <2>11. CASE Rest BY <1>4, <2>11, AskedLeft DEF Rest
  <2>12. CASE \E kind \in {"relevance", "decide", "classify"} : Ask(kind) BY <1>4, <2>12, AskAsked
  <2>13. CASE \E b \in open : \E given \in SUBSET Batches[b] : Answered(b, given)
    BY <1>4, <2>13, AnsweredAsked
  <2>14. CASE Scored BY <1>4, <2>14, ScoredAsked
  <2>15. CASE AskFails BY <1>4, <2>15, AskedLeft DEF AskFails
  <2>16. CASE UNCHANGED adapterVars BY <1>4, <2>16, AskedStays DEF adapterVars
  <2> QED
    BY <1>4, <2>1, <2>2, <2>3, <2>4, <2>5, <2>6, <2>7, <2>8, <2>9, <2>10, <2>11, <2>12, <2>13,
       <2>14, <2>15, <2>16
    DEF AdapterNext
<1>5. AskedInv => ScoresBelong BY ScoresBelongIs DEF AskedInv
<1> QED BY <1>1, <1>4, <1>5, PTL DEF AdapterSpec

(* What names are made of. (No prover knows of a string that it is one.) *)
Signs == STRING \cup {"__"}
Words == Seq(Signs)

(* Every tool is offered: there are as many numbers as tools, so one of them makes *)
(* a name that is not taken.                                                       *)
LEMMA UniqueIsNew ==
  ASSUME NEW base \in Words, NEW taken, IsFiniteSet(taken),
         Cardinality(taken) < Len(Tools)
  PROVE  Unique(base, taken) \notin taken /\ Unique(base, taken) \in Words
<1>1. /\ Len(Numbers) \in Nat /\ Len(Tools) \in Nat /\ Len(Tools) <= Len(Numbers)
      /\ DOMAIN Numbers = 1 .. Len(Numbers) /\ \A i \in 1 .. Len(Numbers) : Numbers[i] \in Signs
      /\ \A i, j \in 1 .. Len(Numbers) : Numbers[i] = Numbers[j] => i = j
  BY NamesAssumption DEF Signs
<1>2. CASE base \notin taken BY <1>2 DEF Unique
<1>3. CASE base \in taken
  <2> DEFINE free == {i \in DOMAIN Numbers : Append(base, Numbers[i]) \notin taken}
             least == CHOOSE i \in free : \A j \in free : i <= j
             name(i) == Append(base, Numbers[i])
  <2>1. ASSUME NEW i \in 1 .. Len(Numbers), NEW j \in 1 .. Len(Numbers), name(i) = name(j)
        PROVE  i = j
    <3>1. /\ Append(base, Numbers[i])[Len(base) + 1] = Numbers[i]
          /\ Append(base, Numbers[j])[Len(base) + 1] = Numbers[j]
      BY <1>1, AppendProperties DEF Words
    <3> QED BY <2>1, <3>1, <1>1
  <2>2. free # {}
    <3> SUFFICES ASSUME free = {} PROVE FALSE OBVIOUS
    <3> DEFINE S == 1 .. Len(Numbers)
               f == [i \in S |-> name(i)]
    <3>1. \A i \in S : name(i) \in taken BY <1>1
    <3> HIDE DEF name
    <3>2. f \in [S -> taken] BY <3>1
    <3>3. IsFiniteSet(S) /\ Cardinality(S) = Len(Numbers)
      <4>1. ASSUME NEW n \in Nat PROVE IsFiniteSet(1 .. n) /\ Cardinality(1 .. n) = n
        <5>1. IsFiniteSet(1 .. n) /\ Cardinality(1 .. n) = IF 1 > n THEN 0 ELSE n - 1 + 1
          BY FS_Interval
        <5> QED BY <5>1
      <4> QED BY <4>1, <1>1
    <3>4. Cardinality(taken) \in Nat BY FS_CardinalityType
    <3>5. Cardinality(taken) < Cardinality(S) BY <3>3, <3>4, <1>1
    <3>6. \A x \in S : f[x] = name(x) OBVIOUS
    <3> HIDE DEF S, f
    <3>7. \E x, y \in S : x # y /\ f[x] = f[y] BY <3>2, <3>3, <3>5, FS_PigeonHole
    <3> QED BY <3>6, <3>7, <2>1 DEF S
  <2>3. free \subseteq Nat BY <1>1
  <2>4. PICK m \in free : \A i \in free : m <= i
    <3> HIDE DEF free
    <3> QED BY <2>2, <2>3, LeastExists
  <2>5. least \in free
    <3> HIDE DEF free
    <3> QED BY <2>4
  <2>6. Unique(base, taken) = Append(base, Numbers[least]) BY <1>3 DEF Unique
  <2> HIDE DEF least
  <2>7. Numbers[least] \in Signs BY <2>5, <1>1
  <2> QED BY <2>5, <2>6, <2>7, AppendProperties DEF Words
<1> QED BY <1>2, <1>3

(* Names, as many as there are tools, under which the first n are found. *)
Offers(names, n) ==
    /\ IsFiniteSet(DOMAIN names) /\ Cardinality(DOMAIN names) = n
    /\ \A i \in 1 .. n : \E f \in DOMAIN names : names[f] = Tools[i]

NameMaps == UNION {[D -> Words] : D \in SUBSET Words}

OfferedNext(names, n) ==
    LET own == Unique(Base(Tools[n]), DOMAIN names)
    IN [f \in DOMAIN names \cup {own} |-> IF f = own THEN Tools[n] ELSE names[f]]

(* One more tool has a name of its own, and the tools before it keep theirs. *)
LEMMA OfferedNextOffers ==
  ASSUME NEW n \in 1 .. Len(Tools), NEW names \in NameMaps, Offers(names, n - 1)
  PROVE  OfferedNext(names, n) \in NameMaps /\ Offers(OfferedNext(names, n), n)
<1> DEFINE D == DOMAIN names
           own == Unique(Base(Tools[n]), D)
           more == [f \in D \cup {own} |-> IF f = own THEN Tools[n] ELSE names[f]]
<1>1. Len(Tools) \in Nat /\ \A i \in 1 .. Len(Tools) : Tools[i] \in Words
  <2>1. Len(Tools) \in Nat /\ \A i \in 1 .. Len(Tools) : Tools[i] \in Seq(STRING) BY NamesAssumption
  <2>2. ASSUME NEW s \in Seq(STRING) PROVE s \in Words
    <3>1. s = [i \in 1 .. Len(s) |-> s[i]] /\ \A i \in 1 .. Len(s) : s[i] \in Signs BY DEF Signs
    <3>2. Len(s) \in Nat OBVIOUS
    <3> QED BY <3>1, <3>2, IsASeq DEF Words
  <2> QED BY <2>1, <2>2
<1>2. IsFiniteSet(D) /\ Cardinality(D) = n - 1 /\ Cardinality(D) < Len(Tools) BY <1>1 DEF Offers
<1>3. Base(Tools[n]) \in Words
  <2> DEFINE s == Tools[n]
             t == [i \in 1 .. Len(s) |-> IF s[i] = "." THEN "__" ELSE s[i]]
  <2>1. s \in Seq(Signs) BY <1>1 DEF Words
  <2> HIDE DEF s
  <2>2. DOMAIN s = 1 .. Len(s) /\ Len(s) \in Nat /\ \A i \in 1 .. Len(s) : s[i] \in Signs
    BY <2>1
  <2>3. t \in Seq(Signs)
    <3>1. \A i \in 1 .. Len(s) : t[i] \in Signs BY <2>2 DEF Signs
    <3>2. t = [i \in 1 .. Len(s) |-> t[i]] OBVIOUS
    <3> HIDE DEF t
    <3> QED BY <2>2, <3>1, <3>2, IsASeq
  <2>4. Base(s) = t BY <2>2 DEF Base
  <2> QED BY <2>3, <2>4 DEF s, Words
<1>4. own \notin D /\ own \in Words BY <1>2, <1>3, UniqueIsNew DEF Words
<1>5. D \subseteq Words /\ names \in [D -> Words] BY DEF NameMaps
<1> HIDE DEF own, D
<1>6. more \in [D \cup {own} -> Words] /\ D \cup {own} \in SUBSET Words BY <1>1, <1>4, <1>5
<1>7. more[own] = Tools[n] /\ \A f \in D : more[f] = names[f] BY <1>4
<1>8. OfferedNext(names, n) = more BY DEF OfferedNext, own, D
<1>9. DOMAIN more = D \cup {own} OBVIOUS
<1> HIDE DEF more
<1>10. more \in NameMaps BY <1>6 DEF NameMaps
<1>11. IsFiniteSet(D \cup {own}) /\ Cardinality(D \cup {own}) = n
  <2>1. IsFiniteSet(D \cup {own}) /\ Cardinality(D \cup {own}) = Cardinality(D) + 1
    BY <1>2, <1>4, FS_AddElement
  <2> QED BY <2>1, <1>1, <1>2
<1>12. ASSUME NEW i \in 1 .. n PROVE \E f \in DOMAIN more : more[f] = Tools[i]
  <2>1. CASE i = n BY <2>1, <1>7, <1>9
  <2>2. CASE i # n
    <3>1. i \in 1 .. n - 1 BY <2>2, <1>1
    <3>2. PICK f \in D : names[f] = Tools[i] BY <3>1 DEF Offers, D
    <3> QED BY <3>2, <1>7, <1>9
  <2> QED BY <2>1, <2>2
<1> QED BY <1>8, <1>9, <1>10, <1>11, <1>12 DEF Offers

LEMMA EveryToolIsOffered == Offers(FunctionNames, Len(Tools))
<1> DEFINE N == Len(Tools)
           none == [f \in {} |-> <<>>]
           V == [n \in 0 .. N |-> {m \in NameMaps : Offers(m, n)}]
           G == [n \in 1 .. N |-> [m \in NameMaps |-> OfferedNext(m, n)]]
           Def(f) == f = [n \in 0 .. N |-> IF n = 0 THEN none ELSE OfferedNext(f[n - 1], n)]
<1>1. N \in Nat BY NamesAssumption
<1>2. none \in NameMaps /\ Offers(none, 0)
  <2>1. DOMAIN none = {} /\ none \in [{} -> Words] /\ {} \in SUBSET Words OBVIOUS
  <2>2. none \in NameMaps BY <2>1 DEF NameMaps
  <2> QED BY <2>1, <2>2, FS_EmptySet DEF Offers
<1> HIDE DEF none
<1>3. Stepwise(N, NameMaps, V, none, G)
  <2>1. \A n \in 0 .. N : V[n] \subseteq NameMaps OBVIOUS
  <2>2. none \in V[0] BY <1>1, <1>2
  <2>3. ASSUME NEW n \in 1 .. N, NEW m \in V[n - 1] PROVE G[n][m] \in V[n]
    <3>1. n - 1 \in 0 .. N /\ n \in 0 .. N BY <1>1
    <3>2. m \in NameMaps /\ Offers(m, n - 1) BY <3>1
    <3>3. OfferedNext(m, n) \in NameMaps /\ Offers(OfferedNext(m, n), n)
      BY <3>2, OfferedNextOffers
    <3> QED BY <3>1, <3>2, <3>3
  <2> HIDE DEF V, G
  <2> QED BY <2>1, <2>2, <2>3 DEF Stepwise
<1>4. PICK f \in [0 .. N -> NameMaps] : Solves(f, N, V, none, G)
  <2> HIDE DEF N, V, G
  <2> QED BY <1>1, <1>3, Recursion
<1>5. f[0] = none /\ \A n \in 1 .. N : f[n] = G[n][f[n - 1]] BY <1>4 DEF Solves
<1>6. \A n \in 1 .. N : f[n] = OfferedNext(f[n - 1], n)
  <2> TAKE n \in 1 .. N
  <2>1. n - 1 \in 0 .. N BY <1>1
  <2>2. f[n - 1] \in NameMaps BY <2>1
  <2> QED BY <1>5, <2>2
<1>7. Def(f)
  <2>1. ASSUME NEW n \in 0 .. N PROVE f[n] = IF n = 0 THEN none ELSE OfferedNext(f[n - 1], n)
    <3>1. CASE n = 0 BY <3>1, <1>5
    <3>2. CASE n # 0
      <4>1. n \in 1 .. N BY <3>2, <1>1
      <4> QED BY <4>1, <3>2, <1>6
    <3> QED BY <3>1, <3>2
  <2>2. f = [n \in 0 .. N |-> f[n]] OBVIOUS
  <2> QED BY <2>1, <2>2
<1>8. Def(Offered)
  <2>1. Offered = CHOOSE g : Def(g) BY DEF Offered, OfferedNext, none
  <2> HIDE DEF Def
  <2> QED BY <1>7, <2>1
<1>9. Offered[0] = none /\ \A n \in 1 .. N : Offered[n] = OfferedNext(Offered[n - 1], n)
  <2>1. 0 \in 0 .. N /\ 1 .. N \subseteq 0 .. N /\ \A n \in 1 .. N : n # 0 BY <1>1
  <2> QED BY <1>8, <2>1
<1>10. \A n \in 0 .. N : Offered[n] \in NameMaps /\ Offers(Offered[n], n)
  <2> DEFINE T == {n \in 0 .. N : Offered[n] \in NameMaps /\ Offers(Offered[n], n)}
  <2>1. 0 \in T BY <1>1, <1>2, <1>9
  <2>2. ASSUME NEW n \in T, n \in 0 .. N - 1 PROVE n + 1 \in T
    <3>1. n + 1 \in 1 .. N /\ (n + 1) - 1 = n BY <1>1, <2>2
    <3>2. Offered[n + 1] = OfferedNext(Offered[n], n + 1) BY <3>1, <1>9
    <3>3. Offered[n] \in NameMaps /\ Offers(Offered[n], (n + 1) - 1) BY <3>1
    <3>4. Offered[n + 1] \in NameMaps /\ Offers(Offered[n + 1], n + 1)
      BY <3>1, <3>2, <3>3, OfferedNextOffers
    <3> QED BY <3>1, <3>4
  <2> HIDE DEF T
  <2>3. 0 .. N \subseteq T BY <1>1, <2>1, <2>2, Upward
  <2> QED BY <2>3 DEF T
<1> QED BY <1>1, <1>10 DEF FunctionNames

(* The first n pieces of call d are c: its name first, then its arguments. *)
CallType == [name : Seq(STRING), args : Seq(STRING)]
Prefix(s, t) == Len(s) <= Len(t) /\ \A j \in 1 .. Len(s) : s[j] = t[j]
FirstPieces(c, d, n) ==
    /\ Prefix(c.name, d.name) /\ Prefix(c.args, d.args)
    /\ Len(c.name) + Len(c.args) = n
    /\ Len(c.args) > 0 => Len(c.name) = Len(d.name)

(* What arrived of the calls: the first pieces of each, of none after the last one. *)
Arrived ==
    /\ answer \in Answers /\ parts \in [1 .. Len(answer.calls) -> Nat]
    /\ calls \in Seq(CallType) /\ Len(calls) <= Len(answer.calls)
    /\ Len(calls) > 0 => parts[Len(calls)] > 0
    /\ \A i \in 1 .. Len(answer.calls) :
           IF i <= Len(calls) THEN FirstPieces(calls[i], answer.calls[i], parts[i]) ELSE parts[i] = 0
    /\ phase = "json" => answer.calls = <<>>

(* A line that is pending may still be written. *)
NextWhole(n) == \A k \in DOMAIN parts : IF k < n THEN Complete(k) ELSE parts[k] = 0
Pending ==
    /\ line.kind = "part" => line.n \in DOMAIN parts /\ ~Complete(line.n)
    /\ line.kind = "whole" => line.n \in DOMAIN parts /\ NextWhole(line.n)
    /\ line.kind = "done" => got = Len(Text(answer)) /\ \A i \in DOMAIN parts : Complete(i)

CallsInv ==
    /\ IF Streaming THEN Arrived /\ Pending ELSE line = NoLine
    /\ phase = "done" /\ done /\ reply.kind = "document" => reply.calls = CallsOf(answer)

LEMMA AnswerCalls ==
  ASSUME NEW a \in Answers
  PROVE  /\ a.calls \in Seq(CallType) /\ Len(a.calls) \in Nat /\ DOMAIN a.calls = 1 .. Len(a.calls)
         /\ \A i \in 1 .. Len(a.calls) :
                a.calls[i] \in CallType /\ Len(a.calls[i].name) \in Nat \ {0} /\ Len(a.calls[i].args) \in Nat
<1> DEFINE NamedCall == [name : Seq(STRING) \ {<<>>}, args : Seq(STRING)]
<1>1. a.calls \in Seq(NamedCall) BY AnswersAssumption
<1> HIDE DEF NamedCall
<1>2. Len(a.calls) \in Nat /\ DOMAIN a.calls = 1 .. Len(a.calls)
      /\ \A i \in 1 .. Len(a.calls) : a.calls[i] \in NamedCall
  BY <1>1
<1>3. ASSUME NEW c \in NamedCall
      PROVE  c \in CallType /\ Len(c.name) \in Nat \ {0} /\ Len(c.args) \in Nat
  <2>1. c.name \in Seq(STRING) /\ c.name # <<>> /\ c.args \in Seq(STRING) BY DEF NamedCall
  <2>2. Len(c.name) # 0 BY <2>1
  <2> QED BY <2>1, <2>2 DEF CallType, NamedCall
<1>4. a.calls = [i \in 1 .. Len(a.calls) |-> a.calls[i]] BY <1>1
<1>5. a.calls \in Seq(CallType) BY <1>2, <1>3, <1>4, IsASeq
<1> QED BY <1>2, <1>3, <1>5

(* All pieces of a call are the call. *)
LEMMA AllPieces ==
  ASSUME NEW c \in CallType, NEW d \in CallType,
         FirstPieces(c, d, Len(d.name) + Len(d.args))
  PROVE  c = d
<1>1. /\ c.name \in Seq(STRING) /\ d.name \in Seq(STRING)
      /\ c.args \in Seq(STRING) /\ d.args \in Seq(STRING)
  BY DEF CallType
<1>2. /\ Len(c.name) \in Nat /\ Len(d.name) \in Nat /\ Len(c.args) \in Nat /\ Len(d.args) \in Nat
  BY <1>1
<1>3. Len(c.name) = Len(d.name) /\ Len(c.args) = Len(d.args)
  <2> DEFINE a == Len(c.name)
             b == Len(c.args)
             p == Len(d.name)
             r == Len(d.args)
  <2>1. a <= p /\ b <= r /\ a + b = p + r BY DEF FirstPieces, Prefix
  <2>2. a \in Nat /\ b \in Nat /\ p \in Nat /\ r \in Nat BY <1>2
  <2> HIDE DEF a, b, p, r
  <2>3. a = p /\ b = r BY <2>1, <2>2
  <2> QED BY <2>3 DEF a, b, p, r
<1>4. c.name = d.name BY <1>1, <1>3, SeqEqual DEF FirstPieces, Prefix
<1>5. c.args = d.args BY <1>1, <1>3, SeqEqual DEF FirstPieces, Prefix
<1> QED BY <1>4, <1>5 DEF CallType

(* A piece of name or arguments, and the call it makes of what came before. *)
NextName(d, j) == IF j <= Len(d.name) THEN <<d.name[j]>> ELSE <<>>
NextArgs(d, j) == IF j <= Len(d.name) THEN <<>> ELSE <<d.args[j - Len(d.name)]>>
With(c, name, args) == [name |-> c.name \o name, args |-> c.args \o args]

(* A sequence with one more element. *)
LEMMA OneMore ==
  ASSUME NEW S, NEW s \in Seq(S), NEW x \in S
  PROVE  /\ s \o <<x>> \in Seq(S) /\ Len(s \o <<x>>) = Len(s) + 1 /\ Len(s) \in Nat
         /\ \A j \in 1 .. Len(s) : (s \o <<x>>)[j] = s[j]
         /\ (s \o <<x>>)[Len(s) + 1] = x
<1>1. Append(s, x) = s \o <<x>> BY AppendIsConcat
<1>2. /\ Append(s, x) \in Seq(S) /\ Len(Append(s, x)) = Len(s) + 1
      /\ \A j \in 1 .. Len(s) : Append(s, x)[j] = s[j]
      /\ Append(s, x)[Len(s) + 1] = x
  BY AppendProperties
<1>3. Len(s) \in Nat OBVIOUS
<1> QED BY <1>1, <1>2, <1>3

(* A prefix with the next element is a prefix. *)
LEMMA PrefixGrows ==
  ASSUME NEW s \in Seq(STRING), NEW t \in Seq(STRING), Prefix(s, t), Len(s) < Len(t)
  PROVE  LET more == s \o <<t[Len(s) + 1]>>
         IN more \in Seq(STRING) /\ Len(more) = Len(s) + 1 /\ Prefix(more, t)
<1> DEFINE x == t[Len(s) + 1]
           more == s \o <<x>>
<1>1. Len(s) \in Nat /\ Len(t) \in Nat /\ x \in STRING OBVIOUS
<1> HIDE DEF x
<1>2. /\ more \in Seq(STRING) /\ Len(more) = Len(s) + 1 /\ more[Len(s) + 1] = x
      /\ \A j \in 1 .. Len(s) : more[j] = s[j]
  <2> DEFINE Letters == STRING
  <2>1. s \in Seq(Letters) /\ x \in Letters BY <1>1
  <2> HIDE DEF Letters
  <2>2. /\ s \o <<x>> \in Seq(Letters) /\ Len(s \o <<x>>) = Len(s) + 1
        /\ \A j \in 1 .. Len(s) : (s \o <<x>>)[j] = s[j]
        /\ (s \o <<x>>)[Len(s) + 1] = x
    BY <2>1, OneMore
  <2> QED BY <2>2 DEF Letters
<1> HIDE DEF more
<1>3. \A j \in 1 .. Len(s) + 1 : more[j] = t[j] BY <1>1, <1>2 DEF Prefix, x
<1> QED BY <1>1, <1>2, <1>3 DEF Prefix, more, x

(* With the next piece there is one piece more. *)
LEMMA NextPiece ==
  ASSUME NEW c \in CallType, NEW d \in CallType, NEW n \in Nat, FirstPieces(c, d, n),
         n < Len(d.name) + Len(d.args)
  PROVE  /\ With(c, NextName(d, n + 1), NextArgs(d, n + 1)) \in CallType
         /\ FirstPieces(With(c, NextName(d, n + 1), NextArgs(d, n + 1)), d, n + 1)
<1> DEFINE j == n + 1
           name == c.name \o NextName(d, j)
           args == c.args \o NextArgs(d, j)
           a == Len(c.name)
           b == Len(c.args)
           p == Len(d.name)
           r == Len(d.args)
<1>1. /\ c.name \in Seq(STRING) /\ d.name \in Seq(STRING)
      /\ c.args \in Seq(STRING) /\ d.args \in Seq(STRING)
  BY DEF CallType
<1>2. a \in Nat /\ b \in Nat /\ p \in Nat /\ r \in Nat BY <1>1
<1>3. a <= p /\ b <= r /\ a + b = n BY DEF FirstPieces, Prefix
<1>4. b > 0 => a = p BY DEF FirstPieces
<1>5. Prefix(c.name, d.name) /\ Prefix(c.args, d.args) BY DEF FirstPieces
<1>6. n < p + r OBVIOUS
<1>7. Len(c.name) = a /\ Len(c.args) = b /\ Len(d.name) = p /\ Len(d.args) = r OBVIOUS
<1> HIDE DEF a, b, p, r
<1>8. /\ name \in Seq(STRING) /\ args \in Seq(STRING)
      /\ Prefix(name, d.name) /\ Prefix(args, d.args)
      /\ Len(name) + Len(args) = j /\ (Len(args) > 0 => Len(name) = p)
  <2>1. CASE j <= p
    <3>1. b = 0 /\ a = n /\ a < p BY <2>1, <1>2, <1>3, <1>4
    <3>2. name = c.name \o <<d.name[Len(c.name) + 1]>> BY <2>1, <3>1, <1>7 DEF NextName
    <3>3. args = c.args BY <2>1, <1>1, <1>7, ConcatEmptySeq DEF NextArgs
    <3>4. name \in Seq(STRING) /\ Len(name) = a + 1 /\ Prefix(name, d.name)
      BY <3>1, <3>2, <1>1, <1>5, <1>7, PrefixGrows
    <3> HIDE DEF name, args
    <3> QED BY <3>1, <3>3, <3>4, <1>1, <1>2, <1>5, <1>7
  <2>2. CASE ~(j <= p)
    <3>1. a = p /\ j - p = b + 1 /\ b < r BY <2>2, <1>2, <1>3, <1>4, <1>6
    <3>2. args = c.args \o <<d.args[Len(c.args) + 1]>> BY <2>2, <3>1, <1>7 DEF NextArgs
    <3>3. name = c.name BY <2>2, <1>1, <1>7, ConcatEmptySeq DEF NextName
    <3>4. args \in Seq(STRING) /\ Len(args) = b + 1 /\ Prefix(args, d.args)
      BY <3>1, <3>2, <1>1, <1>5, <1>7, PrefixGrows
    <3> HIDE DEF name, args
    <3> QED BY <3>1, <3>3, <3>4, <1>1, <1>2, <1>3, <1>5, <1>7
  <2> QED BY <2>1, <2>2
<1> DEFINE e == With(c, NextName(d, j), NextArgs(d, j))
<1>9. e = [name |-> name, args |-> args] BY DEF With
<1> HIDE DEF e, name, args
<1>10. e \in CallType BY <1>8, <1>9 DEF CallType
<1>11. e.name = name /\ e.args = args BY <1>9
<1>12. FirstPieces(e, d, j) BY <1>7, <1>8, <1>11 DEF FirstPieces
<1> QED BY <1>10, <1>12 DEF e

(* accumulate changes one call, and those before it that had not begun are empty. *)
LEMMA Accumulated ==
  ASSUME calls \in Seq(CallType), NEW i \in Nat \ {0}, NEW name, NEW args,
         NEW c, c = IF i <= Len(calls) THEN calls[i] ELSE NoCall, With(c, name, args) \in CallType
  PROVE  LET m == IF i > Len(calls) THEN i ELSE Len(calls)
             more == Accumulate(i, name, args)
         IN /\ more \in Seq(CallType) /\ Len(more) = m /\ more[i] = With(c, name, args)
            /\ \A k \in 1 .. m : k # i => more[k] = IF k <= Len(calls) THEN calls[k] ELSE NoCall
<1> DEFINE m == IF i > Len(calls) THEN i ELSE Len(calls)
           more == Accumulate(i, name, args)
<1>1. Len(calls) \in Nat /\ m \in Nat /\ i \in 1 .. m OBVIOUS
<1>2. NoCall \in CallType BY DEF NoCall, CallType
<1>3. ASSUME NEW k \in 1 .. m, k # i
      PROVE  more[k] = (IF k <= Len(calls) THEN calls[k] ELSE NoCall) /\ more[k] \in CallType
  <2>1. more[k] = IF k <= Len(calls) THEN calls[k] ELSE NoCall BY <1>3 DEF Accumulate
  <2>2. CASE k <= Len(calls)
    <3>1. calls[k] \in CallType BY <2>2, <1>1
    <3> QED BY <2>1, <2>2, <3>1
  <2>3. CASE ~(k <= Len(calls)) BY <2>1, <2>3, <1>2
  <2> QED BY <2>2, <2>3
<1>4. more[i] = With(c, name, args) BY <1>1 DEF Accumulate, With
<1>5. more = [k \in 1 .. m |-> more[k]] BY DEF Accumulate
<1> HIDE DEF more, m
<1>6. \A k \in 1 .. m : more[k] \in CallType BY <1>3, <1>4
<1>7. more \in Seq(CallType) BY <1>1, <1>5, <1>6, IsASeq
<1>8. DOMAIN more = 1 .. m BY <1>5
<1>9. Len(more) = m BY <1>1, <1>7, <1>8
<1> QED BY <1>3, <1>4, <1>7, <1>9 DEF more, m

LEMMA ArrivedCalls ==
  ASSUME Arrived, NEW i \in 1 .. Len(answer.calls)
  PROVE  /\ answer.calls \in Seq(CallType) /\ Len(answer.calls) \in Nat /\ Len(calls) \in Nat
         /\ DOMAIN parts = 1 .. Len(answer.calls) /\ parts[i] \in Nat
         /\ answer.calls[i] \in CallType /\ Pieces(i) \in Nat \ {0}
         /\ Pieces(i) = Len(answer.calls[i].name) + Len(answer.calls[i].args)
<1>1. answer \in Answers /\ parts \in [1 .. Len(answer.calls) -> Nat] /\ calls \in Seq(CallType)
  BY DEF Arrived
<1>2. Len(calls) \in Nat BY <1>1
<1>3. /\ answer.calls \in Seq(CallType) /\ Len(answer.calls) \in Nat
      /\ answer.calls[i] \in CallType
      /\ Len(answer.calls[i].name) \in Nat \ {0} /\ Len(answer.calls[i].args) \in Nat
  BY <1>1, AnswerCalls
<1>4. Pieces(i) = Len(answer.calls[i].name) + Len(answer.calls[i].args) BY DEF Pieces
<1>5. Pieces(i) \in Nat \ {0}
  <2> DEFINE p == Len(answer.calls[i].name)
             r == Len(answer.calls[i].args)
  <2>1. p \in Nat \ {0} /\ r \in Nat /\ Pieces(i) = p + r BY <1>3, <1>4
  <2> HIDE DEF p, r
  <2> QED BY <2>1
<1>6. DOMAIN parts = 1 .. Len(answer.calls) /\ parts[i] \in Nat BY <1>1
<1> QED BY <1>2, <1>3, <1>4, <1>5, <1>6

(* When every call is complete, they are the calls of the answer. *)
LEMMA AllArrived ==
  ASSUME Arrived, \A i \in DOMAIN parts : Complete(i)
  PROVE  calls = answer.calls /\ Named = calls
<1> DEFINE n == Len(answer.calls)
<1>1. /\ answer.calls \in Seq(CallType) /\ n \in Nat /\ calls \in Seq(CallType) /\ Len(calls) \in Nat
      /\ Len(calls) <= n /\ DOMAIN parts = 1 .. n
  BY AnswerCalls DEF Arrived
<1>2. ASSUME NEW i \in 1 .. n
      PROVE  i <= Len(calls) /\ calls[i] = answer.calls[i] /\ calls[i].name # <<>>
  <2>1. parts[i] = Pieces(i) BY <1>1 DEF Complete
  <2>2. /\ parts[i] \in Nat \ {0} /\ answer.calls[i] \in CallType
        /\ parts[i] = Len(answer.calls[i].name) + Len(answer.calls[i].args)
    BY <2>1, ArrivedCalls
  <2>3. i <= Len(calls) BY <2>2 DEF Arrived
  <2>4. FirstPieces(calls[i], answer.calls[i], parts[i]) BY <2>3 DEF Arrived
  <2>5. calls[i] \in CallType BY <2>3, <1>1
  <2>6. calls[i] = answer.calls[i] BY <2>2, <2>4, <2>5, AllPieces
  <2>7. answer.calls[i].name # <<>>
    <3>1. Len(answer.calls[i].name) \in Nat \ {0} BY AnswerCalls DEF Arrived
    <3>2. Len(<<>>) = 0 OBVIOUS
    <3> QED BY <3>1, <3>2
  <2> QED BY <2>3, <2>6, <2>7
<1>3. Len(calls) = n
  <2>1. CASE n = 0 BY <2>1, <1>1
  <2>2. CASE n # 0
    <3>1. n \in 1 .. n BY <2>2, <1>1
    <3>2. n <= Len(calls) BY <3>1, <1>2
    <3> QED BY <3>2, <1>1
  <2> QED BY <2>1, <2>2
<1>4. calls = answer.calls BY <1>1, <1>2, <1>3, SeqEqual
<1>5. Named = calls
  <2> DEFINE kept == InOrder({i \in DOMAIN calls : calls[i].name # <<>>})
  <2>1. DOMAIN calls = 1 .. n BY <1>1, <1>3
  <2>2. {i \in DOMAIN calls : calls[i].name # <<>>} = 1 .. n BY <2>1, <1>2
  <2>3. InOrder(1 .. n) = [i \in 1 .. n - 1 + 1 |-> 1 + i - 1] BY <1>1, OrderOfInterval
  <2>4. n - 1 + 1 = n /\ \A i \in 1 .. n : 1 + i - 1 = i BY <1>1
  <2>5. kept = [i \in 1 .. n |-> i] BY <2>2, <2>3, <2>4
  <2>6. Named = [k \in DOMAIN kept |-> calls[kept[k]]] BY DEF Named
  <2> HIDE DEF kept
  <2>7. Named = [k \in 1 .. n |-> calls[k]] BY <2>5, <2>6
  <2>8. calls = [k \in 1 .. n |-> calls[k]] BY <2>1, <1>1
  <2> QED BY <2>7, <2>8
<1> QED BY <1>4, <1>5

LEMMA CallsOpen ==
  ASSUME NEW native \in BOOLEAN, Opens(native) PROVE CallsInv'
<1>1. PICK a \in Answers : /\ a.calls = <<>> \/ native
                           /\ answer' = a /\ parts' = [i \in DOMAIN a.calls |-> 0]
  BY DEF Opens
<1>2. line' = NoLine /\ calls' = <<>> /\ phase' = IF native THEN "native" ELSE "json"
  BY DEF Opens
<1>3. DOMAIN a.calls = 1 .. Len(a.calls) /\ Len(a.calls) \in Nat BY AnswerCalls
<1>4. parts' \in [1 .. Len(answer'.calls) -> Nat] /\ \A i \in 1 .. Len(answer'.calls) : parts'[i] = 0
  BY <1>1, <1>3
<1>5. calls' \in Seq(CallType) /\ Len(calls') = 0 BY <1>2
<1>6. phase' = "json" => answer'.calls = <<>> BY <1>1, <1>2
<1>7. Arrived' BY <1>1, <1>3, <1>4, <1>5, <1>6 DEF Arrived
<1>8. Pending' BY <1>2 DEF Pending, NoLine
<1> QED BY <1>2, <1>7, <1>8 DEF CallsInv, Streaming

LEMMA CallsFail ==
  ASSUME Failure PROVE CallsInv'
<1>1. phase' = "done" /\ line' = NoLine /\ reply' = [NoReply EXCEPT !.kind = "error"]
  BY DEF Failure, Returned
<1>2. reply'.kind = "error" BY <1>1 DEF NoReply
<1> QED BY <1>1, <1>2 DEF CallsInv, Streaming

LEMMA CallsBegin ==
  ASSUME CallsInv, Write PROVE CallsInv'
<1> DEFINE Same == UNCHANGED <<phase, answer, got, parts, calls>>
<1>1. ASSUME NEW kind, NEW n, Begins(kind, n)
      PROVE  /\ Arrived' /\ Streaming' /\ Same /\ DOMAIN parts' = DOMAIN parts
             /\ line'.kind = kind /\ line'.n = n
             /\ \A i : Complete(i)' <=> Complete(i)
             /\ phase' # "done"
  <2>1. Same /\ Streaming /\ line' = [kind |-> kind, n |-> n] BY <1>1 DEF Begins
  <2>2. Arrived BY <2>1 DEF CallsInv
  <2>3. Arrived' BY <2>1, <2>2 DEF Arrived
  <2>4. Streaming' /\ phase' # "done" BY <2>1 DEF Streaming
  <2>5. \A i : Complete(i)' <=> Complete(i) BY <2>1 DEF Complete, Pieces
  <2> QED BY <2>1, <2>3, <2>4, <2>5
<1>2. CASE \E k \in 1 .. MaxFragment : got + k <= Len(Text(answer)) /\ Begins("content", k)
  BY <1>1, <1>2 DEF CallsInv, Pending
<1>3. CASE \E i \in DOMAIN parts : ~Complete(i) /\ Begins("part", i)
  BY <1>1, <1>3 DEF CallsInv, Pending
<1>4. CASE \E i \in DOMAIN parts :
              /\ \A k \in DOMAIN parts : IF k < i THEN Complete(k) ELSE parts[k] = 0
              /\ Begins("whole", i)
  <2>1. PICK i \in DOMAIN parts :
              /\ \A k \in DOMAIN parts : IF k < i THEN Complete(k) ELSE parts[k] = 0
              /\ Begins("whole", i)
    BY <1>4
  <2>2. /\ Arrived' /\ Streaming' /\ Same /\ line'.kind = "whole" /\ line'.n = i /\ phase' # "done"
        /\ \A k : Complete(k)' <=> Complete(k)
    BY <2>1, <1>1
  <2>3. \A k \in DOMAIN parts : IF k < i THEN Complete(k)' ELSE parts'[k] = 0 BY <2>1, <2>2
  <2> QED BY <2>2, <2>3 DEF CallsInv, Pending, NextWhole
<1>5. CASE \E kind \in {"comment", "garbage", "error"} : Begins(kind, 0)
  BY <1>1, <1>5 DEF CallsInv, Pending
<1>6. CASE /\ got = Len(Text(answer)) /\ \A i \in DOMAIN parts : Complete(i)
           /\ Begins("done", 0)
  BY <1>1, <1>6 DEF CallsInv, Pending
<1> QED BY <1>2, <1>3, <1>4, <1>5, <1>6 DEF Write

LEMMA PendingStreams ==
  ASSUME CallsInv, line.kind # "none" PROVE Streaming /\ Arrived /\ Pending
BY DEF CallsInv, NoLine

LEMMA CallsKept ==
  ASSUME CallsInv, line.kind # "none", Kept, UNCHANGED <<parts, calls>> PROVE CallsInv'
<1>1. Arrived /\ Streaming BY PendingStreams
<1>2. UNCHANGED <<phase, answer, parts, calls>> /\ line' = NoLine BY DEF Kept
<1>3. Arrived' BY <1>1, <1>2 DEF Arrived
<1>4. Pending' BY <1>2 DEF Pending, NoLine
<1> QED BY <1>1, <1>2, <1>3, <1>4 DEF CallsInv, Streaming

(* A piece of call i, or all of it, is the next of its pieces. *)
LEMMA CallsGrow ==
  ASSUME CallsInv, line.kind # "none", Kept, NEW i \in 1 .. Len(answer.calls),
         NEW p \in Nat, p > 0, parts' = [parts EXCEPT ![i] = p],
         calls' \in Seq(CallType), Len(calls') = IF i > Len(calls) THEN i ELSE Len(calls),
         FirstPieces(calls'[i], answer.calls[i], p),
         \A k \in 1 .. Len(calls') :
             k # i => calls'[k] = IF k <= Len(calls) THEN calls[k] ELSE NoCall
  PROVE  CallsInv'
<1> DEFINE n == Len(answer.calls)
<1>1. Arrived /\ Streaming BY PendingStreams
<1>2. UNCHANGED <<phase, answer>> /\ line' = NoLine BY DEF Kept
<1>3. /\ n \in Nat /\ Len(calls) \in Nat /\ Len(calls) <= n /\ i \in 1 .. n
      /\ parts \in [1 .. n -> Nat]
  BY <1>1, ArrivedCalls DEF Arrived
<1>4. parts' \in [1 .. n -> Nat] /\ parts'[i] = p /\ \A k \in 1 .. n : k # i => parts'[k] = parts[k]
  BY <1>3
<1>5. Len(calls') \in Nat /\ Len(calls') <= n /\ i <= Len(calls') BY <1>3
<1>6. Len(calls') > 0 => parts'[Len(calls')] > 0
  <2>1. CASE i > Len(calls) BY <2>1, <1>4
  <2>2. CASE ~(i > Len(calls))
    <3>1. Len(calls') = Len(calls) /\ Len(calls) \in 1 .. n BY <2>2, <1>3
    <3>2. parts[Len(calls)] > 0 BY <3>1, <1>1 DEF Arrived
    <3> QED BY <3>1, <3>2, <1>4
  <2> QED BY <2>1, <2>2
<1>7. ASSUME NEW k \in 1 .. n
      PROVE  IF k <= Len(calls') THEN FirstPieces(calls'[k], answer.calls[k], parts'[k])
             ELSE parts'[k] = 0
  <2>1. CASE k = i BY <2>1, <1>4, <1>5
  <2>2. CASE k # i
    <3>1. parts'[k] = parts[k] BY <2>2, <1>4
    <3>2. CASE k <= Len(calls)
      <4>1. k \in 1 .. Len(calls') /\ k <= Len(calls') BY <3>2, <1>3
      <4>2. calls'[k] = calls[k] BY <4>1, <3>2, <2>2
      <4>3. FirstPieces(calls[k], answer.calls[k], parts[k]) BY <3>2, <1>1 DEF Arrived
      <4> QED BY <4>1, <4>2, <4>3, <3>1
    <3>3. CASE ~(k <= Len(calls))
      <4>1. parts[k] = 0 BY <3>3, <1>1 DEF Arrived
      <4>2. CASE k <= Len(calls')
        <5>1. calls'[k] = NoCall BY <4>2, <3>3, <2>2, <1>5
        <5>2. FirstPieces(NoCall, answer.calls[k], 0)
          <6>1. Len(NoCall.name) = 0 /\ Len(NoCall.args) = 0 BY DEF NoCall
          <6>2. Len(answer.calls[k].name) \in Nat /\ Len(answer.calls[k].args) \in Nat
            BY <1>1, AnswerCalls DEF Arrived
          <6> QED BY <6>1, <6>2 DEF FirstPieces, Prefix
        <5> QED BY <5>1, <5>2, <4>1, <4>2, <3>1
      <4>3. CASE ~(k <= Len(calls')) BY <4>1, <4>3, <3>1
      <4> QED BY <4>2, <4>3
    <3> QED BY <3>2, <3>3
  <2> QED BY <2>1, <2>2
<1>8. Arrived'
  <2>1. answer' = answer /\ phase' = phase /\ answer \in Answers
        /\ (phase = "json" => answer.calls = <<>>)
    BY <1>1, <1>2 DEF Arrived
  <2> QED BY <2>1, <1>4, <1>5, <1>6, <1>7 DEF Arrived
<1>9. Pending' BY <1>2 DEF Pending, NoLine
<1> QED BY <1>1, <1>2, <1>8, <1>9 DEF CallsInv, Streaming

LEMMA PiecesAreSome ==
  ASSUME NEW c \in CallType, NEW d \in CallType, NEW n, FirstPieces(c, d, n)
  PROVE  n <= Len(d.name) + Len(d.args)
<1> DEFINE a == Len(c.name)
           b == Len(c.args)
           p == Len(d.name)
           r == Len(d.args)
<1>1. a <= p /\ b <= r /\ a + b = n BY DEF FirstPieces, Prefix
<1>2. a \in Nat /\ b \in Nat /\ p \in Nat /\ r \in Nat BY DEF CallType
<1> HIDE DEF a, b, p, r
<1>3. n <= p + r BY <1>1, <1>2
<1> QED BY <1>3 DEF p, r

LEMMA CallsPart ==
  ASSUME CallsInv, PushPart PROVE CallsInv'
<1> DEFINE i == line.n
           d == answer.calls[i]
           j == parts[i] + 1
           c == IF i <= Len(calls) THEN calls[i] ELSE NoCall
<1>1. line.kind = "part" /\ Kept /\ parts' = [parts EXCEPT ![i] = j]
  BY DEF PushPart
<1>2. Arrived /\ Pending BY <1>1, PendingStreams
<1>3. i \in DOMAIN parts /\ ~Complete(i) BY <1>1, <1>2 DEF Pending
<1>4. i \in 1 .. Len(answer.calls) BY <1>2, <1>3 DEF Arrived
<1>5. /\ d \in CallType /\ parts[i] \in Nat /\ Len(calls) \in Nat /\ Len(answer.calls) \in Nat
      /\ Pieces(i) \in Nat /\ Pieces(i) = Len(d.name) + Len(d.args)
  BY <1>2, <1>4, ArrivedCalls
<1>6. c \in CallType /\ FirstPieces(c, d, parts[i]) /\ parts[i] <= Pieces(i)
  <2>1. CASE i <= Len(calls)
    <3>1. calls \in Seq(CallType) BY <1>2 DEF Arrived
    <3>2. calls[i] \in CallType BY <3>1, <2>1, <1>4, <1>5
    <3>3. FirstPieces(calls[i], d, parts[i]) BY <2>1, <1>2, <1>4 DEF Arrived
    <3>4. parts[i] <= Pieces(i) BY <3>2, <3>3, <1>5, PiecesAreSome
    <3> QED BY <2>1, <3>2, <3>3, <3>4
  <2>2. CASE ~(i <= Len(calls))
    <3>1. parts[i] = 0 BY <2>2, <1>2, <1>4 DEF Arrived
    <3>2. NoCall \in CallType /\ FirstPieces(NoCall, d, 0)
      <4>1. Len(NoCall.name) = 0 /\ Len(NoCall.args) = 0 BY DEF NoCall
      <4>2. Len(d.name) \in Nat /\ Len(d.args) \in Nat BY <1>2, <1>4, AnswerCalls DEF Arrived
      <4> QED BY <4>1, <4>2 DEF FirstPieces, Prefix, CallType, NoCall
    <3>3. 0 <= Pieces(i)
      <4> DEFINE p == Pieces(i)
      <4>1. p \in Nat BY <1>5
      <4> HIDE DEF p
      <4>2. 0 <= p BY <4>1
      <4> QED BY <4>2 DEF p
    <3>4. c = NoCall BY <2>2
    <3> HIDE DEF c, d
    <3> QED BY <3>1, <3>2, <3>3, <3>4
  <2> QED BY <2>1, <2>2
<1>7. parts[i] < Len(d.name) + Len(d.args)
  <2> DEFINE n == parts[i]
             p == Pieces(i)
  <2>1. n # p /\ n <= p /\ n \in Nat /\ p \in Nat BY <1>3, <1>5, <1>6 DEF Complete
  <2> HIDE DEF n, p
  <2>2. n < p BY <2>1
  <2> QED BY <2>2, <1>5 DEF n, p
<1>8. calls' = Accumulate(i, NextName(d, j), NextArgs(d, j))
  BY DEF PushPart, NextName, NextArgs
<1> HIDE DEF i, d, c
<1>9. /\ With(c, NextName(d, j), NextArgs(d, j)) \in CallType
      /\ FirstPieces(With(c, NextName(d, j), NextArgs(d, j)), d, j)
  BY <1>5, <1>6, <1>7, NextPiece
<1> HIDE DEF j
<1>10. /\ calls' \in Seq(CallType) /\ Len(calls') = IF i > Len(calls) THEN i ELSE Len(calls)
       /\ calls'[i] = With(c, NextName(d, j), NextArgs(d, j))
       /\ \A k \in 1 .. Len(calls') : k # i => calls'[k] = IF k <= Len(calls) THEN calls[k] ELSE NoCall
  <2>1. calls \in Seq(CallType) /\ i \in Nat \ {0} BY <1>2, <1>4, <1>5 DEF Arrived
  <2>2. c = IF i <= Len(calls) THEN calls[i] ELSE NoCall BY DEF c
  <2> QED BY <2>1, <2>2, <1>8, <1>9, Accumulated
<1>11. j \in Nat /\ j > 0 BY <1>5 DEF j
<1>12. FirstPieces(calls'[i], answer.calls[i], j) BY <1>9, <1>10 DEF d
<1>13. line.kind # "none" BY <1>1
<1> QED BY <1>1, <1>4, <1>10, <1>11, <1>12, <1>13, CallsGrow

LEMMA CallsWhole ==
  ASSUME CallsInv, PushWhole PROVE CallsInv'
<1> DEFINE i == line.n
           d == answer.calls[i]
<1>1. /\ line.kind = "whole" /\ Kept /\ parts' = [parts EXCEPT ![i] = Pieces(i)]
      /\ calls' = Append(calls, d)
  BY DEF PushWhole
<1>2. Arrived /\ Pending BY <1>1, PendingStreams
<1>3. i \in DOMAIN parts /\ NextWhole(i) BY <1>1, <1>2 DEF Pending
<1>4. i \in 1 .. Len(answer.calls) BY <1>2, <1>3 DEF Arrived
<1>5. /\ d \in CallType /\ Pieces(i) \in Nat \ {0} /\ Len(calls) \in Nat
      /\ DOMAIN parts = 1 .. Len(answer.calls) /\ Len(answer.calls) \in Nat
      /\ Pieces(i) = Len(d.name) + Len(d.args)
  BY <1>2, <1>4, ArrivedCalls
<1> HIDE DEF i, d
<1>6. calls \in Seq(CallType) /\ Len(calls) <= Len(answer.calls) BY <1>2 DEF Arrived
<1>7. Len(calls) = i - 1
  <2>1. Len(calls) >= i - 1
    <3>1. CASE i = 1 BY <3>1, <1>5
    <3>2. CASE i # 1
      <4>1. i - 1 \in 1 .. Len(answer.calls) /\ i - 1 < i BY <3>2, <1>4
      <4>2. parts[i - 1] = Pieces(i - 1) BY <4>1, <1>3, <1>5 DEF NextWhole, Complete
      <4>3. Pieces(i - 1) \in Nat \ {0} BY <4>1, <1>2, ArrivedCalls
      <4>4. i - 1 <= Len(calls) BY <4>1, <4>2, <4>3, <1>2 DEF Arrived
      <4> QED BY <4>4, <1>4, <1>5
    <3> QED BY <3>1, <3>2
  <2>2. ~(Len(calls) >= i)
    <3> SUFFICES ASSUME Len(calls) >= i PROVE FALSE OBVIOUS
    <3>1. Len(calls) \in 1 .. Len(answer.calls) /\ ~(Len(calls) < i) BY <1>4, <1>5, <1>6
    <3>2. parts[Len(calls)] = 0 BY <3>1, <1>3, <1>5 DEF NextWhole
    <3>3. parts[Len(calls)] > 0 BY <3>1, <1>2 DEF Arrived
    <3> QED BY <3>2, <3>3
  <2> QED BY <2>1, <2>2, <1>4, <1>5
<1>8. /\ calls' \in Seq(CallType) /\ Len(calls') = i /\ calls'[i] = d
      /\ \A k \in 1 .. Len(calls) : calls'[k] = calls[k]
  <2>1. /\ Append(calls, d) \in Seq(CallType) /\ Len(Append(calls, d)) = Len(calls) + 1
        /\ \A k \in 1 .. Len(calls) : Append(calls, d)[k] = calls[k]
        /\ Append(calls, d)[Len(calls) + 1] = d
    BY <1>5, <1>6, AppendProperties
  <2>2. Len(calls) + 1 = i BY <1>4, <1>7
  <2> QED BY <2>1, <2>2, <1>1
<1>9. /\ Len(calls') = (IF i > Len(calls) THEN i ELSE Len(calls))
      /\ \A k \in 1 .. Len(calls') : k # i => calls'[k] = IF k <= Len(calls) THEN calls[k] ELSE NoCall
  BY <1>4, <1>7, <1>8
<1>10. FirstPieces(calls'[i], answer.calls[i], Pieces(i))
  <2>1. FirstPieces(d, d, Pieces(i))
    <3>1. Len(d.name) \in Nat /\ Len(d.args) \in Nat BY <1>2, <1>4, AnswerCalls DEF Arrived, d
    <3> QED BY <3>1, <1>5 DEF FirstPieces, Prefix
  <2> QED BY <2>1, <1>8 DEF d
<1>11. line.kind # "none" BY <1>1
<1>12. Pieces(i) \in Nat /\ Pieces(i) > 0
  <2> DEFINE p == Pieces(i)
  <2>1. p \in Nat \ {0} BY <1>5
  <2> HIDE DEF p
  <2>2. p \in Nat /\ p > 0 BY <2>1
  <2> QED BY <2>2 DEF p
<1> QED BY <1>1, <1>4, <1>8, <1>9, <1>10, <1>11, <1>12, CallsGrow

LEMMA CallsReturned ==
  ASSUME CallsInv, NEW byDone \in BOOLEAN, Finish(byDone) PROVE CallsInv'
<1>1. /\ Streaming /\ (byDone => line.kind = "done") /\ phase' = "done"
      /\ reply' = (IF phase = "native" THEN NativeDocument ELSE Content)
      /\ (done' <=> byDone) /\ line' = NoLine /\ UNCHANGED <<answer, calls>>
  BY DEF Finish, Returned
<1>2. Arrived /\ Pending BY <1>1 DEF CallsInv
<1>3. ASSUME byDone, reply'.kind = "document" PROVE reply'.calls = CallsOf(answer)
  <2>1. calls = answer.calls /\ Named = calls BY <1>1, <1>2, <1>3, AllArrived DEF Pending
  <2>2. got = Len(Text(answer)) BY <1>1, <1>3, <1>2 DEF Pending
  <2>3. answer \in Answers BY <1>2 DEF Arrived
  <2>4. ASSUME Named = <<>>, reply' = Content PROVE reply'.calls = CallsOf(answer)
    <3>1. Unwraps(answer, got) /\ Content.calls = answer.own
      <4>1. Content.kind = "document" BY <1>3, <2>4
      <4>2. Unwraps(answer, got)
        <5>1. ~Unwraps(answer, got) => Content = [NoReply EXCEPT !.kind = "text"] BY DEF Content
        <5>2. [NoReply EXCEPT !.kind = "text"].kind = "text" BY DEF NoReply
        <5> QED BY <4>1, <5>1, <5>2
      <4> QED BY <4>2 DEF Content
    <3>2. AsTools(answer.calls) = <<>>
      <4>1. DOMAIN answer.calls = {} BY <2>1, <2>4
      <4> HIDE DEF ToolNamed
      <4> QED BY <4>1 DEF AsTools
    <3>3. answer.own \in Seq([tool : Seq(STRING), args : Seq(STRING)]) BY <2>3, AnswersAssumption
    <3>4. answer.own \o <<>> = answer.own BY <3>3, ConcatEmptySeq
    <3>5. CallsOf(answer) = answer.own \o AsTools(answer.calls) BY <3>1, <2>1, <2>2, <2>4 DEF CallsOf
    <3> QED BY <3>1, <3>2, <3>4, <3>5, <2>4
  <2>5. CASE phase # "native"
    <3>1. answer.calls = <<>> BY <1>1, <1>2, <2>5 DEF Streaming, Arrived
    <3> QED BY <3>1, <2>1, <2>4, <2>5, <1>1
  <2>6. CASE phase = "native" /\ Named = <<>>
    <3>1. reply' = Content BY <1>1, <2>6 DEF NativeDocument
    <3> QED BY <3>1, <2>4, <2>6
  <2>7. CASE phase = "native" /\ Named # <<>>
    <3>1. CASE \E i \in DOMAIN Named : Named[i].args \notin Objects
      <4>1. reply' = [NoReply EXCEPT !.kind = "error"] BY <1>1, <2>7, <3>1 DEF NativeDocument
      <4>2. reply'.kind = "error" BY <4>1 DEF NoReply
      <4> QED BY <4>2, <1>3
    <3>2. CASE ~(\E i \in DOMAIN Named : Named[i].args \notin Objects)
      <4>1. reply'.calls = (IF Joinable THEN answer.own ELSE <<>>) \o AsTools(Named)
        BY <1>1, <2>7, <3>2 DEF NativeDocument
      <4>2. CallsOf(answer) = (IF Joinable THEN answer.own ELSE <<>>) \o AsTools(answer.calls)
        BY <2>1, <2>2, <2>7 DEF CallsOf, Joinable
      <4> QED BY <4>1, <4>2, <2>1
    <3> QED BY <3>1, <3>2
  <2> QED BY <2>5, <2>6, <2>7
<1> QED BY <1>1, <1>3 DEF CallsInv, Streaming

(* What is not about a stream leaves the calls alone. *)
LEMMA CallsElsewhere ==
  ASSUME CallsInv, ~Streaming, ~Streaming', line' \in {line, NoLine}, phase' # "done"
  PROVE  CallsInv'
BY DEF CallsInv

(* Every tool is offered under a name of its own, and the calls of a stream that   *)
(* ended with [DONE] come back whole and in order, those of its document first and *)
(* the native ones under the names of their tools.                                 *)
(* About accumulate, function_names and native_document.                           *)
THEOREM CallsReturn == AdapterSpec => []CallsComeBack
<1>1. AdapterInit => CallsInv
  BY DEF AdapterInit, CallsInv, Streaming
<1>2. ASSUME CallsInv, [AdapterNext]_adapterVars PROVE CallsInv'
  <2>1. CASE \E m \in Models : Infer(m)
    <3>1. Opens(TRUE) \/ Opens(FALSE) BY <2>1 DEF Infer
    <3> QED BY <3>1, CallsOpen
  <2>2. Refusal => CallsInv' BY CallsOpen DEF Refusal
  <2>3. CASE Interrupted BY <2>2, <2>3, CallsFail DEF Interrupted
  <2>4. CASE Write BY <1>2, <2>4, CallsBegin
  <2>5. CASE PushComment BY <1>2, <2>5, CallsKept DEF PushComment
  <2>6. CASE PushContent BY <1>2, <2>6, CallsKept DEF PushContent
  <2>7. CASE PushPart BY <1>2, <2>7, CallsPart
  <2>8. CASE PushWhole BY <1>2, <2>8, CallsWhole
  <2>9. CASE PushGarbage BY <2>9, CallsFail DEF PushGarbage
  <2>10. CASE PushError BY <2>2, <2>10, CallsFail DEF PushError
  <2>11. CASE \E byDone \in BOOLEAN : Finish(byDone) BY <1>2, <2>11, CallsReturned
  <2>12. CASE Rest BY <1>2, <2>12, CallsElsewhere DEF Rest, Streaming
  <2>13. CASE \E kind \in {"relevance", "decide", "classify"} : Ask(kind)
    BY <1>2, <2>13, CallsElsewhere DEF Ask, Streaming, stream
  <2>14. CASE \E b \in open : \E given \in SUBSET Batches[b] : Answered(b, given)
    BY <1>2, <2>14, CallsElsewhere DEF Answered, Asking, Streaming, stream
  <2>15. CASE Scored BY <1>2, <2>15, CallsElsewhere DEF Scored, Asking, Streaming, stream
  <2>16. CASE AskFails BY <1>2, <2>16, CallsElsewhere DEF AskFails, Asking, Streaming, stream
  <2>17. CASE UNCHANGED adapterVars
    BY <1>2, <2>17 DEF adapterVars, stream, CallsInv, Streaming, Arrived, Pending, NextWhole, Complete,
                       Pieces
  <2> QED
    BY <1>2, <2>1, <2>3, <2>4, <2>5, <2>6, <2>7, <2>8, <2>9, <2>10, <2>11, <2>12, <2>13, <2>14,
       <2>15, <2>16, <2>17
    DEF AdapterNext
<1>3. CallsInv => CallsComeBack
  <2>1. DOMAIN Tools = 1 .. Len(Tools) BY NamesAssumption
  <2>2. \A i \in DOMAIN Tools : \E f \in DOMAIN FunctionNames : FunctionNames[f] = Tools[i]
    BY <2>1, EveryToolIsOffered DEF Offers
  <2> QED BY <2>2 DEF CallsInv, CallsComeBack
<1> QED BY <1>1, <1>2, <1>3, PTL DEF AdapterSpec
================================================================================
