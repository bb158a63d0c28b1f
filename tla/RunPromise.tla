------------------------------- MODULE RunPromise -------------------------------
(***************************************************************************)
(* What a run promises to whoever reads its events: it starts once, in a   *)
(* project without another running run; its tool calls come one at a time, *)
(* each requested, then decided, then, only if allowed, completed; it      *)
(* completes only with no call open; and once it ended it stays ended.     *)
(***************************************************************************)
CONSTANTS Runs, Projects, NoProject

VARIABLES
    project,   \* the project of each run
    phase,     \* "absent", "running", "completed" or "failed"
    call       \* its open call: "none", "requested" or "allowed"

promiseVars == <<project, phase, call>>

Init ==
    /\ project = [r \in Runs |-> NoProject]
    /\ phase = [r \in Runs |-> "absent"]
    /\ call = [r \in Runs |-> "none"]

Start(r, p) ==
    /\ phase[r] = "absent"
    /\ \A other \in Runs : project[other] = p => phase[other] # "running"
    /\ project' = [project EXCEPT ![r] = p]
    /\ phase' = [phase EXCEPT ![r] = "running"]
    /\ UNCHANGED call

(* A running run's open call changes. *)
Call(r, before, after) ==
    /\ phase[r] = "running"
    /\ call[r] = before
    /\ call' = [call EXCEPT ![r] = after]
    /\ UNCHANGED <<project, phase>>

Request(r) == Call(r, "none", "requested")
Allow(r) == Call(r, "requested", "allowed")
Deny(r) == Call(r, "requested", "none")
Return(r) == Call(r, "allowed", "none")

Complete(r) ==
    /\ phase[r] = "running"
    /\ call[r] = "none"
    /\ phase' = [phase EXCEPT ![r] = "completed"]
    /\ UNCHANGED <<project, call>>

(* One run fails, or a recovery fails several at once, calls open or not. *)
Fail(R) ==
    /\ R # {}
    /\ \A r \in R : phase[r] = "running"
    /\ phase' = [r \in Runs |-> IF r \in R THEN "failed" ELSE phase[r]]
    /\ UNCHANGED <<project, call>>

Next ==
    \/ \E r \in Runs, p \in Projects : Start(r, p)
    \/ \E r \in Runs : Request(r) \/ Allow(r) \/ Deny(r) \/ Return(r) \/ Complete(r)
    \/ \E R \in SUBSET Runs : Fail(R)

Spec == Init /\ [][Next]_promiseVars
================================================================================
