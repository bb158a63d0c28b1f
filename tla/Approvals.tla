------------------------------- MODULE Approvals -------------------------------
(***************************************************************************)
(* Tool-call approvals: the gate a run's tool calls pass (decide, answer   *)
(* and Waiting, crates/dagos/src/approvals.rs) and the HTTP handler of a   *)
(* person's answer (answer_tool_call, server.rs).                          *)
(*                                                                         *)
(* The gate of each call runs in its run's task, the handlers and the      *)
(* edits of policies on other threads; each action is one critical section *)
(* of them, or one await.  Calls are made by different runs or one after   *)
(* another, and a call identifier is used once (see Runtime).              *)
(*                                                                         *)
(* The guard (guard.rs) finds a concern or none, freely; that it asks Jev  *)
(* in windows under a deadline is left out.  The policies in force are     *)
(* those of mcp.json (see ToolConfig for how they come apart).             *)
(***************************************************************************)
EXTENDS Naturals, FiniteSets

CONSTANTS
    Calls, Tools,
    Tool,         \* the tool of each call
    Named,        \* the other tools of its server that its arguments name
    Answers,      \* answers of people handled at a time
    MaxEdits      \* bound: edits of the policies

ASSUME CallsAssumption ==
    /\ Tool \in [Calls -> Tools]
    /\ Named \in [Calls -> SUBSET Tools]
    /\ \A c \in Calls : Tool[c] \notin Named[c]
ASSUME BoundsAssumption == MaxEdits \in Nat

VARIABLES
    policy, guardOn,     \* config: the tools' policies, and the guard's switch
    edits,               \* bound: edits so far
    interactive,         \* whether there is an app to ask in, set once at start
    pending, escalations, \* Approvals::pending (its keys), Approvals::escalations
    \* The gate of each call: its step, the policies it read, whether it asks
    \* the guard, the guard's concern, its channel, and the decision.
    at, snapshot, guarding, guarded, channel, decision,
    \* The handlers of answers, and what they have acknowledged.
    answering, told,
    remembered           \* calls whose tools "always allow" has set to allow

config == <<policy, guardOn, edits, interactive>>
tables == <<pending, escalations>>
gate == <<at, snapshot, guarding, guarded, channel, decision>>
people == <<answering, told, remembered>>
vars == <<policy, guardOn, edits, interactive, pending, escalations, at, snapshot, guarding,
          guarded, channel, decision, answering, told, remembered>>

Policies == {"allow", "ask", "off"}
NoEscalation == [asking |-> {}, guarded |-> FALSE]    \* Escalation::default
Escalation == [asking : SUBSET Tools, guarded : BOOLEAN]

Idle == [step |-> "idle"]
Answering == {Idle} \cup
    [step : {"escalation", "remember", "answer"}, call : Calls,
     answer : {"allow", "deny"}, asking : SUBSET Tools]

Steps == {"idle", "settings", "guard", "escalate", "register", "waiting",
          "expired", "leaving", "forgetting", "decided"}
Decisions == {"none", "allowed by policy", "denied by policy", "allowed by user",
              "denied by user", "denied by timeout", "stopped"}

Init ==
    /\ policy \in [Tools -> Policies]
    /\ guardOn \in BOOLEAN
    /\ edits = 0
    /\ interactive \in BOOLEAN
    /\ pending = {}
    /\ escalations = [c \in {} |-> NoEscalation]
    /\ at = [c \in Calls |-> "idle"]
    /\ snapshot = [c \in Calls |-> [t \in Tools |-> "unread"]]
    /\ guarding = [c \in Calls |-> FALSE]
    /\ guarded = [c \in Calls |-> FALSE]
    /\ channel = [c \in Calls |-> "none"]
    /\ decision = [c \in Calls |-> "none"]
    /\ answering = [h \in Answers |-> Idle]
    /\ told = [c \in Calls |-> "none"]
    /\ remembered = {}

Goto(c, step) == at' = [at EXCEPT ![c] = step]

Decide(c, d, step) ==
    /\ decision' = [decision EXCEPT ![c] = d]
    /\ Goto(c, step)

--------------------------------------------------------------------------------
(* Policies *)

(* Mutant of Concerned: only the call's own tool counts. *)
OwnTool(c) == {Tool[c]}

(* The tools whose policies decide a call. *)
Concerned(c) == {Tool[c]} \cup Named[c]

(* effective_policy: the strictest of them. *)
Effective(c, p) ==
    IF \E t \in Concerned(c) : p[t] = "off" THEN "off"
    ELSE IF \E t \in Concerned(c) : p[t] = "ask" THEN "ask" ELSE "allow"

Asking(c) == {t \in Named[c] : snapshot[c][t] = "ask"}

(* set_tool_policy and set_guard *)
EditPolicy(t, p) ==
    /\ edits < MaxEdits /\ policy[t] # p
    /\ policy' = [policy EXCEPT ![t] = p]
    /\ edits' = edits + 1
    /\ UNCHANGED <<guardOn, interactive, tables, gate, people>>

SwitchGuard ==
    /\ edits < MaxEdits
    /\ guardOn' = ~guardOn
    /\ edits' = edits + 1
    /\ UNCHANGED <<policy, interactive, tables, gate, people>>

--------------------------------------------------------------------------------
(* decide *)

(* effective_policy takes the lock for each policy_of. *)
ReadPolicy(c) ==
    /\ at[c] = "idle"
    /\ \E t \in Concerned(c) :
         /\ snapshot[c][t] = "unread"
         /\ snapshot' = [snapshot EXCEPT ![c][t] = policy[t]]
    /\ UNCHANGED <<config, tables, at, guarding, guarded, channel, decision, people>>

WeighPolicies(c) ==
    /\ at[c] = "idle"
    /\ \A t \in Concerned(c) : snapshot[c][t] # "unread"
    /\ IF Effective(c, snapshot[c]) = "off"
       THEN Decide(c, "denied by policy", "decided")
       ELSE Goto(c, "settings") /\ UNCHANGED decision
    /\ UNCHANGED <<config, tables, snapshot, guarding, guarded, channel, people>>

ReadSettings(c) ==
    /\ at[c] = "settings"
    /\ guarding' = [guarding EXCEPT ![c] = guardOn]
    /\ Goto(c, "guard")
    /\ UNCHANGED <<config, tables, snapshot, guarded, channel, decision, people>>

(* The guard answers: an allowed call without a concern runs; any other needs
   a person. *)
Assess(c) ==
    /\ at[c] = "guard"
    /\ \E concern \in IF guarding[c] THEN BOOLEAN ELSE {FALSE} :
         /\ guarded' = [guarded EXCEPT ![c] = concern]
         /\ IF Effective(c, snapshot[c]) = "allow" /\ ~concern
            THEN Decide(c, "allowed by policy", "decided")
            ELSE IF ~interactive THEN Decide(c, "denied by policy", "decided")
            ELSE Goto(c, "escalate") /\ UNCHANGED decision
    /\ UNCHANGED <<config, tables, snapshot, guarding, channel, people>>

(* The escalations with that of c. *)
Explained(c) ==
    [d \in DOMAIN escalations \cup {c} |->
        IF d = c THEN [asking |-> Asking(c), guarded |-> guarded[c]] ELSE escalations[d]]

(* Mutant of Escalate: the call is pending before its escalation is there. *)
EscalateLate(c) ==
    /\ at[c] = "escalate"
    /\ pending' = pending \cup {c}
    /\ Goto(c, "register")
    /\ UNCHANGED <<config, escalations, snapshot, guarding, guarded, channel, decision, people>>

(* The reason is there before the call is pending. *)
Escalate(c) ==
    /\ at[c] = "escalate"
    /\ escalations' = Explained(c)
    /\ Goto(c, "register")
    /\ UNCHANGED <<config, pending, snapshot, guarding, guarded, channel, decision, people>>

Register(c) ==
    /\ at[c] = "register"
    /\ pending' = pending \cup {c}
    /\ Goto(c, "waiting")
    /\ UNCHANGED <<config, escalations, snapshot, guarding, guarded, channel, decision, people>>

Answered(c) ==
    /\ at[c] = "waiting" /\ channel[c] # "none"
    /\ Decide(c, IF channel[c] = "allow" THEN "allowed by user" ELSE "denied by user",
              "leaving")
    /\ UNCHANGED <<config, tables, snapshot, guarding, guarded, channel, people>>

(* Mutant of Expire: only a call whose answer is being handled expires. *)
ExpireAsked(c) ==
    /\ at[c] = "waiting" /\ channel[c] = "none"
    /\ \E h \in Answers : answering[h] # Idle /\ answering[h].call = c
    /\ Decide(c, "denied by timeout", "expired")
    /\ UNCHANGED <<config, tables, snapshot, guarding, guarded, channel, people>>

(* The timeout has elapsed; the receiver is dropped next. *)
Expire(c) ==
    /\ at[c] = "waiting" /\ channel[c] = "none"
    /\ Decide(c, "denied by timeout", "expired")
    /\ UNCHANGED <<config, tables, snapshot, guarding, guarded, channel, people>>

DropReceiver(c) ==
    /\ at[c] = "expired"
    /\ Goto(c, "leaving")
    /\ UNCHANGED <<config, tables, snapshot, guarding, guarded, channel, decision, people>>

(* The run is stopped, which drops the gate at its await. *)
Stop(c) ==
    /\ \/ at[c] = "guard" /\ guarding[c] /\ Decide(c, "stopped", "decided")
       \/ at[c] = "waiting" /\ Decide(c, "stopped", "leaving")
    /\ UNCHANGED <<config, tables, snapshot, guarding, guarded, channel, people>>

(* Waiting is dropped, however the wait ended. *)
Unregister(c) ==
    /\ at[c] = "leaving"
    /\ pending' = pending \ {c}
    /\ Goto(c, "forgetting")
    /\ UNCHANGED <<config, escalations, snapshot, guarding, guarded, channel, decision, people>>

Forget(c) ==
    /\ at[c] = "forgetting"
    /\ escalations' = [d \in DOMAIN escalations \ {c} |-> escalations[d]]
    /\ Goto(c, "decided")
    /\ UNCHANGED <<config, pending, snapshot, guarding, guarded, channel, decision, people>>

--------------------------------------------------------------------------------
(* answer_tool_call *)

Handle(h, v) == answering' = [answering EXCEPT ![h] = v]

(* A call that is not pending is a conflict. *)
CheckPending(h, c, answer, remember) ==
    /\ answering[h] = Idle
    /\ c \in pending
    /\ Handle(h, [step |-> IF remember /\ answer = "allow" THEN "escalation" ELSE "answer",
                  call |-> c, answer |-> answer, asking |-> {}])
    /\ UNCHANGED <<config, tables, gate, told, remembered>>

(* "Always allow" is refused for a call the guard flagged. *)
ReadEscalation(h) ==
    /\ answering[h].step = "escalation"
    /\ LET c == answering[h].call
           e == IF c \in DOMAIN escalations THEN escalations[c] ELSE NoEscalation
       IN Handle(h, IF e.guarded THEN Idle
                    ELSE [answering[h] EXCEPT !.step = "remember", !.asking = e.asking])
    /\ UNCHANGED <<config, tables, gate, told, remembered>>

(* Under tool_edit_lock: the policies of the tool and of those that made the
   call ask are set to allow, saved and applied. *)
Remember(h) ==
    /\ answering[h].step = "remember"
    /\ LET c == answering[h].call  allowed == {Tool[c]} \cup answering[h].asking
       IN /\ policy' = [t \in Tools |-> IF t \in allowed THEN "allow" ELSE policy[t]]
          /\ remembered' = remembered \cup {c}
    /\ Handle(h, [answering[h] EXCEPT !.step = "answer"])
    /\ UNCHANGED <<guardOn, edits, interactive, tables, gate, told>>

(* Mutant of Answer: the sender stays, as if its send could be repeated. *)
AnswerAgain(h) ==
    /\ answering[h].step = "answer"
    /\ LET c == answering[h].call  a == answering[h].answer
           sent == c \in pending /\ at[c] \in {"waiting", "expired"}
       IN /\ channel' = [channel EXCEPT ![c] = IF sent THEN a ELSE @]
          /\ told' = [told EXCEPT ![c] = IF sent THEN a ELSE @]
    /\ Handle(h, Idle)
    /\ UNCHANGED <<config, tables, at, snapshot, guarding, guarded, decision, remembered>>

(* answer: takes the sender, whose send fails once the receiver is dropped;
   the response says whether it did. *)
Answer(h) ==
    /\ answering[h].step = "answer"
    /\ LET c == answering[h].call  a == answering[h].answer
           sent == c \in pending /\ at[c] \in {"waiting", "expired"}
       IN /\ pending' = pending \ {c}
          /\ channel' = [channel EXCEPT ![c] = IF sent THEN a ELSE @]
          /\ told' = [told EXCEPT ![c] = IF sent THEN a ELSE @]
    /\ Handle(h, Idle)
    /\ UNCHANGED <<config, escalations, at, snapshot, guarding, guarded, decision, remembered>>

GateStep(c) ==
    \/ ReadPolicy(c) \/ WeighPolicies(c) \/ ReadSettings(c) \/ Assess(c)
    \/ Escalate(c) \/ Register(c) \/ Answered(c) \/ Expire(c) \/ DropReceiver(c) \/ Unregister(c) \/ Forget(c)

AnswerStep(h) == ReadEscalation(h) \/ Remember(h) \/ Answer(h)

Next ==
    \/ \E c \in Calls : GateStep(c) \/ Stop(c)
    \/ \E h \in Answers :
         \/ AnswerStep(h)
         \/ \E c \in Calls, a \in {"allow", "deny"}, remember \in BOOLEAN :
              CheckPending(h, c, a, remember)
    \/ \E t \in Tools, p \in Policies : EditPolicy(t, p)
    \/ SwitchGuard

Spec == Init /\ [][Next]_vars

(* The guard and the wait have deadlines; people need not answer. *)
Fairness == \A c \in Calls : WF_vars(GateStep(c))

FairSpec == Spec /\ Fairness

--------------------------------------------------------------------------------
TypeOK ==
    /\ policy \in [Tools -> Policies]
    /\ guardOn \in BOOLEAN
    /\ edits \in 0 .. MaxEdits
    /\ interactive \in BOOLEAN
    /\ pending \subseteq Calls
    /\ DOMAIN escalations \subseteq Calls
    /\ \A c \in DOMAIN escalations : escalations[c] \in Escalation
    /\ at \in [Calls -> Steps]
    /\ snapshot \in [Calls -> [Tools -> Policies \cup {"unread"}]]
    /\ guarding \in [Calls -> BOOLEAN]
    /\ guarded \in [Calls -> BOOLEAN]
    /\ channel \in [Calls -> {"none", "allow", "deny"}]
    /\ decision \in [Calls -> Decisions]
    /\ answering \in [Answers -> Answering]
    /\ told \in [Calls -> {"none", "allow", "deny"}]
    /\ remembered \subseteq Calls

(* No call runs on less than the strictest of the policies its gate read: by
   policy, only if all of its tools were allowed and the guard had no concern;
   by a person, only if none was off and a handler has sent that person's allow
   (FR-027: checks only tighten). *)
AllowedCallsAreEarned ==
    \A c \in Calls :
        /\ decision[c] = "allowed by policy" =>
              ~guarded[c] /\ \A t \in {Tool[c]} \cup Named[c] : snapshot[c][t] = "allow"
        /\ decision[c] = "allowed by user" =>
              /\ interactive /\ told[c] = "allow"
              /\ \A t \in {Tool[c]} \cup Named[c] : snapshot[c][t] # "off"

(* Whoever finds a call pending finds out why it asks, if it still does: the
   reason is there first and goes last, however the wait ends.  So no answer that
   can still count has set the tools of a call the guard flagged to allow. *)
PendingCallsAreExplained ==
    \A c \in pending :
        /\ c \in DOMAIN escalations /\ escalations[c].guarded = guarded[c]
        /\ ~(guarded[c] /\ c \in remembered)

(* The first answer acknowledged for a call is the only one: a second handler
   is told that nothing is waiting. *)
FirstAnswerStands == [][\A c \in Calls : told[c] # "none" => told'[c] = told[c]]_vars

(* Nobody waits for ever for a person. *)
QuestionsEnd == \A c \in Calls : at[c] = "waiting" ~> at[c] = "decided"
================================================================================
