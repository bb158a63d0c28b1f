----------------------------- MODULE ApprovalProofs -----------------------------
(***************************************************************************)
(* Proofs about approvals: types, that a call is allowed only by what its  *)
(* gate read or by a person who was asked, that a pending call has its     *)
(* reason, and that the first answer acknowledged is the only one.         *)
(***************************************************************************)
EXTENDS Approvals, TLAPS

--------------------------------------------------------------------------------
(* The inductive invariant *)

Asked == {"register", "waiting", "expired", "leaving", "forgetting"}

(* What is known of a call at each step of its gate: its policies were weighed,
   it is asked about only in an app, and a decision has its grounds. *)
PermitOK(c) ==
    /\ at[c] \in {"settings", "guard", "escalate"} \cup Asked =>
          \A t \in Concerned(c) : snapshot[c][t] \in {"allow", "ask"}
    /\ at[c] \in {"escalate"} \cup Asked => interactive
    /\ decision[c] # "none" => at[c] \in {"expired", "leaving", "forgetting", "decided"}
    /\ decision[c] = "allowed by policy" =>
          ~guarded[c] /\ \A t \in Concerned(c) : snapshot[c][t] = "allow"
    /\ decision[c] = "allowed by user" =>
          /\ interactive /\ told[c] = "allow"
          /\ \A t \in Concerned(c) : snapshot[c][t] # "off"

(* The tables: a call is pending while its gate waits for it, and has its
   escalation for longer; an answered call is not pending again. *)
TablesOK(c) ==
    /\ c \in pending => at[c] \in {"waiting", "expired", "leaving"}
    /\ at[c] \in Asked => c \in DOMAIN escalations /\ escalations[c].guarded = guarded[c]
    /\ told[c] # "none" =>
          c \notin pending /\ at[c] \in {"waiting", "expired", "leaving", "forgetting", "decided"}
    /\ channel[c] = told[c]

IInv ==
    /\ TypeOK
    /\ \A c \in Calls : PermitOK(c)
    /\ \A c \in Calls : TablesOK(c)

LEMMA InitIInv == Init => IInv
PROOF
<1> SUFFICES ASSUME Init PROVE IInv
  OBVIOUS
<1>1. TypeOK
  BY BoundsAssumption DEF Init, TypeOK, Answering, Steps, Decisions
<1>2. \A c \in Calls : PermitOK(c) /\ TablesOK(c)
  BY DEF Init, PermitOK, TablesOK, Asked
<1> QED
  BY <1>1, <1>2 DEF IInv

LEMMA ConcernedTools == \A c \in Calls : Concerned(c) \subseteq Tools
BY CallsAssumption DEF Concerned

--------------------------------------------------------------------------------
(* Steps change one call at most *)

(* A step leaves what PermitOK and TablesOK say of d alone. *)
Same(d) ==
    /\ at'[d] = at[d] /\ snapshot'[d] = snapshot[d] /\ guarded'[d] = guarded[d]
    /\ channel'[d] = channel[d] /\ decision'[d] = decision[d] /\ told'[d] = told[d]
    /\ interactive' = interactive
    /\ d \in pending' <=> d \in pending
    /\ d \in DOMAIN escalations' <=> d \in DOMAIN escalations
    /\ d \in DOMAIN escalations => escalations'[d] = escalations[d]

LEMMA SameKeeps ==
    ASSUME NEW d \in Calls, PermitOK(d), TablesOK(d), Same(d)
    PROVE  PermitOK(d)' /\ TablesOK(d)'
BY DEF PermitOK, TablesOK, Same, Concerned

LEMMA OneCall ==
    ASSUME IInv, NEW c \in Calls, TypeOK', PermitOK(c)', TablesOK(c)',
           \A d \in Calls \ {c} : Same(d)
    PROVE  IInv'
PROOF
<1>1. \A d \in Calls \ {c} : PermitOK(d)' /\ TablesOK(d)'
  BY SameKeeps DEF IInv
<1>2. \A d \in Calls : PermitOK(d)'
  BY <1>1
<1>3. \A d \in Calls : TablesOK(d)'
  BY <1>1
<1> QED
  BY <1>2, <1>3 DEF IInv

LEMMA NoCall ==
    ASSUME IInv, TypeOK', \A d \in Calls : Same(d)
    PROVE  IInv'
BY SameKeeps DEF IInv

--------------------------------------------------------------------------------
(* The gate *)

LEMMA ReadPolicyIInv == ASSUME IInv, NEW c \in Calls, ReadPolicy(c) PROVE IInv'
PROOF
<1> USE DEF ReadPolicy, config, tables, people
<1>1. PICK t \in Concerned(c) : snapshot' = [snapshot EXCEPT ![c][t] = policy[t]]
  OBVIOUS
<1>2. TypeOK'
  BY <1>1, ConcernedTools DEF IInv, TypeOK
<1>3. \A d \in Calls \ {c} : Same(d)
  BY <1>1 DEF IInv, TypeOK, Same
<1>4. PermitOK(c)'
  BY DEF IInv, PermitOK, Asked, Concerned
<1>5. TablesOK(c)'
  BY DEF IInv, TablesOK, Asked
<1> QED
  BY <1>2, <1>3, <1>4, <1>5, OneCall

(* Once weighed, no policy of the call is off or unread. *)
LEMMA WeighPoliciesIInv == ASSUME IInv, NEW c \in Calls, WeighPolicies(c) PROVE IInv'
PROOF
<1> USE DEF WeighPolicies, config, tables, people
<1>1. \/ /\ at' = [at EXCEPT ![c] = "decided"]
         /\ decision' = [decision EXCEPT ![c] = "denied by policy"]
      \/ /\ \A t \in Concerned(c) : snapshot[c][t] # "off"
         /\ at' = [at EXCEPT ![c] = "settings"]
         /\ decision' = decision
  BY DEF Decide, Goto, Effective
<1>2. \A t \in Concerned(c) : snapshot[c][t] \in Policies
  <2>1. snapshot[c] \in [Tools -> Policies \cup {"unread"}]
    BY DEF IInv, TypeOK
  <2>2. Concerned(c) \subseteq Tools
    BY ConcernedTools
  <2> QED
    BY <2>1, <2>2
<1>3. TypeOK'
  BY <1>1 DEF IInv, TypeOK, Steps, Decisions
<1>4. \A d \in Calls \ {c} : Same(d)
  BY <1>1 DEF IInv, TypeOK, Same
<1>5. decision[c] = "none"
  BY DEF IInv, PermitOK
<1>6. PermitOK(c)'
  <2>1. PermitOK(c) /\ at \in [Calls -> Steps] /\ decision \in [Calls -> Decisions]
    BY DEF IInv, TypeOK
  <2> QED
    BY <1>1, <1>2, <1>5, <2>1 DEF PermitOK, Asked, Policies
<1>7. TablesOK(c)'
  BY <1>1 DEF IInv, TypeOK, TablesOK, Asked
<1> QED
  BY <1>3, <1>4, <1>6, <1>7, OneCall

LEMMA ReadSettingsIInv == ASSUME IInv, NEW c \in Calls, ReadSettings(c) PROVE IInv'
PROOF
<1> USE DEF ReadSettings, Goto, config, tables, people
<1>1. TypeOK'
  BY DEF IInv, TypeOK, Steps
<1>2. \A d \in Calls \ {c} : Same(d)
  BY DEF IInv, TypeOK, Same
<1>3. PermitOK(c)'
  <2>1. PermitOK(c) /\ at \in [Calls -> Steps]
    BY DEF IInv, TypeOK
  <2> QED
    BY <2>1 DEF PermitOK, Asked
<1>4. TablesOK(c)'
  BY DEF IInv, TypeOK, TablesOK, Asked
<1> QED
  BY <1>1, <1>2, <1>3, <1>4, OneCall

(* The verdict: only a call with every policy at allow and no concern passes. *)
LEMMA AssessIInv == ASSUME IInv, NEW c \in Calls, Assess(c) PROVE IInv'
PROOF
<1> USE DEF config, tables, people
<1>1. PICK concern \in BOOLEAN :
          /\ guarded' = [guarded EXCEPT ![c] = concern]
          /\ IF Effective(c, snapshot[c]) = "allow" /\ ~concern
             THEN Decide(c, "allowed by policy", "decided")
             ELSE IF ~interactive THEN Decide(c, "denied by policy", "decided")
             ELSE Goto(c, "escalate") /\ UNCHANGED decision
  BY DEF Assess
<1>2. at[c] = "guard" /\ UNCHANGED <<config, tables, snapshot, guarding, channel, people>>
  BY DEF Assess
<1>3. \A t \in Concerned(c) : snapshot[c][t] \in {"allow", "ask"}
  BY <1>2 DEF IInv, PermitOK
<1>4. decision[c] = "none" /\ c \notin pending /\ told[c] = "none" /\ channel[c] = "none"
  BY <1>2 DEF IInv, PermitOK, TablesOK
<1>5. /\ PermitOK(c) /\ at \in [Calls -> Steps]
      /\ decision \in [Calls -> Decisions] /\ guarded \in [Calls -> BOOLEAN]
  BY DEF IInv, TypeOK
<1>6. CASE Effective(c, snapshot[c]) = "allow" /\ ~concern
  <2>1. /\ at' = [at EXCEPT ![c] = "decided"]
        /\ decision' = [decision EXCEPT ![c] = "allowed by policy"]
    BY <1>1, <1>6 DEF Decide, Goto
  <2>2. \A t \in Concerned(c) : snapshot[c][t] = "allow"
    BY <1>3, <1>6 DEF Effective
  <2>3. TypeOK'
    BY <1>1, <1>2, <2>1 DEF IInv, TypeOK, Steps, Decisions
  <2>4. \A d \in Calls \ {c} : Same(d)
    BY <1>1, <1>2, <2>1 DEF IInv, TypeOK, Same
  <2>5. PermitOK(c)'
    BY <1>1, <1>2, <1>5, <1>6, <2>1, <2>2 DEF PermitOK, Asked
  <2>6. TablesOK(c)'
    BY <1>2, <1>4, <2>1 DEF IInv, TypeOK, TablesOK, Asked
  <2> QED
    BY <2>3, <2>4, <2>5, <2>6, OneCall
<1>7. CASE ~(Effective(c, snapshot[c]) = "allow" /\ ~concern) /\ ~interactive
  <2>1. /\ at' = [at EXCEPT ![c] = "decided"]
        /\ decision' = [decision EXCEPT ![c] = "denied by policy"]
    BY <1>1, <1>7 DEF Decide, Goto
  <2>2. TypeOK'
    BY <1>1, <1>2, <2>1 DEF IInv, TypeOK, Steps, Decisions
  <2>3. \A d \in Calls \ {c} : Same(d)
    BY <1>1, <1>2, <2>1 DEF IInv, TypeOK, Same
  <2>4. PermitOK(c)'
    BY <1>2, <1>5, <2>1 DEF PermitOK, Asked
  <2>5. TablesOK(c)'
    BY <1>2, <1>4, <2>1 DEF IInv, TypeOK, TablesOK, Asked
  <2> QED
    BY <2>2, <2>3, <2>4, <2>5, OneCall
<1>8. CASE ~(Effective(c, snapshot[c]) = "allow" /\ ~concern) /\ interactive
  <2>1. at' = [at EXCEPT ![c] = "escalate"] /\ decision' = decision
    BY <1>1, <1>8 DEF Goto
  <2>2. TypeOK'
    BY <1>1, <1>2, <2>1 DEF IInv, TypeOK, Steps
  <2>3. \A d \in Calls \ {c} : Same(d)
    BY <1>1, <1>2, <2>1 DEF IInv, TypeOK, Same
  <2>4. PermitOK(c)'
    BY <1>2, <1>3, <1>4, <1>5, <1>8, <2>1 DEF PermitOK, Asked
  <2>5. TablesOK(c)'
    BY <1>2, <1>4, <2>1 DEF IInv, TypeOK, TablesOK, Asked
  <2> QED
    BY <2>2, <2>3, <2>4, <2>5, OneCall
<1> QED
  BY <1>6, <1>7, <1>8 DEF IInv, TypeOK

LEMMA EscalateIInv == ASSUME IInv, NEW c \in Calls, Escalate(c) PROVE IInv'
PROOF
<1> USE DEF Escalate, Goto, config, people
<1>1. /\ DOMAIN escalations' = DOMAIN escalations \cup {c}
      /\ escalations'[c] = [asking |-> Asking(c), guarded |-> guarded[c]]
      /\ \A d \in DOMAIN escalations \ {c} : escalations'[d] = escalations[d]
  BY DEF Explained
<1>2. Asking(c) \subseteq Tools
  BY CallsAssumption DEF Asking
<1>3. guarded[c] \in BOOLEAN
  BY DEF IInv, TypeOK
<1>4. escalations'[c] \in Escalation
  BY <1>1, <1>2, <1>3 DEF Escalation
<1>5. TypeOK'
  BY <1>1, <1>4 DEF IInv, TypeOK, Steps
<1>6. \A d \in Calls \ {c} : Same(d)
  BY <1>1 DEF IInv, TypeOK, Same
<1>7. PermitOK(c)'
  BY DEF IInv, TypeOK, PermitOK, Asked, Concerned
<1>8. TablesOK(c)'
  BY <1>1 DEF IInv, TypeOK, TablesOK, Asked
<1> QED
  BY <1>5, <1>6, <1>7, <1>8, OneCall

LEMMA RegisterIInv == ASSUME IInv, NEW c \in Calls, Register(c) PROVE IInv'
PROOF
<1> USE DEF Register, Goto, config, people
<1>1. TypeOK'
  BY DEF IInv, TypeOK, Steps, Decisions
<1>2. \A d \in Calls \ {c} : Same(d)
  BY DEF IInv, TypeOK, Same
<1>3. PermitOK(c)'
  <2>1. PermitOK(c) /\ TablesOK(c) /\ at \in [Calls -> Steps] /\ decision \in [Calls -> Decisions]
    BY DEF IInv, TypeOK
  <2> QED
    BY <2>1 DEF PermitOK, TablesOK, Asked
<1>4. TablesOK(c)'
  BY DEF IInv, TypeOK, TablesOK, Asked
<1> QED
  BY <1>1, <1>2, <1>3, <1>4, OneCall

(* What the channel holds is what a handler has sent. *)
LEMMA AnsweredIInv == ASSUME IInv, NEW c \in Calls, Answered(c) PROVE IInv'
PROOF
<1> USE DEF Answered, Decide, Goto, config, tables, people
<1>1. TypeOK'
  BY DEF IInv, TypeOK, Steps, Decisions
<1>2. \A d \in Calls \ {c} : Same(d)
  BY DEF IInv, TypeOK, Same
<1>3. PermitOK(c)'
  <2>1. PermitOK(c) /\ TablesOK(c) /\ at \in [Calls -> Steps] /\ decision \in [Calls -> Decisions]
    BY DEF IInv, TypeOK
  <2> QED
    BY <2>1 DEF PermitOK, TablesOK, Asked
<1>4. TablesOK(c)'
  BY DEF IInv, TypeOK, TablesOK, Asked
<1> QED
  BY <1>1, <1>2, <1>3, <1>4, OneCall

LEMMA ExpireIInv == ASSUME IInv, NEW c \in Calls, Expire(c) PROVE IInv'
PROOF
<1> USE DEF Expire, Decide, Goto, config, tables, people
<1>1. TypeOK'
  BY DEF IInv, TypeOK, Steps, Decisions
<1>2. \A d \in Calls \ {c} : Same(d)
  BY DEF IInv, TypeOK, Same
<1>3. PermitOK(c)'
  <2>1. PermitOK(c) /\ TablesOK(c) /\ at \in [Calls -> Steps] /\ decision \in [Calls -> Decisions]
    BY DEF IInv, TypeOK
  <2> QED
    BY <2>1 DEF PermitOK, TablesOK, Asked
<1>4. TablesOK(c)'
  BY DEF IInv, TypeOK, TablesOK, Asked
<1> QED
  BY <1>1, <1>2, <1>3, <1>4, OneCall

LEMMA DropReceiverIInv == ASSUME IInv, NEW c \in Calls, DropReceiver(c) PROVE IInv'
PROOF
<1> USE DEF DropReceiver, Goto, config, tables, people
<1>1. TypeOK'
  BY DEF IInv, TypeOK, Steps, Decisions
<1>2. \A d \in Calls \ {c} : Same(d)
  BY DEF IInv, TypeOK, Same
<1>3. PermitOK(c)'
  <2>1. PermitOK(c) /\ TablesOK(c) /\ at \in [Calls -> Steps] /\ decision \in [Calls -> Decisions]
    BY DEF IInv, TypeOK
  <2> QED
    BY <2>1 DEF PermitOK, TablesOK, Asked
<1>4. TablesOK(c)'
  BY DEF IInv, TypeOK, TablesOK, Asked
<1> QED
  BY <1>1, <1>2, <1>3, <1>4, OneCall

LEMMA StopIInv == ASSUME IInv, NEW c \in Calls, Stop(c) PROVE IInv'
PROOF
<1> USE DEF Stop, Decide, Goto, config, tables, people
<1>1. TypeOK'
  BY DEF IInv, TypeOK, Steps, Decisions
<1>2. \A d \in Calls \ {c} : Same(d)
  BY DEF IInv, TypeOK, Same
<1>3. PermitOK(c)'
  <2>1. PermitOK(c) /\ TablesOK(c) /\ at \in [Calls -> Steps] /\ decision \in [Calls -> Decisions]
    BY DEF IInv, TypeOK
  <2> QED
    BY <2>1 DEF PermitOK, TablesOK, Asked
<1>4. TablesOK(c)'
  BY DEF IInv, TypeOK, TablesOK, Asked
<1> QED
  BY <1>1, <1>2, <1>3, <1>4, OneCall

LEMMA UnregisterIInv == ASSUME IInv, NEW c \in Calls, Unregister(c) PROVE IInv'
PROOF
<1> USE DEF Unregister, Goto, config, people
<1>1. TypeOK'
  BY DEF IInv, TypeOK, Steps, Decisions
<1>2. \A d \in Calls \ {c} : Same(d)
  BY DEF IInv, TypeOK, Same
<1>3. PermitOK(c)'
  <2>1. PermitOK(c) /\ TablesOK(c) /\ at \in [Calls -> Steps] /\ decision \in [Calls -> Decisions]
    BY DEF IInv, TypeOK
  <2> QED
    BY <2>1 DEF PermitOK, TablesOK, Asked
<1>4. TablesOK(c)'
  BY DEF IInv, TypeOK, TablesOK, Asked
<1> QED
  BY <1>1, <1>2, <1>3, <1>4, OneCall

LEMMA ForgetIInv == ASSUME IInv, NEW c \in Calls, Forget(c) PROVE IInv'
PROOF
<1> USE DEF Forget, Goto, config, people
<1>1. TypeOK'
  BY DEF IInv, TypeOK, Steps, Decisions
<1>2. \A d \in Calls \ {c} : Same(d)
  BY DEF IInv, TypeOK, Same
<1>3. PermitOK(c)'
  <2>1. PermitOK(c) /\ TablesOK(c) /\ at \in [Calls -> Steps] /\ decision \in [Calls -> Decisions]
    BY DEF IInv, TypeOK
  <2> QED
    BY <2>1 DEF PermitOK, TablesOK, Asked
<1>4. TablesOK(c)'
  BY DEF IInv, TypeOK, TablesOK, Asked
<1> QED
  BY <1>1, <1>2, <1>3, <1>4, OneCall

--------------------------------------------------------------------------------
(* People and policies *)

LEMMA EditIInv ==
    ASSUME IInv, SwitchGuard \/ \E t \in Tools, p \in Policies : EditPolicy(t, p)
    PROVE  IInv'
PROOF
<1>1. edits' \in 0 .. MaxEdits
  BY BoundsAssumption DEF IInv, TypeOK, SwitchGuard, EditPolicy
<1>2. policy' \in [Tools -> Policies] /\ guardOn' \in BOOLEAN
  BY DEF IInv, TypeOK, SwitchGuard, EditPolicy
<1>3. UNCHANGED <<interactive, tables, gate, people>>
  BY DEF SwitchGuard, EditPolicy
<1>4. TypeOK'
  BY <1>1, <1>2, <1>3 DEF IInv, TypeOK, tables, gate, people
<1>5. \A d \in Calls : Same(d)
  BY <1>3 DEF Same, tables, gate, people
<1> QED
  BY <1>4, <1>5, NoCall

LEMMA CheckPendingIInv ==
    ASSUME IInv, NEW h \in Answers, NEW c \in Calls, NEW a \in {"allow", "deny"},
           NEW remember \in BOOLEAN, CheckPending(h, c, a, remember)
    PROVE  IInv'
PROOF
<1> USE DEF CheckPending, Handle, config, tables, gate
<1>1. answering' \in [Answers -> Answering]
  BY DEF IInv, TypeOK, Answering
<1>2. TypeOK'
  BY <1>1 DEF IInv, TypeOK
<1>3. \A d \in Calls : Same(d)
  BY DEF Same
<1> QED
  BY <1>2, <1>3, NoCall

(* A handler that is not idle holds a call and an answer. *)
Held == [step : {"escalation", "remember", "answer"}, call : Calls,
         answer : {"allow", "deny"}, asking : SUBSET Tools]

LEMMA Handling ==
    ASSUME TypeOK, NEW h \in Answers, answering[h].step # "idle"
    PROVE  answering[h] \in Held
BY DEF TypeOK, Answering, Idle, Held

LEMMA ReadEscalationIInv == ASSUME IInv, NEW h \in Answers, ReadEscalation(h) PROVE IInv'
PROOF
<1> USE DEF ReadEscalation, Handle, config, tables, gate
<1> DEFINE e == IF answering[h].call \in DOMAIN escalations
                THEN escalations[answering[h].call] ELSE NoEscalation
<1>1. answering[h] \in Held
  BY Handling DEF IInv
<1>2. e.asking \subseteq Tools
  BY DEF IInv, TypeOK, Escalation, NoEscalation
<1>3. [answering[h] EXCEPT !.step = "remember", !.asking = e.asking] \in Answering
  BY <1>1, <1>2 DEF Answering, Held
<1>4. Idle \in Answering
  BY DEF Answering
<1>5. answering' \in [Answers -> Answering]
  BY <1>3, <1>4 DEF IInv, TypeOK
<1>6. TypeOK'
  BY <1>5 DEF IInv, TypeOK
<1>7. \A d \in Calls : Same(d)
  BY DEF Same
<1> QED
  BY <1>6, <1>7, NoCall

LEMMA RememberIInv == ASSUME IInv, NEW h \in Answers, Remember(h) PROVE IInv'
PROOF
<1> USE DEF Remember, Handle, tables, gate
<1>1. answering[h] \in Held
  BY Handling DEF IInv
<1>2. answering' \in [Answers -> Answering]
  BY <1>1 DEF IInv, TypeOK, Answering, Held
<1>3. policy' \in [Tools -> Policies] /\ remembered' \subseteq Calls
  BY <1>1 DEF IInv, TypeOK, Policies, Held
<1>4. TypeOK'
  BY <1>2, <1>3 DEF IInv, TypeOK
<1>5. \A d \in Calls : Same(d)
  BY DEF Same
<1> QED
  BY <1>4, <1>5, NoCall

(* An answer is sent only to a call that waits or has just expired, and takes
   the sender with it. *)
LEMMA AnswerIInv == ASSUME IInv, NEW h \in Answers, Answer(h) PROVE IInv'
PROOF
<1> USE DEF config, tables
<1>1. answering[h] \in Held
  BY Handling DEF IInv, Answer
<1>2. PICK c \in Calls : c = answering[h].call
  BY <1>1 DEF Held
<1>3. PICK a \in {"allow", "deny"} : a = answering[h].answer
  BY <1>1 DEF Held
<1> DEFINE sent == c \in pending /\ at[c] \in {"waiting", "expired"}
<1>4. /\ pending' = pending \ {c}
      /\ channel' = [channel EXCEPT ![c] = IF sent THEN a ELSE @]
      /\ told' = [told EXCEPT ![c] = IF sent THEN a ELSE @]
      /\ answering' = [answering EXCEPT ![h] = Idle]
      /\ UNCHANGED <<config, escalations, at, snapshot, guarding, guarded, decision, remembered>>
  BY <1>2, <1>3 DEF Answer, Handle
<1>5. answering' \in [Answers -> Answering]
  BY <1>4 DEF IInv, TypeOK, Answering
<1>6. TypeOK'
  BY <1>4, <1>5 DEF IInv, TypeOK
<1>7. \A d \in Calls \ {c} : Same(d)
  BY <1>4 DEF IInv, TypeOK, Same
<1>8. /\ PermitOK(c) /\ TablesOK(c)
      /\ channel \in [Calls -> {"none", "allow", "deny"}]
      /\ told \in [Calls -> {"none", "allow", "deny"}]
  BY DEF IInv, TypeOK
<1>9. PermitOK(c)'
  BY <1>4, <1>8 DEF PermitOK, TablesOK
<1>10. TablesOK(c)'
  BY <1>4, <1>8 DEF TablesOK, Asked
<1> QED
  BY <1>6, <1>7, <1>9, <1>10, OneCall

--------------------------------------------------------------------------------
LEMMA NextIInv == IInv /\ [Next]_vars => IInv'
PROOF
<1> SUFFICES ASSUME IInv, [Next]_vars PROVE IInv'
  OBVIOUS
<1>1. ASSUME NEW c \in Calls, GateStep(c) \/ Stop(c) PROVE IInv'
  BY <1>1, ReadPolicyIInv, WeighPoliciesIInv, ReadSettingsIInv, AssessIInv, EscalateIInv,
     RegisterIInv, AnsweredIInv, ExpireIInv, DropReceiverIInv, StopIInv, UnregisterIInv,
     ForgetIInv DEF GateStep
<1>2. ASSUME NEW h \in Answers, AnswerStep(h) PROVE IInv'
  BY <1>2, ReadEscalationIInv, RememberIInv, AnswerIInv DEF AnswerStep
<1>3. CASE SwitchGuard \/ \E t \in Tools, p \in Policies : EditPolicy(t, p)
  BY <1>3, EditIInv
<1>4. CASE UNCHANGED vars
  <2>1. TypeOK'
    BY <1>4 DEF vars, IInv, TypeOK
  <2>2. \A d \in Calls : Same(d)
    BY <1>4 DEF vars, Same
  <2> QED
    BY <2>1, <2>2, NoCall
<1> QED
  BY <1>1, <1>2, <1>3, <1>4, CheckPendingIInv DEF Next

LEMMA InvariantHolds == Spec => []IInv
PROOF
<1> QED
  BY InitIInv, NextIInv, PTL DEF Spec

--------------------------------------------------------------------------------
(* The theorems *)

(* Every reachable state is well-typed: escalations and decisions are of the
   kinds the app shows. *)
THEOREM TypeCorrect == Spec => []TypeOK
PROOF
<1>1. IInv => TypeOK
  BY DEF IInv
<1> QED
  BY InvariantHolds, <1>1, PTL

(* However many calls, tools, people and edits there are, checks only tighten:
   no call is allowed on less than what its gate read, or than an answer. *)
THEOREM AllowedIsEarned == Spec => []AllowedCallsAreEarned
PROOF
<1>1. IInv => AllowedCallsAreEarned
  BY DEF IInv, PermitOK, Concerned, AllowedCallsAreEarned
<1> QED
  BY InvariantHolds, <1>1, PTL

--------------------------------------------------------------------------------
(* "Always allow" for a call the guard flagged *)

Registered == {"waiting", "expired", "leaving", "forgetting", "decided"}

(* A handler's call is past its registration, and the handler that is to remember
   a flagged call, or has, did not find its escalation: the call had ended. *)
ClearedOK ==
    /\ \A h \in Answers : answering[h].step # "idle" => at[answering[h].call] \in Registered
    /\ \A h \in Answers : answering[h].step = "remember" =>
          (guarded[answering[h].call] => at[answering[h].call] = "decided")
    /\ \A c \in remembered : at[c] \in Registered /\ (guarded[c] => at[c] = "decided")

(* No step takes a call back, or changes what the guard said of a registered one. *)
Onward(c) ==
    /\ at[c] \in Registered => at'[c] \in Registered /\ guarded'[c] = guarded[c]
    /\ at[c] = "decided" => at'[c] = "decided"

LEMMA GateOnward ==
    ASSUME TypeOK, NEW d \in Calls, GateStep(d) \/ Stop(d), NEW c \in Calls
    PROVE  Onward(c)
BY DEF TypeOK, Onward, Registered, GateStep, ReadPolicy, WeighPolicies, ReadSettings, Assess, Escalate,
       Register, Answered, Expire, DropReceiver, Unregister, Forget, Stop, Goto, Decide

LEMMA OnwardKeeps ==
    ASSUME TypeOK, ClearedOK, UNCHANGED people, \A c \in Calls : Onward(c)
    PROVE  ClearedOK'
PROOF
<1>1. \A h \in Answers : answering[h].step # "idle" => answering[h].call \in Calls
  BY Handling DEF Held
<1>2. remembered \subseteq Calls
  BY DEF TypeOK
<1> QED
  BY <1>1, <1>2 DEF ClearedOK, Onward, people

LEMMA HandlerClears ==
    ASSUME IInv, ClearedOK, NEW h \in Answers, AnswerStep(h)
    PROVE  ClearedOK'
PROOF
<1>1. answering[h] \in Held
  BY Handling DEF IInv, AnswerStep, ReadEscalation, Remember, Answer
<1>2. at' = at /\ guarded' = guarded
  BY DEF AnswerStep, ReadEscalation, Remember, Answer, gate
<1>3. answering \in [Answers -> Answering]
  BY DEF IInv, TypeOK
<1> DEFINE c == answering[h].call
<1>4. CASE ReadEscalation(h)
  <2>1. at[c] \in Registered /\ c \in Calls
    BY <1>1, <1>4 DEF ClearedOK, ReadEscalation, Held
  <2>2. \/ answering'[h] = Idle
        \/ (guarded[c] => at[c] = "decided") /\ answering'[h].call = c
    <3> DEFINE e == IF c \in DOMAIN escalations THEN escalations[c] ELSE NoEscalation
               kept == [answering[h] EXCEPT !.step = "remember", !.asking = e.asking]
    <3>1. answering'[h] = IF e.guarded THEN Idle ELSE kept
      BY <1>3, <1>4 DEF ReadEscalation, Handle
    <3>2. kept.call = c
      BY <1>1 DEF Held
    <3>3. ~e.guarded /\ guarded[c] => at[c] = "decided"
      BY <2>1 DEF IInv, TablesOK, Asked, Registered
    <3> QED
      BY <3>1, <3>2, <3>3
  <2>3. \A k \in Answers \ {h} : answering'[k] = answering[k]
    BY <1>3, <1>4 DEF ReadEscalation, Handle
  <2> QED
    BY <1>2, <1>4, <2>1, <2>2, <2>3 DEF ClearedOK, ReadEscalation, Idle
<1>5. CASE Remember(h)
  <2>1. answering'[h].call = c /\ answering'[h].step = "answer"
    BY <1>1, <1>3, <1>5 DEF Remember, Handle, Held
  <2>2. \A k \in Answers \ {h} : answering'[k] = answering[k]
    BY <1>3, <1>5 DEF Remember, Handle
  <2> QED
    BY <1>2, <1>5, <2>1, <2>2 DEF ClearedOK, Remember
<1>6. CASE Answer(h)
  <2>1. answering'[h] = Idle /\ \A k \in Answers \ {h} : answering'[k] = answering[k]
    BY <1>3, <1>6 DEF Answer, Handle
  <2> QED
    BY <1>2, <1>6, <2>1 DEF ClearedOK, Answer, Idle
<1> QED
  BY <1>4, <1>5, <1>6 DEF AnswerStep

LEMMA CheckClears ==
    ASSUME IInv, ClearedOK, NEW h \in Answers, NEW c \in Calls, NEW a, NEW remember \in BOOLEAN,
           CheckPending(h, c, a, remember)
    PROVE  ClearedOK'
PROOF
<1>1. at' = at /\ guarded' = guarded /\ remembered' = remembered
  BY DEF CheckPending, gate
<1>2. answering \in [Answers -> Answering]
  BY DEF IInv, TypeOK
<1>3. /\ answering'[h].call = c /\ answering'[h].step # "remember"
      /\ \A k \in Answers \ {h} : answering'[k] = answering[k]
  BY <1>2 DEF CheckPending, Handle
<1>4. at[c] \in Registered
  BY DEF CheckPending, IInv, TablesOK, Registered
<1> QED
  BY <1>1, <1>3, <1>4 DEF ClearedOK

LEMMA ClearedHolds == Spec => []ClearedOK
PROOF
<1>1. Init => ClearedOK
  BY DEF Init, ClearedOK, Idle
<1>2. IInv /\ ClearedOK /\ [Next]_vars => ClearedOK'
  <2> SUFFICES ASSUME IInv, ClearedOK, [Next]_vars PROVE ClearedOK'
    OBVIOUS
  <2>1. CASE \E d \in Calls : GateStep(d) \/ Stop(d)
    <3>1. UNCHANGED people
      BY <2>1 DEF GateStep, ReadPolicy, WeighPolicies, ReadSettings, Assess, Escalate, Register,
                  Answered, Expire, DropReceiver, Unregister, Forget, Stop
    <3> QED
      BY <2>1, <3>1, GateOnward, OnwardKeeps DEF IInv
  <2>2. CASE \E h \in Answers : AnswerStep(h)
    BY <2>2, HandlerClears
  <2>3. CASE \E h \in Answers, c \in Calls, a \in {"allow", "deny"}, remember \in BOOLEAN :
                CheckPending(h, c, a, remember)
    BY <2>3, CheckClears
  <2>4. CASE SwitchGuard \/ (\E t \in Tools, p \in Policies : EditPolicy(t, p)) \/ UNCHANGED vars
    BY <2>4, OnwardKeeps DEF EditPolicy, SwitchGuard, vars, gate, people, Onward, IInv
  <2> QED
    BY <2>1, <2>2, <2>3, <2>4 DEF Next
<1> QED
  BY <1>1, <1>2, InvariantHolds, PTL DEF Spec

(* Every pending call has its escalation, with the guard's verdict, and "always
   allow" has not been taken from it if the guard flagged it. *)
THEOREM PendingIsExplained == Spec => []PendingCallsAreExplained
PROOF
<1>1. IInv /\ ClearedOK => PendingCallsAreExplained
  BY DEF IInv, TypeOK, TablesOK, Asked, ClearedOK, PendingCallsAreExplained
<1> QED
  BY InvariantHolds, ClearedHolds, <1>1, PTL

(* No handler is told that its answer counts after another one was. *)
THEOREM OneAnswerStands == Spec => FirstAnswerStands
PROOF
<1>1. IInv /\ [Next]_vars => \A c \in Calls : told[c] # "none" => told'[c] = told[c]
  <2> SUFFICES ASSUME IInv, [Next]_vars, NEW c \in Calls, told[c] # "none"
               PROVE  told'[c] = told[c]
    OBVIOUS
  <2>1. c \notin pending
    BY DEF IInv, TablesOK
  <2>2. ASSUME NEW h \in Answers, Answer(h) PROVE told'[c] = told[c]
    BY <2>1, <2>2 DEF Answer, IInv, TypeOK
  <2>3. ASSUME NEW h \in Answers, ReadEscalation(h) \/ Remember(h) PROVE told'[c] = told[c]
    BY <2>3 DEF ReadEscalation, Remember
  <2>4. CASE ~ \E h \in Answers : AnswerStep(h)
    BY <2>4 DEF Next, vars, GateStep, ReadPolicy, WeighPolicies, ReadSettings, Assess, Escalate,
         Register, Answered, Expire, DropReceiver, Unregister, Forget, Stop, CheckPending,
         EditPolicy, SwitchGuard, people
  <2> QED
    BY <2>2, <2>3, <2>4 DEF AnswerStep
<1> QED
  BY InvariantHolds, <1>1, PTL DEF Spec, FirstAnswerStands
================================================================================
