---------------------------------- MODULE Context ----------------------------------
(* What a run is shown: the chats of a project, the active context each run carries  *)
(* on and Jev reclassifies, the earlier turns recalled for it, and the fitting of    *)
(* one inference request (the IR) into the window of the model.                      *)
(*   dagos-core: context/*.rs, ir.rs, store/{context,conversations,runs}.rs, and     *)
(*   the parts of runtime.rs that call them                                          *)
(* A chat, a run and a node are known by their rank of creation. A text is known by  *)
(* its size alone. The failures of a run and their events are in Runtime.            *)
EXTENDS Naturals, Sequences, FiniteSets, FiniteSetsExt, SequencesExt

CONSTANTS Projects,
          Other,          \* a project with one finished run, which starts no more
          Window,         \* conversation_window: the recent turns an IR carries
          JevWindow,      \* the conversation nodes the fake Jev keeps active
          Budgets,        \* the IR sizes models may take; Unknown is one of them
          Unknown,
          Findings,       \* what a review may find: a rule, a file and a function
          None,
          Kinds,          \* bound: the kinds of node a response makes
          Sizes,          \* bound: the output sizes of each round's tool call
          MaxTime, MaxChats, MaxRuns, MaxNodes, MaxEntries, MaxEdges,  \* bounds
          LastEdges       \* bound: the last run whose responses make edges

ASSUME BoundsAssumption ==
       /\ Window \in Nat /\ JevWindow \in Nat /\ Budgets \subseteq Nat \cup {Unknown}
       /\ Sizes \in Seq(SUBSET Nat)
       /\ {MaxTime, MaxChats, MaxRuns, MaxNodes, MaxEntries, MaxEdges, LastEdges} \subseteq Nat

VARIABLES chats, runs, nodes, supersedes, step
vars == <<chats, runs, nodes, supersedes, step>>

Total(sizes)   == FoldSeq(+, 0, sizes)
AtMost(k, set) == {ToSet(s) : s \in BoundedSeq(set, k)}

(* Sizes, in units small enough for a budget to fall between any two of them. *)
Base     == 1                    \* the prompt, the task and the context
TurnText == 2                    \* the text of one recalled turn
Recalled == TurnText + 1         \* ... and what the IR writes around it
Recent   == 1                    \* one turn of recent_events
Small    == 1
Large    == 3                    \* at least COMPACT_MIN_CHARS
Note     == 2                    \* what stands for an output that is left out

Idle == [at |-> "idle", policy |-> FALSE, budget |-> Unknown, score |-> <<>>, all |-> FALSE, kept |-> {},
         window |-> Window, outputs |-> <<>>, earlier |-> 0, compacted |-> {},
         omitted |-> {}, done |-> FALSE, passes |-> 0]

Task(p, r) == [project |-> p, kind |-> "conversation", finding |-> None, by |-> r]
Init == /\ chats = <<Other>> /\ nodes = <<Task(Other, 1)>> /\ supersedes = {}
        /\ runs = <<[chat |-> 1, at |-> 1, running |-> FALSE, task |-> 1, context |-> {}]>>
        /\ step = [p \in Projects |-> Idle]

ProjectOf(r) == chats[runs[r].chat]
RunsOf(p)    == {r \in DOMAIN runs : ProjectOf(r) = p}
NodesOf(p)   == {n \in DOMAIN nodes : nodes[n].project = p}
Running(p)   == {r \in RunsOf(p) : runs[r].running}
The(p)       == CHOOSE r \in Running(p) : TRUE

(* The order of the runs: by time, then by identifier, which grows with creation. *)
Before(all, a, b) == \/ all[a].at < all[b].at
                     \/ all[a].at = all[b].at /\ a < b

(* Mutant of Previous: a run of the same instant does not count. *)
PreviousByTime(all, r) ==
    LET before == {q \in DOMAIN all : all[q].chat = all[r].chat /\ all[q].at < all[r].at}
    IN IF before = {} THEN 0
       ELSE CHOOSE q \in before : \A o \in before \ {q} : Before(all, o, q)

(* The runs of the chat before r: the one just before it (0 if there is none), *)
(* and the last k, which previous_run finds one by one.                        *)
Past(all, r) == {q \in DOMAIN all : all[q].chat = all[r].chat /\ Before(all, q, r)}
Previous(all, r) ==
    IF Past(all, r) = {} THEN 0
    ELSE CHOOSE q \in Past(all, r) : \A o \in Past(all, r) \ {q} : Before(all, o, q)
LastTurns(all, r, k) ==
    {q \in Past(all, r) : Cardinality({o \in Past(all, r) : Before(all, q, o)}) < k}

--------------------------------------------------------------------------------
(* The start of a run.                                                               *)

(* The members of the previous run of the chat are carried over. *)
Carried(all, r) == LET q == Previous(all, r) IN IF q = 0 THEN {} ELSE all[q].context

(* start_in: thread names a chat, or is 0 for a new one; now is the wall time, which   *)
(* may stand still or be set back between two runs.                                   *)
StartIn(p, thread, now) ==
    /\ Len(runs) < MaxRuns /\ Len(nodes) < MaxNodes
    /\ Running(p) = {}
    /\ \/ thread \in DOMAIN chats /\ chats[thread] = p /\ UNCHANGED chats
       \/ thread = 0 /\ Len(chats) < MaxChats /\ chats' = Append(chats, p)
    /\ LET run == [chat |-> IF thread = 0 THEN Len(chats) + 1 ELSE thread, at |-> now,
                   running |-> TRUE, task |-> Len(nodes) + 1, context |-> {}]
           all == Append(runs, run)
       IN runs' = [all EXCEPT ![Len(all)].context = Carried(all, Len(all))]
    /\ nodes' = Append(nodes, Task(p, Len(runs) + 1))
    /\ step' = [step EXCEPT ![p] = [Idle EXCEPT !.at = "classify"]]
    /\ UNCHANGED supersedes

--------------------------------------------------------------------------------
(* Jev classifies the project's other nodes; what it leaves out keeps its place.     *)

Candidates(p) == NodesOf(p) \ {runs[The(p)].task}

(* Mutant of Valid: an answer may name any node. *)
ValidUnchecked(p, answer) == \A e, f \in answer : e[1] = f[1] => e = f

(* An answer is a set of <<node, active>>; it is taken as a whole or not at all. *)
Valid(p, answer) ==
    /\ \A e \in answer : e[1] \in Candidates(p)
    /\ \A e, f \in answer : e[1] = f[1] => e = f

Apply(p, answer, policy) ==
    LET r == The(p)
    IN /\ runs' = [runs EXCEPT ![r].context =
                       (@ \cup {e[1] : e \in {x \in answer : x[2]}})
                          \ {e[1] : e \in {x \in answer : ~x[2]}}]
       /\ step' = [step EXCEPT ![p].at = "recall", ![p].policy = policy]
       /\ UNCHANGED <<chats, nodes, supersedes>>

(* The fake Jev, also the fallback: superseded nodes and old turns are inactive. *)
Superseded(p) == {e[2] : e \in {x \in supersedes : x[1] \in Candidates(p)}}
Talk(p)       == {n \in Candidates(p) : nodes[n].kind = "conversation"}
Newest(set, k) == {n \in set : Cardinality({m \in set : m > n}) < k}
PolicyAnswer(p) ==
    {<<n, n \notin Superseded(p) /\ (n \in Talk(p) => n \in Newest(Talk(p), JevWindow))>>
        : n \in Candidates(p)}

(* The configured Jev answers; the fallback answers for one that fails or is rejected. *)
Classify(p) ==
    /\ step[p].at = "classify"
    /\ \/ \E answer \in AtMost(MaxEntries, (DOMAIN nodes) \X BOOLEAN) :
              IF Valid(p, answer) THEN Apply(p, answer, FALSE)
                                  ELSE Apply(p, PolicyAnswer(p), TRUE)
       \/ Apply(p, PolicyAnswer(p), TRUE)

--------------------------------------------------------------------------------
(* Recall: the finished turns that the recent ones leave out, by their relevance.    *)

(* Mutant of RecallCandidates: a turn of the IR is recalled again. *)
RecallCandidatesShort(p) ==
    {r \in RunsOf(p) : ~runs[r].running} \ LastTurns(runs, The(p), Window - 1)

RecallCandidates(p) ==
    {r \in RunsOf(p) : ~runs[r].running} \ LastTurns(runs, The(p), Window)

(* score ranks what is recalled; all tells that the person asked for everything. *)
Hold(p, score, all, budget) ==
    step' = [step EXCEPT ![p].at = "compile", ![p].score = score, ![p].all = all,
                         ![p].kept = DOMAIN score, ![p].budget = budget]

RecallTurns(p) ==
    /\ step[p].at = "recall"
    /\ \E relevant \in SUBSET RecallCandidates(p), budget \in Budgets :
           \E score \in [relevant -> 1..2] : Hold(p, score, FALSE, budget)
    /\ UNCHANGED <<chats, runs, nodes, supersedes>>

(* wants_everything: every node joins the context and the newest turn ranks highest. *)
RecallEverything(p) ==
    /\ step[p].at = "recall"
    /\ LET old == RecallCandidates(p)
           rank == [r \in old |-> 1 + Cardinality({q \in old : Before(runs, q, r)})]
       IN \E budget \in Budgets : Hold(p, rank, TRUE, budget)
    /\ runs' = [runs EXCEPT ![The(p)].context = @ \cup Candidates(p)]
    /\ UNCHANGED <<chats, nodes, supersedes>>

--------------------------------------------------------------------------------
(* The IR of one step, and what is left out until it fits.                           *)

RecentTurns(p) == LastTurns(runs, The(p), step[p].window)
Shown(p, out)  == [i \in DOMAIN step[p].outputs |->
                      IF i \in out THEN Note ELSE step[p].outputs[i]]
IrSize(p) == Base + Recent * Cardinality(RecentTurns(p)) + Recalled * Cardinality(step[p].kept)
                  + Total(Shown(p, step[p].omitted))

(* Mutant of GoesBefore: the most relevant turns go first. *)
GoesBeforeBackwards(p, a, b) ==
    \/ step[p].score[a] > step[p].score[b]
    \/ step[p].score[a] = step[p].score[b] /\ Before(runs, a, b)

(* The order the turns go in: the least relevant first. *)
GoesBefore(p, a, b) ==
    \/ step[p].score[a] < step[p].score[b]
    \/ step[p].score[a] = step[p].score[b] /\ Before(runs, a, b)
EarlierOutputs(p) == {i \in 1..step[p].earlier : step[p].outputs[i] > 0} \ step[p].omitted

(* The size that must go; nothing while the IR is below the budget. *)
TooLarge(p) == step[p].budget # Unknown /\ ~(IrSize(p) < step[p].budget)
Over(p)     == IrSize(p) - step[p].budget

Send(p) ==
    /\ step[p].at = "compile"
    /\ ~TooLarge(p) \/ step[p].done
    /\ step' = [step EXCEPT ![p].at = "infer", ![p].passes = 0]
    /\ UNCHANGED <<chats, runs, nodes, supersedes>>

(* What one pass may leave out: turns in their order, and then, all turns gone, the   *)
(* outputs of earlier rounds in theirs.                                               *)
Cuts(p) ==
    {cut \in [turns : SUBSET step[p].kept, outputs : SUBSET EarlierOutputs(p)] :
        /\ cut.turns \cup cut.outputs # {}
        /\ \A t \in cut.turns, k \in step[p].kept \ cut.turns : GoesBefore(p, t, k)
        /\ \A i \in cut.outputs, k \in EarlierOutputs(p) \ cut.outputs : i < k
        /\ cut.outputs # {} => cut.turns = step[p].kept}
Freed(p, cut) == TurnText * Cardinality(cut.turns)
                     + MapThenSumSet(LAMBDA i : step[p].outputs[i], cut.outputs)
Enough(p) == {cut \in Cuts(p) : Freed(p, cut) > Over(p)}

(* A pass leaves out the least that is enough. When nothing is, everything goes and,  *)
(* with it, a recent turn; without one left, the IR is sent as it is.                 *)
LeaveOut(p) ==
    LET recent == Cardinality(RecentTurns(p))
    IN /\ step[p].at = "compile" /\ TooLarge(p) /\ ~step[p].done
       /\ \/ \E cut \in Enough(p) :
                /\ \A c \in Enough(p) : cut.turns \subseteq c.turns /\ cut.outputs \subseteq c.outputs
                /\ step' = [step EXCEPT ![p].kept = @ \ cut.turns,
                                        ![p].omitted = @ \cup cut.outputs, ![p].passes = @ + 1]
          \/ /\ Enough(p) = {}
             /\ step' = [step EXCEPT ![p].kept = {}, ![p].omitted = @ \cup EarlierOutputs(p),
                                     ![p].window = IF recent > 0 THEN recent - 1 ELSE @,
                                     ![p].done = (recent = 0), ![p].passes = @ + 1]
       /\ UNCHANGED <<chats, runs, nodes, supersedes>>

--------------------------------------------------------------------------------
(* The model answers: emissions, and tool calls or the end of the run.               *)

(* What the IR shows and a response may name. *)
Visible(p)  == runs[The(p)].context \cup {runs[The(p)].task}
HasCycle(E) == \E S \in SUBSET {e[1] : e \in E} :
                   S # {} /\ \A n \in S : \E e \in E : e[1] = n /\ e[2] \in S

(* apply_response: of its emissions, a node at most and edges that supersede, between *)
(* any of the nodes it knows; one that is there or closes a cycle fails the run.      *)
Emit(p) == \E kinds \in BoundedSeq(Kinds, 1) :
    LET new  == [i \in DOMAIN kinds |-> [Task(p, The(p)) EXCEPT !.kind = kinds[i]]]
        ends == Visible(p) \cup (Len(nodes) + 1 .. Len(nodes) + Len(new))
    IN /\ Len(nodes) + Len(new) <= MaxNodes
       /\ nodes' = nodes \o new
       /\ \E edges \in AtMost(MaxEdges - Cardinality(supersedes), ends \X ends) :
              LET made == {<<e[1], e[2], The(p)>> : e \in edges}
              IN /\ edges = {} \/ The(p) <= LastEdges
                 /\ \A e \in supersedes : <<e[1], e[2]>> \notin edges
                 /\ supersedes' = supersedes \cup made
                 /\ ~HasCycle(supersedes')

(* Every step starts again from what was recalled; Jev leaves out large old outputs. *)
Refill(s, outputs, earlier, compacted) ==
    [s EXCEPT !.at = "compile", !.outputs = outputs, !.earlier = earlier,
              !.compacted = compacted, !.omitted = compacted, !.kept = DOMAIN s.score,
              !.window = Window, !.done = FALSE]
Compactable(outputs, earlier) == {i \in 1..earlier : outputs[i] >= Large}

(* The emissions and a round of one call; size 0 is a call that was denied and has no output. *)
CallTool(p) ==
    LET s == step[p]
    IN /\ s.at = "infer" /\ Len(s.outputs) < Len(Sizes)
       /\ \E size \in Sizes[Len(s.outputs) + 1], out \in SUBSET Compactable(s.outputs, Len(s.outputs)) :
              step' = [step EXCEPT ![p] =
                          Refill(s, Append(s.outputs, size), Len(s.outputs), out)]
       /\ Emit(p) /\ UNCHANGED <<chats, runs>>

Reply(p) ==
    /\ step[p].at = "infer" /\ Emit(p)
    /\ step' = [step EXCEPT ![p].at = "review"]
    /\ UNCHANGED <<chats, runs>>

(* A review hands its findings back, and the model takes another step. *)
HandBack(p) ==
    LET s == step[p]
    IN /\ s.at = "review" /\ Findings # {}
       /\ \E out \in SUBSET Compactable(s.outputs, s.earlier) :
              step' = [step EXCEPT ![p] = Refill(s, s.outputs, s.earlier, out)]
       /\ UNCHANGED <<chats, runs, nodes, supersedes>>

Finish(p) == /\ runs' = [runs EXCEPT ![The(p)].running = FALSE]
             /\ step' = [step EXCEPT ![p] = Idle]

(* Mutant of Known: only what this run recorded is known. *)
KnownHere(p) == {nodes[n].finding : n \in {m \in NodesOf(p) : nodes[m].by = The(p)}}

(* record_findings: what the project already has a node for is not recorded again.   *)
(* What it has is read once, before the first of them is recorded, so that one       *)
(* finding may be recorded twice by one run.                                         *)
Known(p) == {nodes[n].finding : n \in NodesOf(p)}
Remember(p) ==
    /\ step[p].at = "review"
    /\ \E new \in BoundedSeq(Findings \ Known(p), 2) :
          /\ Len(nodes) + Len(new) <= MaxNodes
          /\ nodes' = nodes \o [i \in DOMAIN new |->
                 [Task(p, The(p)) EXCEPT !.kind = "observation", !.finding = new[i]]]
    /\ Finish(p)
    /\ UNCHANGED <<chats, supersedes>>

FailRun(p) == /\ step[p].at # "idle"
              /\ Finish(p)
              /\ UNCHANGED <<chats, nodes, supersedes>>

--------------------------------------------------------------------------------
Next == \E p \in Projects :
            \/ \E c \in 0..MaxChats, now \in 1..MaxTime : StartIn(p, c, now)
            \/ Classify(p) \/ RecallTurns(p)
                               \/ RecallEverything(p) \/ Send(p) \/ LeaveOut(p)
                               \/ CallTool(p) \/ Reply(p) \/ HandBack(p)
                               \/ Remember(p) \/ FailRun(p)

Spec == Init /\ [][Next]_vars
--------------------------------------------------------------------------------
(* Properties.                                                                       *)

(* The rows refer to rows that exist, and a project executes one run at most. *)
TypeOK ==
    /\ chats \in Seq(Projects \cup {Other})
    /\ \A r \in DOMAIN runs : /\ runs[r].chat \in DOMAIN chats
                              /\ runs[r].context \subseteq DOMAIN nodes
                              /\ runs[r].running \in BOOLEAN
    /\ supersedes \subseteq (DOMAIN nodes) \X (DOMAIN nodes) \X (DOMAIN runs)
    /\ \A p \in Projects : /\ Cardinality(Running(p)) <= 1
                           /\ (step[p].at = "idle") = (Running(p) = {})
                           /\ step[p].window \in 0..Window
                           /\ step[p].kept \subseteq DOMAIN step[p].score
                           /\ step[p].omitted \subseteq DOMAIN step[p].outputs

Sent(p) == step[p].at = "infer"

(* No turn is shown twice: what is recalled is none of the recent turns, both are     *)
(* finished turns of the project, and the run's own message is no part of its context *)
(* (the IR carries it as the task). recall_candidates and recent_run_outcomes walk    *)
(* the chat each on its own.                                                          *)
TurnsOnce == \A p \in Projects : Sent(p) =>
    /\ step[p].kept \cap RecentTurns(p) = {}
    /\ step[p].kept \cup RecentTurns(p) \subseteq RunsOf(p) \ Running(p)
    /\ runs[The(p)].task \notin runs[The(p)].context

(* A person who asks for everything gets every finished turn of every chat, and every *)
(* node older than the run, when the model takes them.                                *)
NothingForgotten == \A p \in Projects : Sent(p) /\ step[p].all /\ step[p].budget = Unknown =>
    /\ step[p].kept \cup RecentTurns(p) = RunsOf(p) \ Running(p)
    /\ {n \in NodesOf(p) : nodes[n].by < The(p)} \subseteq runs[The(p)].context

(* What is sent fits the model, or there is nothing more to leave out.                *)
FitsOrBare == \A p \in Projects : Sent(p) /\ step[p].budget # Unknown =>
    \/ IrSize(p) < step[p].budget
    \/ step[p].kept = {} /\ EarlierOutputs(p) = {} /\ RecentTurns(p) = {}

(* The order of sacrifice: a recent turn goes only when no recalled turn and no       *)
(* output of an earlier round is left, an output only when no recalled turn is left,  *)
(* and a recalled turn only when no less relevant one is left. The latest round       *)
(* stays whole.                                                                       *)
DropsInOrder == \A p \in Projects : Sent(p) =>
    LET s == step[p]
        dropped == DOMAIN s.score \ s.kept
        lost == s.omitted \ s.compacted
    IN /\ s.window < Window => s.kept = {} /\ EarlierOutputs(p) = {}
       /\ lost # {} => s.kept = {}
       /\ \A d \in dropped, k \in s.kept : s.score[d] <= s.score[k]
       /\ s.omitted \subseteq 1..s.earlier

(* Nothing is left out of an IR that would be below the budget as a whole.            *)
WholeSize(p) == Base + Recent * Cardinality(LastTurns(runs, The(p), Window))
                     + Recalled * Cardinality(DOMAIN step[p].score)
                     + Total(Shown(p, step[p].compacted))
WholeWhenItFits == \A p \in Projects :
    Sent(p) /\ (step[p].budget = Unknown \/ WholeSize(p) < step[p].budget)
        => /\ step[p].kept = DOMAIN step[p].score
           /\ step[p].omitted = step[p].compacted
           /\ step[p].window = Window

(* No turn too many, by the size of their texts: when only turns are left out, the     *)
(* texts of all but one would not have been what the whole IR is over by. (The fitting *)
(* does not count what the IR writes around a text, so it may leave out more, even a   *)
(* recent turn, than the size of the IR asks for.)                                     *)
NoTurnTooMany == \A p \in Projects :
    LET s == step[p]
        dropped == (DOMAIN s.score) \ s.kept
    IN Sent(p) /\ dropped # {} /\ s.omitted = s.compacted /\ s.window = Window =>
           s.budget + TurnText * (Cardinality(dropped) - 1) <= WholeSize(p)

(* A run's context holds nodes of its own project only.                               *)
ContextBelongs == \A r \in DOMAIN runs : runs[r].context \subseteq NodesOf(ProjectOf(r))

(* After the fallback classified, no node that was superseded before the run is in    *)
(* its context, however long it was carried, unless the person asked for everything.  *)
SupersededStaysOut == \A p \in Projects : \A r \in Running(p) :
    step[p].policy /\ ~step[p].all =>
        \A e \in supersedes : e[3] < r => e[2] \notin runs[r].context

(* No two runs record the same finding: the project remembers it once.                *)
RememberedOnce == \A p \in Projects : \A m, n \in NodesOf(p) :
    nodes[m].finding # None /\ nodes[m].finding = nodes[n].finding => nodes[m].by = nodes[n].by

(* A run starts with the context its chat's last run ended with, two runs of one      *)
(* instant included, as long as the clock was never set back between the chat's runs. *)
CarriesOn == [][\A r \in (DOMAIN runs') \ DOMAIN runs :
    LET same == {q \in DOMAIN runs' : runs'[q].chat = runs'[r].chat}
    IN (\A a, b \in same : a < b => runs'[a].at <= runs'[b].at) /\ same # {r} =>
            runs'[r].context = runs[Max(same \ {r})].context]_vars

(* The fitting ends, though a note may be longer than the output it stands for: every *)
(* pass leaves out a turn or an output more, until one finds none.                    *)
FittingEnds == \A p \in Projects :
    step[p].passes <= Cardinality(DOMAIN step[p].score) + step[p].earlier + Window + 1

(* What a run sends is fitted to its model's window: it is sent whole when it fits,   *)
(* leaves out turns, outputs and recent turns in this order, the least relevant       *)
(* first, stops when it fits or nothing is left, and ends. About compile_ir.          *)
FittingIsOrdered == FitsOrBare /\ DropsInOrder /\ WholeWhenItFits /\ FittingEnds

(* ... and leaves out no recalled turn more than the texts of the turns account for.  *)
FittingIsSound == FittingIsOrdered /\ NoTurnTooMany

(* Recall and the recent turns cut the history of the project exactly in two. About   *)
(* recall_candidates, recall_everything and recent_run_outcomes.                      *)
RecallIsExact == TurnsOnce /\ NothingForgotten

(* The active context of a run stays inside its project, and out of what was          *)
(* superseded, through carrying, answers of any content and the policy classifier.    *)
ContextIsSound == TypeOK /\ ContextBelongs /\ SupersededStaysOut
================================================================================
