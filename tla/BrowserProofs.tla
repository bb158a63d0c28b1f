---------------------------- MODULE BrowserProofs ----------------------------
(* The banner of runs left behind spares the runs that this server executes, for any
   runs, chats and number of loads, and what settles on the screen is what the store
   holds of this server's runs, unless a load failed or was overtaken.

   An overview is read in two parts, and runs start and end between them.  What
   makes it right is the order of the two reads and the mutex of the table: a run
   read as running has started, so if the table, read afterwards under its mutex,
   does not have it, no task executes it any more, and none ever will.           *)
EXTENDS Browser, TLAPS

Statuses == {"none", "running", "ended"}
LoadType == [view : Views, step : {"asked", "store", "answered"},
             runs : UNION {[RunsOf(v) -> Statuses] : v \in Views},
             executing : SUBSET Runs, late : BOOLEAN]

Types ==
    /\ status \in [Runs -> Statuses]
    /\ live \in SUBSET Runs /\ executing \in SUBSET Runs /\ lock \in Runs \cup {NoRun}
    /\ stale \in SUBSET Runs /\ selected \in Chats
    /\ loads \in Seq(LoadType)

(* The tasks are those in the table and the one that start_run is about to mark. *)
TableOK ==
    /\ live = executing \cup ({lock} \ {NoRun})
    /\ lock \notin executing
    /\ \A r \in live : status[r] # "none"

(* In this state of the store (st) and of the tasks (tasks), no task executes the run,
   or it has ended: and so it stays. *)
LeftBehind(r, st, tasks) == st[r] # "none" /\ ~(st[r] = "running" /\ r \in tasks)

(* What an overview under way has read. *)
LoadOK(l, st, tasks) == l.view = Overview =>
    \A r \in Runs : l.runs[r] = "running" =>
        /\ l.step = "store" => st[r] # "none"
        /\ l.step = "answered" /\ r \notin l.executing => LeftBehind(r, st, tasks)
LoadsOK == \A i \in DOMAIN loads : LoadOK(loads[i], status, live)

StaleOK == \A r \in stale : LeftBehind(r, status, live)

IInv == Types /\ TableOK /\ LoadsOK /\ StaleOK

-------------------------------------------------------------------------------
(* An overview tells of every run, a chat of its own. *)
LEMMA RunsOfOverview == RunsOf(Overview) = Runs
BY DEF RunsOf

LEMMA AskedIsLoad == ASSUME NEW v \in Views PROVE Asked(v) \in LoadType
<1>1. Shown(v, Nothing) \in [RunsOf(v) -> Statuses]
  BY DEF Shown, Nothing, RunsOf, Statuses
<1> QED BY <1>1 DEF Asked, LoadType

LEMMA AskedIsOK == ASSUME NEW v PROVE LoadOK(Asked(v), status', live')
<1>1. Asked(v).step = "asked" BY DEF Asked
<1>2. Asked(v).runs = Shown(v, Nothing) BY DEF Asked
<1>3. Asked(v).view = v BY DEF Asked
<1>4. v = Overview => \A r \in Runs : Shown(v, Nothing)[r] = "none"
  BY RunsOfOverview DEF Shown, Nothing
<1> QED BY <1>1, <1>2, <1>3, <1>4 DEF LoadOK

(* What a server shows of the runs of a view is a load's reading. *)
LEMMA ShownIsReading ==
  ASSUME NEW v \in Views, status \in [Runs -> Statuses]
  PROVE  Shown(v, status) \in UNION {[RunsOf(w) -> Statuses] : w \in Views}
<1>1. Shown(v, status) \in [RunsOf(v) -> Statuses]
  BY DEF Shown, RunsOf
<1> QED BY <1>1

(* A run once started is never unstarted, and one left behind by every task stays so. *)
LEMMA RunsStay ==
  ASSUME IInv, [Next]_vars, NEW r \in Runs
  PROVE  /\ status[r] # "none" => status'[r] # "none"
         /\ LeftBehind(r, status, live) => LeftBehind(r, status', live')
<1> USE DEF IInv, Types, LeftBehind
<1>1. CASE \E q \in Runs : Start(q) BY <1>1 DEF Start
<1>2. CASE \E q \in Runs : Mark(q) BY <1>2 DEF Mark
<1>3. CASE \E q \in Runs : End(q) BY <1>3 DEF End
<1>4. CASE \E q \in Runs : Unmark(q) BY <1>4 DEF Unmark
<1>5. CASE Recover BY <1>5 DEF Recover
<1>6. CASE Crash BY <1>6 DEF Crash
<1>7. CASE UNCHANGED <<status, live>> BY <1>7
<1>8. CASE \E q \in Runs : OtherProcess(q) BY <1>8 DEF OtherProcess
<1> QED BY <1>1, <1>2, <1>3, <1>4, <1>5, <1>6, <1>7, <1>8 DEF Next, vars, server, Publish, Disconnect,
        Reconnect, AnswerChat, ReadStore, ReadExecuting, Arrive, Fail, Resolved, Resync, OnEvent, TimerFires,
        SelectConversation

(* What a load has read stays as good as it was. *)
LEMMA ReadingsStay ==
  ASSUME IInv, [Next]_vars, NEW l, LoadOK(l, status, live)
  PROVE  LoadOK(l, status', live')
BY RunsStay DEF LoadOK

LEMMA TableStep == ASSUME IInv, [Next]_vars PROVE TableOK'
<1> USE BrowserAssumption DEF IInv, Types, TableOK
<1>1. CASE \E r \in Runs : Start(r) BY <1>1 DEF Start
<1>2. CASE \E r \in Runs : Mark(r) BY <1>2 DEF Mark
<1>3. CASE \E r \in Runs : End(r) BY <1>3 DEF End
<1>4. CASE \E r \in Runs : Unmark(r) BY <1>4 DEF Unmark
<1>5. CASE Recover BY <1>5 DEF Recover
<1>6. CASE Crash BY <1>6 DEF Crash
<1>7. CASE UNCHANGED <<status, live, executing, lock>> BY <1>7
<1>8. CASE \E r \in Runs : OtherProcess(r) BY <1>8 DEF OtherProcess
<1> QED BY <1>1, <1>2, <1>3, <1>4, <1>5, <1>6, <1>7, <1>8 DEF Next, vars, server, Publish, Disconnect,
        Reconnect, AnswerChat, ReadStore, ReadExecuting, Arrive, Fail, Resolved, Resync, OnEvent, TimerFires,
        SelectConversation

LEMMA ReplacedLoad ==
  ASSUME loads \in Seq(LoadType), NEW i \in DOMAIN loads, NEW l \in LoadType
  PROVE  [loads EXCEPT ![i] = l] \in Seq(LoadType)
OBVIOUS

LEMMA ViewOfLoad == ASSUME NEW l \in LoadType PROVE l.view \in Views
BY DEF LoadType

LEMMA ArrivedLate ==
  ASSUME NEW l \in LoadType, NEW late \in BOOLEAN PROVE [l EXCEPT !.late = late] \in LoadType
BY DEF LoadType

LEMMA ReadLoad ==
  ASSUME NEW l \in LoadType,
         NEW runs \in UNION {[RunsOf(w) -> Statuses] : w \in Views},
         NEW table \in SUBSET Runs, NEW step \in {"asked", "store", "answered"}
  PROVE  /\ [l EXCEPT !.runs = runs, !.step = step] \in LoadType
         /\ [l EXCEPT !.executing = table, !.step = step] \in LoadType
BY DEF LoadType

LEMMA TypesStep == ASSUME IInv, [Next]_vars PROVE Types'
<1> USE BrowserAssumption DEF IInv, Types
<1>1. status' \in [Runs -> Statuses] /\ live' \in SUBSET Runs /\ executing' \in SUBSET Runs
      /\ lock' \in Runs \cup {NoRun}
  <2>1. CASE \E r \in Runs : Start(r) BY <2>1 DEF Start, Statuses
  <2>2. CASE \E r \in Runs : Mark(r) BY <2>2 DEF Mark
  <2>3. CASE \E r \in Runs : End(r) BY <2>3 DEF End, Statuses
  <2>4. CASE \E r \in Runs : Unmark(r) BY <2>4 DEF Unmark
  <2>5. CASE Recover BY <2>5 DEF Recover, Statuses
  <2>6. CASE Crash BY <2>6 DEF Crash
  <2>7. CASE UNCHANGED <<status, live, executing, lock>> BY <2>7
  <2>8. CASE \E r \in Runs : OtherProcess(r) BY <2>8 DEF OtherProcess, Statuses
  <2> QED BY <2>1, <2>2, <2>3, <2>4, <2>5, <2>6, <2>7, <2>8 DEF Next, vars, server, Publish, Disconnect,
        Reconnect, AnswerChat, ReadStore, ReadExecuting, Arrive, Fail, Resolved, Resync, OnEvent, TimerFires,
        SelectConversation
<1>2. selected' \in Chats
  BY DEF Next, vars, browser, onView, Start, Mark, End, Unmark, Recover, OtherProcess, Publish, Crash, Disconnect,
        Reconnect, AnswerChat, ReadStore, ReadExecuting, Arrive, Fail, Resolved, Resync, OnEvent, TimerFires,
        SelectConversation
<1>3. stale' \in SUBSET Runs
  BY DEF Next, vars, browser, onView, Start, Mark, End, Unmark, Recover, OtherProcess, Publish, Crash, Disconnect,
        Reconnect, AnswerChat, ReadStore, ReadExecuting, Arrive, Fail, Resolved, Stale, Resync, OnEvent, TimerFires,
        SelectConversation
<1>4. loads' \in Seq(LoadType)
  <2>0. selected \in Views /\ Chats \subseteq Views /\ Overview \in Views BY DEF Views
  <2>1. ASSUME NEW i, AnswerChat(i) PROVE loads' \in Seq(LoadType)
    <3> DEFINE l == [loads[i] EXCEPT !.runs = Shown(loads[i].view, status), !.step = "answered"]
    <3>0. i \in DOMAIN loads /\ loads[i] \in LoadType BY <2>1 DEF AnswerChat
    <3>1. i \in DOMAIN loads /\ loads[i] \in LoadType /\ loads[i].view \in Views
      BY <3>0, ViewOfLoad
    <3>2. Shown(loads[i].view, status) \in UNION {[RunsOf(w) -> Statuses] : w \in Views}
      BY <3>1, ShownIsReading
    <3>3. l \in LoadType BY <3>1, <3>2, ReadLoad
    <3>4. loads' = [loads EXCEPT ![i] = l] BY <2>1, <3>1 DEF AnswerChat
    <3> HIDE DEF l
    <3> QED BY <3>1, <3>3, <3>4, ReplacedLoad
  <2>2. ASSUME NEW i, ReadStore(i) PROVE loads' \in Seq(LoadType)
    <3> DEFINE l == [loads[i] EXCEPT !.runs = Shown(loads[i].view, status), !.step = "store"]
    <3>0. i \in DOMAIN loads /\ loads[i] \in LoadType BY <2>2 DEF ReadStore
    <3>1. i \in DOMAIN loads /\ loads[i] \in LoadType /\ loads[i].view \in Views
      BY <3>0, ViewOfLoad
    <3>2. Shown(loads[i].view, status) \in UNION {[RunsOf(w) -> Statuses] : w \in Views}
      BY <3>1, ShownIsReading
    <3>3. l \in LoadType BY <3>1, <3>2, ReadLoad
    <3>4. loads' = [loads EXCEPT ![i] = l] BY <2>2, <3>1 DEF ReadStore
    <3> HIDE DEF l
    <3> QED BY <3>1, <3>3, <3>4, ReplacedLoad
  <2>3. ASSUME NEW i, ReadExecuting(i) PROVE loads' \in Seq(LoadType)
    <3> DEFINE l == [loads[i] EXCEPT !.executing = executing, !.step = "answered"]
    <3>1. i \in DOMAIN loads /\ loads[i] \in LoadType BY <2>3 DEF ReadExecuting
    <3>2. l \in LoadType
      <4> HIDE DEF Types
      <4>1. executing \in SUBSET Runs BY DEF Types
      <4> QED BY <3>1, <4>1 DEF LoadType
    <3>3. loads' = [loads EXCEPT ![i] = l] BY <2>3, <3>1 DEF ReadExecuting
    <3> QED BY <3>1, <3>2, <3>3, ReplacedLoad
  <2>4. ASSUME NEW i, Arrive(i) \/ Fail(i) PROVE loads' \in Seq(LoadType)
    <3>0. i \in DOMAIN loads /\ loads' = Without(i) BY <2>4 DEF Arrive, Fail, Resolved
    <3>1. i \in DOMAIN loads /\ DOMAIN loads = 1 .. Len(loads) /\ Len(loads) \in Nat
      BY <3>0
    <3>2. Len(loads) - 1 \in Nat BY <3>1
    <3>3. ASSUME NEW k \in 1 .. Len(loads) - 1 PROVE loads'[k] \in LoadType
      <4>1. loads[k] \in LoadType /\ loads[k + 1] \in LoadType BY <3>1
      <4> DEFINE late == loads[k].late \/ loads[k].view = loads[i].view
      <4>2. late \in BOOLEAN OBVIOUS
      <4>3. loads'[k] = IF k < i THEN [loads[k] EXCEPT !.late = late] ELSE loads[k + 1]
        BY <3>0, <3>1 DEF Without
      <4> HIDE DEF late
      <4> QED BY <4>1, <4>2, <4>3, ArrivedLate
    <3>4. loads' \in [1 .. Len(loads) - 1 -> LoadType] BY <3>0, <3>3 DEF Without
    <3> QED BY <3>2, <3>4
  <2>5. CASE Refresh
    BY <2>5, <2>0, AskedIsLoad DEF Refresh
  <2>6. ASSUME NEW c \in Chats, SelectConversation(c) PROVE loads' \in Seq(LoadType)
    BY <2>6, <2>0, AskedIsLoad DEF SelectConversation
  <2>7. CASE Crash BY <2>7 DEF Crash
  <2>8. CASE UNCHANGED loads BY <2>8
  <2> QED BY <2>1, <2>2, <2>3, <2>4, <2>5, <2>6, <2>7, <2>8 DEF Next, vars, browser, Start, Mark,
        End, Unmark, Recover, OtherProcess, Publish, Disconnect, Reconnect, Resync, OnEvent, TimerFires
<1> QED BY <1>1, <1>2, <1>3, <1>4

LEMMA LoadsStep == ASSUME IInv, [Next]_vars PROVE LoadsOK'
<1> SUFFICES ASSUME NEW j \in DOMAIN loads' PROVE LoadOK(loads'[j], status', live')
  BY DEF LoadsOK
<1>0. /\ loads \in Seq(LoadType)
      /\ \A l \in LoadType : LoadOK(l, status, live) => LoadOK(l, status', live')
      /\ \A i \in DOMAIN loads : loads[i] \in LoadType /\ LoadOK(loads[i], status, live)
  BY ReadingsStay DEF IInv, Types, LoadsOK
<1>1. CASE UNCHANGED loads
  BY <1>0, <1>1
<1>2. ASSUME NEW i, AnswerChat(i) PROVE LoadOK(loads'[j], status', live')
  <2>1. i \in DOMAIN loads /\ j \in DOMAIN loads /\ loads[i].view # Overview
    BY <1>2 DEF AnswerChat
  <2>2. CASE j # i
    <3>1. loads'[j] = loads[j] BY <1>2, <2>1, <2>2 DEF AnswerChat
    <3> QED BY <1>0, <2>1, <3>1
  <2>3. CASE j = i
    <3>1. loads'[j].view = loads[i].view
      BY <1>0, <1>2, <2>1, <2>3 DEF AnswerChat, LoadType
    <3> QED BY <2>1, <3>1 DEF LoadOK
  <2> QED BY <2>2, <2>3
<1>3. ASSUME NEW i, ReadStore(i) PROVE LoadOK(loads'[j], status', live')
  <2>1. i \in DOMAIN loads /\ j \in DOMAIN loads /\ loads[i].view = Overview
    BY <1>3 DEF ReadStore
  <2>2. CASE j # i
    <3>1. loads'[j] = loads[j] BY <1>3, <2>1, <2>2 DEF ReadStore
    <3> QED BY <1>0, <2>1, <3>1
  <2>3. CASE j = i
    <3>1. loads'[j].runs = Shown(loads[i].view, status) /\ loads'[j].step = "store"
      BY <1>0, <1>3, <2>1, <2>3 DEF ReadStore, LoadType
    <3>2. \A r \in Runs : Shown(loads[i].view, status)[r] = status[r]
      BY <2>1, RunsOfOverview DEF Shown
    <3>3. status' = status BY <1>3 DEF ReadStore, server
    <3> QED BY <3>1, <3>2, <3>3 DEF LoadOK
  <2> QED BY <2>2, <2>3
<1>4. ASSUME NEW i, ReadExecuting(i) PROVE LoadOK(loads'[j], status', live')
  <2>1. i \in DOMAIN loads /\ j \in DOMAIN loads
    BY <1>4 DEF ReadExecuting
  <2>2. CASE j # i
    <3>1. loads'[j] = loads[j] BY <1>4, <2>1, <2>2 DEF ReadExecuting
    <3> QED BY <1>0, <2>1, <3>1
  <2>3. CASE j = i
    <3>1. /\ loads'[j].runs = loads[i].runs /\ loads'[j].view = loads[i].view
          /\ loads'[j].executing = executing /\ loads'[j].step = "answered"
      BY <1>0, <1>4, <2>1, <2>3 DEF ReadExecuting, LoadType
    <3>2. loads[i].step = "store" /\ LoadOK(loads[i], status, live) BY <1>0, <1>4, <2>1 DEF ReadExecuting
    <3>3. live = executing BY <1>4, BrowserAssumption DEF ReadExecuting, IInv, TableOK
    <3>4. status' = status /\ live' = live BY <1>4 DEF ReadExecuting, server
    <3> QED BY <3>1, <3>2, <3>3, <3>4 DEF LoadOK, LeftBehind
  <2> QED BY <2>2, <2>3
<1>5. ASSUME NEW i, Arrive(i) \/ Fail(i) PROVE LoadOK(loads'[j], status', live')
  <2>0. i \in DOMAIN loads /\ loads' = Without(i) BY <1>5 DEF Arrive, Fail, Resolved
  <2>1. i \in DOMAIN loads /\ DOMAIN loads = 1 .. Len(loads) /\ Len(loads) \in Nat
    BY <1>0, <2>0
  <2>2. j \in 1 .. Len(loads) - 1 BY <2>0 DEF Without
  <2>3. j \in DOMAIN loads /\ j + 1 \in DOMAIN loads BY <2>1, <2>2
  <2>4. CASE j < i
    <3>1. \E late : loads'[j] = [loads[j] EXCEPT !.late = late]
      BY <2>0, <2>2, <2>4 DEF Without
    <3>2. /\ loads'[j].runs = loads[j].runs /\ loads'[j].view = loads[j].view
          /\ loads'[j].executing = loads[j].executing /\ loads'[j].step = loads[j].step
      BY <1>0, <2>3, <3>1 DEF LoadType
    <3> QED BY <1>0, <2>3, <3>2 DEF LoadOK, LeftBehind
  <2>5. CASE ~(j < i)
    <3>1. loads'[j] = loads[j + 1] BY <2>0, <2>2, <2>5 DEF Without
    <3> QED BY <1>0, <2>3, <3>1
  <2> QED BY <2>4, <2>5
<1>6. CASE Refresh
  <2>1. loads'[j] \in {loads[k] : k \in DOMAIN loads} \/ loads'[j] \in {Asked(Overview), Asked(selected)}
    BY <1>0, <1>6 DEF Refresh
  <2> QED BY <1>0, <2>1, AskedIsOK
<1>7. ASSUME NEW c \in Chats, SelectConversation(c) PROVE LoadOK(loads'[j], status', live')
  <2>1. loads'[j] \in {loads[k] : k \in DOMAIN loads} \/ loads'[j] = Asked(c)
    BY <1>0, <1>7 DEF SelectConversation
  <2> QED BY <1>0, <2>1, AskedIsOK
<1>8. CASE Crash BY <1>8 DEF Crash
<1> QED BY <1>1, <1>2, <1>3, <1>4, <1>5, <1>6, <1>7, <1>8 DEF Next, vars, browser, Start, Mark,
      End, Unmark, Recover, OtherProcess, Publish, Disconnect, Reconnect, Resync, OnEvent, TimerFires

LEMMA StaleStep == ASSUME IInv, [Next]_vars PROVE StaleOK'
<1> SUFFICES ASSUME NEW r \in stale' PROVE LeftBehind(r, status', live')
  BY DEF StaleOK
<1>1. CASE UNCHANGED stale
  BY <1>1, RunsStay DEF IInv, Types, StaleOK
<1>2. ASSUME NEW i, Arrive(i) PROVE LeftBehind(r, status', live')
  <2>1. i \in DOMAIN loads /\ loads[i].step = "answered" /\ LoadOK(loads[i], status, live)
    BY <1>2 DEF Arrive, IInv, LoadsOK
  <2>2. CASE loads[i].view = Overview
    <3>1. r \in Runs /\ loads[i].runs[r] = "running" /\ r \notin loads[i].executing
      BY <1>2, <2>2 DEF Arrive, Stale
    <3> QED BY <2>1, <2>2, <3>1, RunsStay DEF LoadOK
  <2>3. CASE loads[i].view # Overview
    BY <1>2, <2>3, RunsStay DEF Arrive, IInv, Types, StaleOK
  <2> QED BY <2>2, <2>3
<1> QED BY <1>1, <1>2 DEF Next, vars, browser, onView, Start, Mark, End, Unmark, Recover,
      OtherProcess, Publish, Crash, Disconnect, Reconnect, AnswerChat, ReadStore, ReadExecuting, Fail, Resync, OnEvent, TimerFires,
      SelectConversation

LEMMA InitIInv == Init => IInv
<1> SUFFICES ASSUME Init PROVE IInv OBVIOUS
<1> USE BrowserAssumption DEF Init
<1>1. selected \in Views /\ Overview \in Views BY DEF Views
<1>2. loads \in Seq(LoadType) BY <1>1, AskedIsLoad
<1>3. Types BY <1>2 DEF Types, Nothing, Statuses
<1>4. TableOK BY DEF TableOK
<1>5. LoadsOK
  <2>1. \A i \in DOMAIN loads : loads[i] \in {Asked(Overview), Asked(selected)} OBVIOUS
  <2>2. \A v : Asked(v).step = "asked" BY DEF Asked
  <2> QED BY <2>1, <2>2 DEF LoadsOK, LoadOK
<1> QED BY <1>3, <1>4, <1>5 DEF IInv, StaleOK

LEMMA NextIInv == IInv /\ [Next]_vars => IInv'
BY TypesStep, TableStep, LoadsStep, StaleStep DEF IInv

(* The banner never offers to interrupt a run that this server executes, for any runs,
   chats, queue and number of overlapping loads. About the handlers of overviews and
   start_run, and about loadOverview.                                               *)
THEOREM BannerSparesLive == Spec => []LiveRunsAreNotStale
<1>1. IInv => LiveRunsAreNotStale
  BY DEF IInv, StaleOK, LeftBehind, LiveRunsAreNotStale
<1> QED BY InitIInv, NextIInv, <1>1, PTL DEF Spec

-------------------------------------------------------------------------------
(* What settles is current.  Of each view on the screen, the load asked for last that
   no newer one overtook has read nothing yet or what the store holds, and when there
   is none the view is behind or tells what the store holds; or something is still to
   cause a reload.                                                                  *)
Latest(l, i, v) ==
    /\ l[i].view = v /\ ~l[i].late
    /\ \A j \in DOMAIN l : j > i /\ l[j].view = v => l[j].late

Agrees(runs, v, st, q) == \A r \in RunsOf(v) \ q : runs[r] = st[r]

Reads(l, v, st, q) ==
    \A i \in DOMAIN l : Latest(l, i, v) => l[i].step = "asked" \/ Agrees(l[i].runs, v, st, q)

AllLate(l, v) == \A i \in DOMAIN l : l[i].view = v => l[i].late

(* A load that was overtaken was overtaken with those asked for before it. *)
LateOK(l) == \A i, j \in DOMAIN l : i < j /\ l[i].view = l[j].view /\ l[j].late => l[i].late

Reloads == ~connected \/ resync \/ queue > 0 \/ timer \/ unpublished > 0

OverviewOK == Overview \in behind \/ Tells(overview, Overview)
ChatOK     == selected \in behind \/ (chat = selected /\ Tells(turns, selected))

FreshOK ==
    \/ Reloads
    \/ /\ Reads(loads, Overview, status, untold) /\ Reads(loads, selected, status, untold)
       /\ AllLate(loads, Overview) => OverviewOK
       /\ AllLate(loads, selected) => ChatOK

StreamOK == queue \in Nat /\ unpublished \in Nat

FInv == IInv /\ StreamOK /\ LateOK(loads) /\ FreshOK

LEMMA TellsIsAgrees == \A runs, v : Tells(runs, v) <=> Agrees(runs, v, status, untold)
BY DEF Tells, Agrees

LEMMA ShownAgrees == \A v, st, q : Agrees(Shown(v, st), v, st, q)
BY DEF Agrees, Shown

(* A load that is asked for is the latest of its view. *)
LEMMA AskedFresh ==
  ASSUME NEW l \in Seq(LoadType), NEW v \in Views, LateOK(l), NEW st, NEW q
  PROVE  /\ LateOK(Append(l, Asked(v))) /\ Reads(Append(l, Asked(v)), v, st, q)
         /\ ~AllLate(Append(l, Asked(v)), v)
         /\ \A w \in Views \ {v} :
               /\ Reads(l, w, st, q) => Reads(Append(l, Asked(v)), w, st, q)
               /\ AllLate(Append(l, Asked(v)), w) => AllLate(l, w)
<1>1. PICK a : a = Asked(v) OBVIOUS
<1>2. a.view = v /\ a.step = "asked" /\ a.late = FALSE BY <1>1 DEF Asked
<1>3. PICK m : m = Append(l, a) OBVIOUS
<1>4. /\ Len(l) \in Nat /\ DOMAIN l = 1 .. Len(l) /\ DOMAIN m = 1 .. Len(l) + 1
      /\ m[Len(l) + 1] = a /\ \A i \in DOMAIN l : m[i] = l[i]
  BY <1>3
<1>5. LateOK(m) BY <1>2, <1>4 DEF LateOK
<1>6. Reads(m, v, st, q) /\ ~AllLate(m, v)
  <2>1. \A i \in DOMAIN m : Latest(m, i, v) => i = Len(l) + 1 BY <1>2, <1>4 DEF Latest
  <2>2. Len(l) + 1 \in DOMAIN m BY <1>4
  <2> QED BY <1>2, <1>4, <2>1, <2>2 DEF Reads, AllLate
<1>7. ASSUME NEW w \in Views \ {v}
      PROVE  /\ Reads(l, w, st, q) => Reads(m, w, st, q)
             /\ AllLate(m, w) => AllLate(l, w)
  <2>1. ASSUME NEW i \in DOMAIN m, Latest(m, i, w) PROVE i \in DOMAIN l /\ Latest(l, i, w)
    BY <1>2, <1>4, <2>1 DEF Latest
  <2>2. Reads(l, w, st, q) => Reads(m, w, st, q) BY <1>4, <2>1 DEF Reads
  <2>3. AllLate(m, w) => AllLate(l, w) BY <1>4 DEF AllLate
  <2> QED BY <2>2, <2>3
<1> QED BY <1>1, <1>3, <1>5, <1>6, <1>7

(* A load that reads the store reads what it holds. *)
LEMMA ReadFresh ==
  ASSUME NEW l \in Seq(LoadType), LateOK(l), NEW i \in DOMAIN l, NEW x, NEW st, NEW q,
         x.view = l[i].view, x.late = l[i].late,
         \/ x.runs = Shown(x.view, st)
         \/ x.runs = l[i].runs /\ l[i].step # "asked"
  PROVE  /\ LateOK([l EXCEPT ![i] = x])
         /\ \A v \in Views : /\ Reads(l, v, st, q) => Reads([l EXCEPT ![i] = x], v, st, q)
                             /\ AllLate([l EXCEPT ![i] = x], v) => AllLate(l, v)
<1>1. PICK m : m = [l EXCEPT ![i] = x] OBVIOUS
<1>2. DOMAIN m = DOMAIN l /\ m[i] = x /\ \A j \in DOMAIN l : j # i => m[j] = l[j] BY <1>1
<1>3. \A j \in DOMAIN l : m[j].view = l[j].view /\ m[j].late = l[j].late BY <1>2
<1>4. LateOK(m) BY <1>2, <1>3 DEF LateOK
<1>5. ASSUME NEW v \in Views, Reads(l, v, st, q) PROVE Reads(m, v, st, q)
  <2>1. \A j \in DOMAIN l : Latest(m, j, v) <=> Latest(l, j, v) BY <1>2, <1>3 DEF Latest
  <2>2. ASSUME NEW j \in DOMAIN l, Latest(l, j, v)
        PROVE  m[j].step = "asked" \/ Agrees(m[j].runs, v, st, q)
    <3>1. l[j].view = v /\ (l[j].step = "asked" \/ Agrees(l[j].runs, v, st, q))
      BY <1>5, <2>2 DEF Reads, Latest
    <3> QED BY <1>2, <3>1, ShownAgrees
  <2> QED BY <1>2, <2>1, <2>2 DEF Reads
<1>6. \A v : AllLate(m, v) => AllLate(l, v) BY <1>2, <1>3 DEF AllLate
<1> QED BY <1>1, <1>4, <1>5, <1>6

(* The loads without one of them, which overtakes those of its view before it. *)
LEMMA WithoutLoads ==
  ASSUME loads \in Seq(LoadType), NEW i \in DOMAIN loads
  PROVE  /\ DOMAIN Without(i) = 1 .. Len(loads) - 1
         /\ \A k \in 1 .. Len(loads) - 1 :
               IF k < i
               THEN /\ k \in DOMAIN loads
                    /\ Without(i)[k].view = loads[k].view /\ Without(i)[k].step = loads[k].step
                    /\ Without(i)[k].runs = loads[k].runs
                    /\ (Without(i)[k].late <=> loads[k].late \/ loads[k].view = loads[i].view)
               ELSE k + 1 \in DOMAIN loads /\ Without(i)[k] = loads[k + 1]
<1>1. DOMAIN Without(i) = 1 .. Len(loads) - 1 BY DEF Without
<1> SUFFICES ASSUME NEW k \in 1 .. Len(loads) - 1
             PROVE  IF k < i
                    THEN /\ k \in DOMAIN loads
                         /\ Without(i)[k].view = loads[k].view /\ Without(i)[k].step = loads[k].step
                         /\ Without(i)[k].runs = loads[k].runs
                         /\ (Without(i)[k].late <=> loads[k].late \/ loads[k].view = loads[i].view)
                    ELSE k + 1 \in DOMAIN loads /\ Without(i)[k] = loads[k + 1]
  BY <1>1
<1>2. k \in DOMAIN loads /\ k + 1 \in DOMAIN loads /\ loads[k] \in LoadType OBVIOUS
<1>3. PICK late : late = (loads[k].late \/ loads[k].view = loads[i].view) OBVIOUS
<1>4. Without(i)[k] = IF k < i THEN [loads[k] EXCEPT !.late = late] ELSE loads[k + 1]
  BY <1>3 DEF Without
<1>5. PICK x \in LoadType : x = loads[k] BY <1>2
<1>6. /\ [x EXCEPT !.late = late].view = x.view /\ [x EXCEPT !.late = late].step = x.step
      /\ [x EXCEPT !.late = late].runs = x.runs /\ [x EXCEPT !.late = late].late = late
  BY DEF LoadType
<1> QED BY <1>2, <1>3, <1>4, <1>5, <1>6

LEMMA WithoutFresh ==
  ASSUME loads \in Seq(LoadType), LateOK(loads), NEW i \in DOMAIN loads, NEW st, NEW q
  PROVE  /\ LateOK(Without(i))
         /\ \A v \in Views : /\ Reads(loads, v, st, q) => Reads(Without(i), v, st, q)
                             /\ AllLate(Without(i), v) => AllLate(loads, v) \/ Latest(loads, i, v)
<1>1. PICK l : l = loads OBVIOUS
<1>2. PICK m : m = Without(i) OBVIOUS
<1>3. /\ Len(l) \in Nat /\ DOMAIN l = 1 .. Len(l) /\ DOMAIN m = 1 .. Len(l) - 1 /\ i \in 1 .. Len(l)
      /\ \A k \in 1 .. Len(l) - 1 :
               IF k < i
               THEN /\ k \in DOMAIN l
                    /\ m[k].view = l[k].view /\ m[k].step = l[k].step /\ m[k].runs = l[k].runs
                    /\ (m[k].late <=> l[k].late \/ l[k].view = l[i].view)
               ELSE k + 1 \in DOMAIN l /\ m[k] = l[k + 1]
  BY <1>1, <1>2, WithoutLoads
<1>4. LateOK(l) BY <1>1
<1>5. LateOK(m)
  <2> SUFFICES ASSUME NEW p \in DOMAIN m, NEW r \in DOMAIN m, p < r, m[p].view = m[r].view, m[r].late
               PROVE  m[p].late
    BY DEF LateOK
  <2>1. CASE r < i
    <3>1. p \in DOMAIN l /\ r \in DOMAIN l /\ l[p].view = l[r].view BY <1>3, <2>1
    <3>2. CASE l[r].late BY <1>3, <1>4, <2>1, <3>1, <3>2 DEF LateOK
    <3>3. CASE l[r].view = l[i].view BY <1>3, <2>1, <3>1, <3>3
    <3> QED BY <1>3, <2>1, <3>2, <3>3
  <2>2. CASE ~(r < i)
    <3>1. r + 1 \in DOMAIN l /\ l[r + 1].late /\ l[r + 1].view = m[r].view BY <1>3, <2>2
    <3>2. CASE p < i BY <1>3, <1>4, <2>2, <3>1, <3>2 DEF LateOK
    <3>3. CASE ~(p < i)
      <4>1. p + 1 \in DOMAIN l /\ m[p] = l[p + 1] /\ p + 1 < r + 1 BY <1>3, <3>3
      <4> QED BY <3>1, <4>1, <1>4 DEF LateOK
    <3> QED BY <3>2, <3>3
  <2> QED BY <2>1, <2>2
<1>6. ASSUME NEW v \in Views, Reads(l, v, st, q) PROVE Reads(m, v, st, q)
  <2> SUFFICES ASSUME NEW k \in DOMAIN m, Latest(m, k, v)
               PROVE  m[k].step = "asked" \/ Agrees(m[k].runs, v, st, q)
    BY DEF Reads
  <2>1. PICK o : o = IF k < i THEN k ELSE k + 1 OBVIOUS
  <2>2. /\ o \in DOMAIN l /\ m[k].view = l[o].view /\ m[k].step = l[o].step /\ m[k].runs = l[o].runs
        /\ l[o].late => m[k].late
    BY <1>3, <2>1
  <2>3. l[o].view = v /\ ~l[o].late BY <2>2 DEF Latest
  <2>4. o < i => l[i].view # v
    <3> SUFFICES ASSUME o < i, l[i].view = v PROVE FALSE OBVIOUS
    <3>1. k < i /\ o = k BY <1>3, <2>1
    <3>2. m[k].late BY <1>3, <2>3, <3>1
    <3> QED BY <3>2 DEF Latest
  <2>5. ASSUME NEW j \in DOMAIN l, j > o, l[j].view = v PROVE l[j].late
    <3>1. j # i BY <2>4, <2>5
    <3>2. CASE j < i
      <4>1. j \in DOMAIN m /\ j > k /\ m[j].view = v BY <1>3, <2>1, <2>5, <3>2
      <4>2. m[j].late BY <4>1 DEF Latest
      <4>3. l[i].view # v BY <2>4, <2>5, <3>2, <1>3, <2>1
      <4> QED BY <1>3, <2>5, <3>2, <4>1, <4>2, <4>3
    <3>3. CASE j > i
      <4>1. j - 1 \in DOMAIN m /\ j - 1 > k /\ m[j - 1] = l[j] BY <1>3, <2>1, <2>5, <3>3
      <4> QED BY <2>5, <4>1 DEF Latest
    <3> QED BY <1>3, <3>1, <3>2, <3>3
  <2>6. Latest(l, o, v) BY <2>3, <2>5 DEF Latest
  <2> QED BY <1>6, <2>2, <2>6 DEF Reads
<1>7. ASSUME NEW v \in Views, AllLate(m, v), ~Latest(l, i, v) PROVE AllLate(l, v)
  <2>1. ASSUME NEW j \in DOMAIN l, j > i, l[j].view = v PROVE l[j].late
    <3>1. j - 1 \in DOMAIN m /\ m[j - 1] = l[j] BY <1>3, <2>1
    <3> QED BY <1>7, <2>1, <3>1 DEF AllLate
  <2>2. l[i].view # v \/ l[i].late BY <1>7, <2>1 DEF Latest
  <2> SUFFICES ASSUME NEW j \in DOMAIN l, l[j].view = v PROVE l[j].late BY DEF AllLate
  <2>3. CASE j > i BY <2>1, <2>3
  <2>4. CASE j = i BY <2>2, <2>4
  <2>5. CASE j < i
    <3>1. CASE l[i].view = v BY <1>3, <1>4, <2>2, <2>5, <3>1 DEF LateOK
    <3>2. CASE l[i].view # v
      <4>1. j \in DOMAIN m /\ m[j].view = v /\ (m[j].late <=> l[j].late) BY <1>3, <2>5, <3>2
      <4> QED BY <1>7, <4>1 DEF AllLate
    <3> QED BY <3>1, <3>2
  <2> QED BY <1>3, <2>3, <2>4, <2>5
<1> QED BY <1>1, <1>2, <1>5, <1>6, <1>7

-------------------------------------------------------------------------------
(* Nothing of the store, of what is shown and of the loads changes. *)
LEMMA SameFresh ==
  ASSUME FInv, IInv', UNCHANGED <<status, untold, loads, overview, chat, turns, behind, selected>>,
         Reloads => Reloads', StreamOK'
  PROVE  FInv'
BY DEF FInv, FreshOK, OverviewOK, ChatOK, Tells

LEMMA ReloadsFresh == ASSUME FInv, IInv', StreamOK', LateOK(loads'), Reloads' PROVE FInv'
BY DEF FInv, FreshOK

LEMMA ViewsShown ==
  ASSUME IInv PROVE selected \in Views /\ Overview \in Views /\ selected # Overview
BY BrowserAssumption DEF IInv, Types, Views

LEMMA RefreshFresh ==
  ASSUME FInv, IInv', StreamOK', Refresh, UNCHANGED selected
  PROVE  FInv'
<1>1. selected \in Views /\ Overview \in Views /\ selected # Overview BY ViewsShown DEF FInv
<1>2. loads \in Seq(LoadType) /\ LateOK(loads) BY DEF FInv, IInv, Types
<1>3. PICK l : l = Append(loads, Asked(Overview)) OBVIOUS
<1>4. l \in Seq(LoadType) BY <1>1, <1>2, <1>3, AskedIsLoad
<1>5. LateOK(l) /\ Reads(l, Overview, status', untold') /\ ~AllLate(l, Overview)
  BY <1>1, <1>2, <1>3, AskedFresh
<1>6. PICK m : m = Append(l, Asked(selected)) OBVIOUS
<1>7. /\ LateOK(m) /\ Reads(m, selected, status', untold') /\ Reads(m, Overview, status', untold')
      /\ ~AllLate(m, selected) /\ ~AllLate(m, Overview)
  BY <1>1, <1>4, <1>5, <1>6, AskedFresh
<1>8. loads' = m
  <2>1. PICK a : a = Asked(Overview) OBVIOUS
  <2>2. PICK b : b = Asked(selected) OBVIOUS
  <2> QED BY <1>2, <1>3, <1>6, <2>1, <2>2 DEF Refresh
<1> QED BY <1>7, <1>8 DEF FInv, FreshOK

LEMMA ReadStep ==
  ASSUME FInv, IInv', NEW i, AnswerChat(i) \/ ReadStore(i) \/ ReadExecuting(i)
  PROVE  FInv'
<1>0. loads \in Seq(LoadType) /\ LateOK(loads) BY DEF FInv, IInv, Types
<1>1. i \in DOMAIN loads BY DEF AnswerChat, ReadStore, ReadExecuting
<1>2. PICK y \in LoadType : y = loads[i] BY <1>0, <1>1
<1>3. PICK x : /\ loads' = [loads EXCEPT ![i] = x]
               /\ x.view = y.view /\ x.late = y.late
               /\ x.runs = Shown(x.view, status) \/ (x.runs = y.runs /\ y.step # "asked")
  <2>1. CASE ReadExecuting(i)
    <3>1. PICK x : x = [y EXCEPT !.executing = executing, !.step = "answered"] OBVIOUS
    <3>2. x.view = y.view /\ x.late = y.late /\ x.runs = y.runs BY <3>1 DEF LoadType
    <3>3. loads' = [loads EXCEPT ![i] = x] BY <1>0, <1>1, <1>2, <2>1, <3>1 DEF ReadExecuting
    <3>4. y.step # "asked" BY <1>2, <2>1 DEF ReadExecuting
    <3> QED BY <3>2, <3>3, <3>4
  <2>2. CASE AnswerChat(i) \/ ReadStore(i)
    <3>1. PICK step : loads' = [loads EXCEPT ![i].runs = Shown(loads[i].view, status), ![i].step = step]
      BY <2>2 DEF AnswerChat, ReadStore
    <3>2. PICK s : s = Shown(loads[i].view, status) OBVIOUS
    <3>3. PICK x : x = [y EXCEPT !.runs = s, !.step = step] OBVIOUS
    <3>4. x.view = y.view /\ x.late = y.late /\ x.runs = s BY <3>3 DEF LoadType
    <3>5. loads' = [loads EXCEPT ![i] = x] BY <1>0, <1>1, <1>2, <3>1, <3>2, <3>3
    <3> QED BY <1>2, <3>2, <3>4, <3>5
  <2> QED BY <2>1, <2>2
<1>4. UNCHANGED <<status, untold, unpublished, connected, resync, queue, timer, selected>>
      /\ UNCHANGED <<overview, chat, turns, behind>>
  BY DEF AnswerChat, ReadStore, ReadExecuting, server, stream, onView
<1>5. /\ LateOK(loads')
      /\ \A v \in Views : /\ Reads(loads, v, status, untold) => Reads(loads', v, status, untold)
                          /\ AllLate(loads', v) => AllLate(loads, v)
  BY <1>0, <1>1, <1>2, <1>3, ReadFresh
<1>6. Overview \in Views /\ selected \in Views BY ViewsShown DEF FInv
<1>7. (OverviewOK => OverviewOK') /\ (ChatOK => ChatOK') BY <1>4 DEF OverviewOK, ChatOK, Tells
<1>8. FreshOK'
  <2>1. CASE Reloads BY <1>4, <2>1 DEF FreshOK, Reloads
  <2>2. CASE ~Reloads BY <1>4, <1>5, <1>6, <1>7, <2>2 DEF FInv, FreshOK
  <2> QED BY <2>1, <2>2
<1> QED BY <1>4, <1>5, <1>8 DEF FInv, StreamOK

(* A load arrives or fails: its view is behind, or tells what the load read. *)
LEMMA ResolvedStep == ASSUME FInv, IInv', NEW i, Arrive(i) \/ Fail(i) PROVE FInv'
<1>0. loads \in Seq(LoadType) /\ LateOK(loads) BY DEF FInv, IInv, Types
<1>1. /\ i \in DOMAIN loads /\ loads' = Without(i)
      /\ UNCHANGED <<status, untold, unpublished, connected, resync, queue, timer, selected>>
  BY DEF Arrive, Fail, Resolved, server, stream
<1>2. /\ LateOK(loads')
      /\ \A v \in Views : /\ Reads(loads, v, status, untold) => Reads(loads', v, status, untold)
                          /\ AllLate(loads', v) => AllLate(loads, v) \/ Latest(loads, i, v)
  BY <1>0, <1>1, WithoutFresh
<1>3. Overview \in Views /\ selected \in Views /\ selected # Overview BY ViewsShown DEF FInv
<1>4. ASSUME ~Reloads, AllLate(loads', Overview) PROVE OverviewOK'
  <2>1. AllLate(loads, Overview) \/ Latest(loads, i, Overview) BY <1>2, <1>3, <1>4
  <2>2. /\ AllLate(loads, Overview) => OverviewOK
        /\ Latest(loads, i, Overview) =>
              loads[i].step = "asked" \/ Agrees(loads[i].runs, Overview, status, untold)
    BY <1>1, <1>4 DEF FInv, FreshOK, Reads
  <2>3. CASE loads[i].view # Overview
    <3>1. AllLate(loads, Overview) BY <2>1, <2>3 DEF Latest
    <3>2. overview' = overview /\ (Overview \in behind => Overview \in behind')
      BY <2>3 DEF Arrive, Fail
    <3> QED BY <1>1, <2>2, <3>1, <3>2 DEF OverviewOK, Tells
  <2>4. CASE loads[i].view = Overview /\ loads[i].late
    <3>1. AllLate(loads, Overview) BY <2>1, <2>4 DEF Latest
    <3>2. CASE Arrive(i) BY <2>4, <3>2 DEF Arrive, OverviewOK
    <3>3. CASE Fail(i) BY <1>1, <2>2, <2>4, <3>1, <3>3 DEF Fail, OverviewOK, Tells
    <3> QED BY <3>2, <3>3
  <2>5. CASE loads[i].view = Overview /\ ~loads[i].late
    <3>1. Latest(loads, i, Overview) BY <2>1, <2>5, <1>1 DEF AllLate
    <3>2. CASE Arrive(i)
      <4>1. Agrees(loads[i].runs, Overview, status, untold) BY <2>2, <3>1, <3>2 DEF Arrive
      <4>2. overview' = loads[i].runs BY <2>5, <3>2 DEF Arrive
      <4> QED BY <1>1, <4>1, <4>2 DEF OverviewOK, Tells, Agrees
    <3>3. CASE Fail(i) BY <2>5, <3>3 DEF Fail, OverviewOK
    <3> QED BY <3>2, <3>3
  <2> QED BY <2>3, <2>4, <2>5
<1>5. ASSUME ~Reloads, AllLate(loads', selected) PROVE ChatOK'
  <2>1. AllLate(loads, selected) \/ Latest(loads, i, selected) BY <1>2, <1>3, <1>5
  <2>2. /\ AllLate(loads, selected) => ChatOK
        /\ Latest(loads, i, selected) =>
              loads[i].step = "asked" \/ Agrees(loads[i].runs, selected, status, untold)
    BY <1>1, <1>5 DEF FInv, FreshOK, Reads
  <2>3. CASE loads[i].view # selected
    <3>1. AllLate(loads, selected) BY <2>1, <2>3 DEF Latest
    <3>2. chat' = chat /\ turns' = turns /\ (selected \in behind => selected \in behind')
      BY <2>3 DEF Arrive, Fail
    <3> QED BY <1>1, <2>2, <3>1, <3>2 DEF ChatOK, Tells
  <2>4. CASE loads[i].view = selected /\ loads[i].late
    <3>1. AllLate(loads, selected) BY <2>1, <2>4 DEF Latest
    <3>2. CASE Arrive(i) BY <1>1, <2>4, <3>2 DEF Arrive, ChatOK
    <3>3. CASE Fail(i) BY <1>1, <2>2, <2>4, <3>1, <3>3 DEF Fail, ChatOK, Tells
    <3> QED BY <3>2, <3>3
  <2>5. CASE loads[i].view = selected /\ ~loads[i].late
    <3>1. Latest(loads, i, selected) BY <2>1, <2>5, <1>1 DEF AllLate
    <3>2. CASE Arrive(i)
      <4>1. Agrees(loads[i].runs, selected, status, untold) BY <2>2, <3>1, <3>2 DEF Arrive
      <4>2. turns' = loads[i].runs /\ chat' = selected BY <1>3, <2>5, <3>2 DEF Arrive
      <4> QED BY <1>1, <4>1, <4>2 DEF ChatOK, Tells, Agrees
    <3>3. CASE Fail(i) BY <1>1, <2>5, <3>3 DEF Fail, ChatOK
    <3> QED BY <3>2, <3>3
  <2> QED BY <2>3, <2>4, <2>5
<1>6. FreshOK'
  <2>1. CASE Reloads BY <1>1, <2>1 DEF FreshOK, Reloads
  <2>2. CASE ~Reloads BY <1>1, <1>2, <1>3, <1>4, <1>5, <2>2 DEF FInv, FreshOK
  <2> QED BY <2>1, <2>2
<1> QED BY <1>1, <1>2, <1>6 DEF FInv, StreamOK

LEMMA SelectStep == ASSUME FInv, IInv', NEW c \in Chats, SelectConversation(c) PROVE FInv'
<1>0. loads \in Seq(LoadType) /\ LateOK(loads) BY DEF FInv, IInv, Types
<1>1. c \in Views /\ Overview \in Views \ {c} BY BrowserAssumption DEF Views
<1>2. /\ UNCHANGED <<status, untold, unpublished, connected, resync, queue, timer, overview>>
      /\ selected' = c /\ loads' = Append(loads, Asked(c)) /\ behind' = behind \ {selected}
  BY DEF SelectConversation, server, stream
<1>3. /\ LateOK(loads') /\ Reads(loads', c, status, untold) /\ ~AllLate(loads', c)
      /\ Reads(loads, Overview, status, untold) => Reads(loads', Overview, status, untold)
      /\ AllLate(loads', Overview) => AllLate(loads, Overview)
  BY <1>0, <1>1, <1>2, AskedFresh
<1>4. OverviewOK => OverviewOK'
  <2>1. selected # Overview BY ViewsShown DEF FInv
  <2> QED BY <1>2, <2>1 DEF OverviewOK, Tells
<1> QED BY <1>2, <1>3, <1>4 DEF FInv, StreamOK, FreshOK, Reloads

(* What another process commits is untold, and changes nothing else. *)
LEMMA OtherStep == ASSUME FInv, IInv', NEW p \in Runs, OtherProcess(p) PROVE FInv'
<1>1. /\ UNCHANGED <<unpublished, connected, resync, queue, timer, loads, selected>>
      /\ UNCHANGED <<overview, chat, turns, behind>>
      /\ untold' = untold \cup {p} /\ \A r \in Runs \ {p} : status'[r] = status[r]
  BY DEF OtherProcess, stream, browser, onView, FInv, IInv, Types
<1>2. ASSUME NEW runs, NEW v, Agrees(runs, v, status, untold)
      PROVE  Agrees(runs, v, status', untold')
  BY <1>1, <1>2 DEF Agrees, RunsOf
<1>3. \A v : Reads(loads, v, status, untold) => Reads(loads', v, status', untold')
  BY <1>1, <1>2 DEF Reads
<1>4. (OverviewOK => OverviewOK') /\ (ChatOK => ChatOK')
  BY <1>1, <1>2 DEF OverviewOK, ChatOK, Tells, Agrees
<1> QED BY <1>1, <1>3, <1>4 DEF FInv, StreamOK, FreshOK, Reloads

LEMMA InitFInv == Init => FInv
<1> SUFFICES ASSUME Init PROVE FInv OBVIOUS
<1>1. StreamOK BY DEF Init, StreamOK
<1>2. LateOK(loads)
  <2>1. \A v : Asked(v).late = FALSE BY DEF Asked
  <2>2. \A i \in DOMAIN loads : loads[i] \in {Asked(Overview), Asked(selected)} BY DEF Init
  <2> QED BY <2>1, <2>2 DEF LateOK
<1>3. Reloads BY DEF Init, Reloads
<1> QED BY <1>1, <1>2, <1>3, InitIInv DEF FInv, FreshOK

LEMMA NextFInv == FInv /\ [Next]_vars => FInv'
<1> SUFFICES ASSUME FInv, [Next]_vars PROVE FInv' OBVIOUS
<1>0. IInv' BY NextIInv DEF FInv
<1>1. CASE UNCHANGED vars
  BY <1>0, <1>1, SameFresh DEF vars, server, stream, browser, onView, FInv, StreamOK, Reloads
<1>2. ASSUME NEW r \in Runs, Start(r) \/ End(r) PROVE FInv'
  BY <1>0, <1>2, ReloadsFresh DEF Start, End, stream, browser, FInv, StreamOK, Reloads
<1>3. ASSUME NEW r \in Runs, Mark(r) \/ Unmark(r) PROVE FInv'
  BY <1>0, <1>3, SameFresh DEF Mark, Unmark, stream, browser, onView, FInv, StreamOK, Reloads
<1>4. CASE Recover
  BY <1>0, <1>4, ReloadsFresh DEF Recover, stream, browser, FInv, StreamOK, Reloads
<1>5. CASE Publish
  <2>1. Reloads' BY <1>5, BrowserAssumption DEF Publish, Reloads, FInv, StreamOK
  <2> QED BY <1>0, <1>5, <2>1, ReloadsFresh DEF Publish, browser, FInv, StreamOK
<1>6. CASE Crash
  <2>1. LateOK(loads') BY <1>6 DEF Crash, LateOK
  <2> QED BY <1>0, <1>6, <2>1, ReloadsFresh DEF Crash, FInv, StreamOK, Reloads
<1>7. CASE Disconnect \/ Reconnect
  BY <1>0, <1>7, ReloadsFresh DEF Disconnect, Reconnect, server, browser, FInv, StreamOK, Reloads
<1>8. CASE \E i \in DOMAIN loads : \/ AnswerChat(i) \/ ReadStore(i) \/ ReadExecuting(i)
                                   \/ Arrive(i) \/ Fail(i)
  BY <1>0, <1>8, ReadStep, ResolvedStep
<1>9. CASE Resync \/ TimerFires
  <2>1. Refresh /\ StreamOK' /\ UNCHANGED selected
    BY <1>9 DEF Resync, TimerFires, server, stream, FInv, StreamOK
  <2> QED BY <1>0, <2>1, RefreshFresh
<1>10. CASE OnEvent
  BY <1>0, <1>10, ReloadsFresh DEF OnEvent, server, FInv, StreamOK, Reloads
<1>11. ASSUME NEW c \in Chats, SelectConversation(c) PROVE FInv' BY <1>0, <1>11, SelectStep
<1>12. ASSUME NEW r \in Runs, OtherProcess(r) PROVE FInv' BY <1>0, <1>12, OtherStep
<1> QED BY <1>1, <1>2, <1>3, <1>4, <1>5, <1>6, <1>7, <1>8, <1>9, <1>10, <1>11, <1>12 DEF Next

(* Once nothing is on its way, the overview and the chat on the screen are the ones
   selected and tell every run that this server changed last as the store holds it, for
   any runs, chats, channel and number of overlapping loads, except a view whose load
   asked for last failed or was overtaken by an earlier one.  About the event stream,
   loadOverview and loadConversation.                                                  *)
THEOREM SettledViewsAreCurrent == Spec => []SettledIsCurrent
<1>1. FInv => SettledIsCurrent
  <2> SUFFICES ASSUME FInv, Settled PROVE SettledIsCurrent BY DEF SettledIsCurrent
  <2>1. ~Reloads BY DEF Settled, Reloads, FInv, StreamOK
  <2>2. DOMAIN loads = {} BY DEF Settled
  <2>3. AllLate(loads, Overview) /\ AllLate(loads, selected) BY <2>2 DEF AllLate
  <2> QED BY <2>1, <2>3 DEF FInv, FreshOK, OverviewOK, ChatOK, SettledIsCurrent
<1> QED BY <1>1, InitFInv, NextFInv, PTL DEF Spec
===============================================================================
