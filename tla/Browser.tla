-------------------------------- MODULE Browser --------------------------------
(* The browser application over the server's views and its stream of events: the
   overview with the runs the server executes, the chat that is selected, the
   broadcast that tells of committed events or of having lost some, and the reloads
   it causes, which overlap, may be answered in any order, and may fail.

   A view is what the store says of the runs, so a snapshot of status is a view.
   Another process of the project commits to the same store without an event here. *)
EXTENDS Naturals, Sequences, FiniteSets

CONSTANTS Runs, Chats, ChatOf,
          NoRun, NoChat, Overview,  \* nothing, and the view that is no chat
          QueueSize,                \* events the channel keeps for a subscriber
          MaxLoads,                 \* loads in flight
          Failing                   \* bound: the views whose loads may fail

ASSUME BrowserAssumption ==
    /\ NoRun \notin Runs /\ NoChat \notin Chats /\ Overview \notin Chats
    /\ ChatOf \in [Runs -> Chats] /\ QueueSize \in Nat \ {0} /\ MaxLoads \in Nat
    /\ Failing \subseteq Chats \cup {Overview}

VARIABLES
    status, live, executing, lock,  \* the store, the tasks of runs, the table, who holds it
    unpublished,                    \* committed events the listener has yet to publish
    connected, resync, queue,       \* the subscription: whether it is to resync, its events
    timer, loads,                   \* the debounced refresh and the requests in flight
    selected,                       \* the chat selected
    overview, stale,                \* the runs of the overview shown, those it flags as stale
    chat, turns,                    \* the chat shown and its runs
    untold, behind                  \* history: the runs that another process changed last;
                                    \* the views on the screen whose load asked for last
                                    \* failed, or came before one asked for earlier

server  == <<status, live, executing, lock, unpublished, untold>>
stream  == <<connected, resync, queue>>
onView  == <<overview, stale, chat, turns, behind>>
browser == <<timer, loads, selected, onView>>
vars    == <<server, stream, browser>>

Views == Chats \cup {Overview}
RunsOf(view) == {r \in Runs : view \in {ChatOf[r], Overview}}
Nothing == [r \in Runs |-> "none"]
Shown(view, runs) == [r \in RunsOf(view) |-> runs[r]]
Asked(view) == [view |-> view, step |-> "asked", runs |-> Shown(view, Nothing),
                executing |-> {}, late |-> FALSE]

Init ==
    /\ status = Nothing /\ live = {} /\ executing = {} /\ lock = NoRun /\ unpublished = 0
    /\ connected = FALSE /\ resync = FALSE /\ queue = 0
    /\ timer = FALSE /\ selected \in Chats /\ loads = <<Asked(Overview), Asked(selected)>>
    /\ overview = Nothing /\ stale = {} /\ chat = NoChat /\ turns = <<>>
    /\ untold = {} /\ behind = {}

--------------------------------------------------------------------------------
(* The server. start_run holds the table from recording a run to marking it.     *)

Start(r) ==
    /\ status[r] = "none" /\ lock = NoRun
    /\ status' = [status EXCEPT ![r] = "running"] /\ live' = live \cup {r} /\ lock' = r
    /\ unpublished' = unpublished + 1 /\ untold' = untold \ {r}
    /\ UNCHANGED <<executing, stream, browser>>

Mark(r) ==
    /\ lock = r /\ lock' = NoRun /\ executing' = executing \cup {r}
    /\ UNCHANGED <<status, live, unpublished, untold, stream, browser>>

End(r) ==
    /\ r \in executing /\ status[r] = "running"
    /\ status' = [status EXCEPT ![r] = "ended"] /\ unpublished' = unpublished + 1
    /\ untold' = untold \ {r}
    /\ UNCHANGED <<live, executing, lock, stream, browser>>

(* The task leaves the table, also when a store failure left its run running. *)
Unmark(r) ==
    /\ r \in executing /\ lock = NoRun
    /\ executing' = executing \ {r} /\ live' = live \ {r}
    /\ UNCHANGED <<status, lock, unpublished, untold, stream, browser>>

(* The banner's button: runs that are running and not executed are interrupted. *)
Recover ==
    /\ lock = NoRun
    /\ LET left == {r \in Runs : status[r] = "running" /\ r \notin executing}
       IN /\ left # {}
          /\ status' = [r \in Runs |-> IF r \in left THEN "ended" ELSE status[r]]
          /\ untold' = untold \ left
    /\ unpublished' = unpublished + 1
    /\ UNCHANGED <<live, executing, lock, stream, browser>>

(* Another process starts a run or ends one, be it by recovering it from this server.
   Its listener is its own: no event of this server tells of it.                 *)
OtherProcess(r) ==
    /\ \/ status[r] = "none" /\ status' = [status EXCEPT ![r] = "running"]
       \/ status[r] = "running" /\ status' = [status EXCEPT ![r] = "ended"]
    /\ untold' = untold \cup {r}
    /\ UNCHANGED <<live, executing, lock, unpublished, stream, browser>>

(* The listener publishes; a subscriber that is too far behind loses its oldest
   event, which BroadcastStream reports before the events it still has.          *)
Publish ==
    /\ unpublished > 0 /\ unpublished' = unpublished - 1
    /\ queue' = IF connected /\ queue < QueueSize THEN queue + 1 ELSE queue
    /\ resync' = (resync \/ (connected /\ queue = QueueSize))
    /\ UNCHANGED <<status, live, executing, lock, untold, connected, browser>>

(* The process dies with its tasks, its table and the requests it was answering. *)
Crash ==
    /\ live' = {} /\ executing' = {} /\ lock' = NoRun /\ unpublished' = 0
    /\ connected' = FALSE /\ resync' = FALSE /\ queue' = 0
    /\ loads' = <<>>
    /\ UNCHANGED <<status, untold, timer, selected, onView>>

(* The stream breaks; EventSource connects again, and its open event resyncs. *)
Disconnect ==
    /\ connected /\ connected' = FALSE /\ resync' = FALSE /\ queue' = 0
    /\ UNCHANGED <<server, browser>>

(* Mutant of Reconnect: opening the stream loads nothing. *)
ReconnectQuietly ==
    /\ ~connected /\ connected' = TRUE /\ resync' = FALSE /\ queue' = 0
    /\ UNCHANGED <<server, browser>>

Reconnect ==
    /\ ~connected /\ connected' = TRUE /\ resync' = TRUE /\ queue' = 0
    /\ UNCHANGED <<server, browser>>

--------------------------------------------------------------------------------
(* The answers to loads. The store is read first, and the table afterwards.      *)

AnswerChat(i) ==
    /\ i \in DOMAIN loads /\ loads[i].view # Overview /\ loads[i].step = "asked"
    /\ loads' = [loads EXCEPT ![i].runs = Shown(loads[i].view, status), ![i].step = "answered"]
    /\ UNCHANGED <<server, stream, timer, selected, onView>>

ReadStore(i) ==
    /\ i \in DOMAIN loads /\ loads[i].view = Overview /\ loads[i].step = "asked"
    /\ loads' = [loads EXCEPT ![i].runs = Shown(loads[i].view, status), ![i].step = "store"]
    /\ UNCHANGED <<server, stream, timer, selected, onView>>

(* Mutant of ReadExecuting: the table is read under a start that holds it. *)
ReadExecutingUnlocked(i) ==
    /\ i \in DOMAIN loads /\ loads[i].step = "store"
    /\ loads' = [loads EXCEPT ![i].executing = executing, ![i].step = "answered"]
    /\ UNCHANGED <<server, stream, timer, selected, onView>>

ReadExecuting(i) ==
    /\ i \in DOMAIN loads /\ loads[i].step = "store" /\ lock = NoRun
    /\ loads' = [loads EXCEPT ![i].executing = executing, ![i].step = "answered"]
    /\ UNCHANGED <<server, stream, timer, selected, onView>>

(* The runs an overview shows as left behind by a crashed process. *)
Stale(answer) == {r \in Runs : answer.runs[r] = "running"} \ answer.executing

(* The loads without load i; those of its view that were asked for earlier are late. *)
Without(i) ==
    [k \in 1 .. Len(loads) - 1 |->
        IF k < i THEN [loads[k] EXCEPT !.late = @ \/ loads[k].view = loads[i].view]
        ELSE loads[k + 1]]

Resolved(i) == loads' = Without(i) /\ UNCHANGED <<server, stream, timer, selected>>

(* An answer is shown when it arrives, unless it is of a chat no longer selected;
   that a newer one of its view arrived before is not looked at.                 *)
Arrive(i) ==
    /\ i \in DOMAIN loads /\ loads[i].step = "answered" /\ Resolved(i)
    /\ LET load == loads[i]
       IN IF load.view = Overview
          THEN overview' = load.runs /\ stale' = Stale(load) /\ UNCHANGED <<chat, turns>>
          ELSE /\ IF load.view = selected THEN chat' = selected /\ turns' = load.runs
                  ELSE UNCHANGED <<chat, turns>>
               /\ UNCHANGED <<overview, stale>>
    /\ behind' = IF loads[i].late THEN behind \cup ({loads[i].view} \cap {Overview, selected})
                 ELSE behind \ {loads[i].view}

(* The server is out of reach or answers with an error: the refresh shows the error,
   keeps what it shows, and is not tried again.                                  *)
Fail(i) ==
    /\ i \in DOMAIN loads /\ loads[i].step = "asked" /\ loads[i].view \in Failing
    /\ Resolved(i)
    /\ behind' = IF loads[i].late THEN behind
                 ELSE behind \cup ({loads[i].view} \cap {Overview, selected})
    /\ UNCHANGED <<overview, stale, chat, turns>>

--------------------------------------------------------------------------------
(* What makes the browser load.                                                  *)

Refresh == /\ Len(loads) + 2 <= MaxLoads
           /\ loads' = loads \o <<Asked(Overview), Asked(selected)>>

Resync ==
    /\ resync /\ resync' = FALSE /\ Refresh
    /\ UNCHANGED <<server, connected, queue, timer, selected, onView>>

OnEvent ==
    /\ ~resync /\ queue > 0 /\ queue' = queue - 1
    /\ timer' = TRUE
    /\ UNCHANGED <<server, connected, resync, loads, selected, onView>>

TimerFires ==
    /\ timer /\ timer' = FALSE /\ Refresh
    /\ UNCHANGED <<server, stream, selected, onView>>

SelectConversation(c) ==
    /\ c # selected /\ Len(loads) < MaxLoads
    /\ selected' = c /\ loads' = Append(loads, Asked(c)) /\ behind' = behind \ {selected}
    /\ UNCHANGED <<server, stream, timer, overview, stale, chat, turns>>

Next ==
    \/ \E r \in Runs : Start(r) \/ Mark(r) \/ End(r) \/ Unmark(r) \/ OtherProcess(r)
    \/ Recover \/ Publish \/ Crash \/ Disconnect \/ Reconnect
    \/ \E i \in DOMAIN loads : AnswerChat(i) \/ ReadStore(i) \/ ReadExecuting(i) \/ Arrive(i) \/ Fail(i)
    \/ Resync \/ OnEvent \/ TimerFires
    \/ \E c \in Chats : SelectConversation(c)

Spec == Init /\ [][Next]_vars

--------------------------------------------------------------------------------
(* The banner never offers to interrupt a run that this server is executing, however
   the overview's two reads fall between the steps of starts and ends. About the
   handlers of overviews and start_run.                                          *)
LiveRunsAreNotStale == \A r \in stale : ~(status[r] = "running" /\ r \in live)

Settled == connected /\ ~resync /\ queue = 0 /\ ~timer /\ loads = <<>> /\ unpublished = 0

(* What is shown of a view tells of its runs that this server changed last what the
   store holds.                                                                  *)
Tells(runs, view) == \A r \in RunsOf(view) \ untold : runs[r] = status[r]

(* Once nothing is on its way, the overview and the chat on the screen are the ones
   selected and tell every run that this server changed last as the store holds it,
   after any loss of events, reconnection or restart of the server, except a view
   whose load asked for last failed or was overtaken by an earlier one: those stay
   as they are until the next event. About the event stream and its reloads.     *)
SettledIsCurrent == Settled =>
    /\ Overview \in behind \/ Tells(overview, Overview)
    /\ selected \in behind \/ (chat = selected /\ Tells(turns, selected))
================================================================================
