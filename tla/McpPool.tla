-------------------------------- MODULE McpPool --------------------------------
(***************************************************************************)
(* The pool of one MCP server's sessions (crates/dagos-mcp/src/lib.rs) and *)
(* the client that speaks to its processes (client.rs).  Sessions of       *)
(* different servers share nothing but a lock held for lookups, so one     *)
(* server stands for each.                                                 *)
(*                                                                         *)
(* The discoverer starts the server and lists its tools; then the runs'    *)
(* calls share the session, whose lock serves them in order.  A call is a  *)
(* future: the run that awaits it may drop it at any await (tool_timeout,  *)
(* a stop), in the middle of writing a line too.  The server answers what  *)
(* it is asked in any order, late or never, writes other lines, and exits. *)
(*                                                                         *)
(* A request is <<actor, serial>>, which the protocol does not see: it     *)
(* knows a request by the id the client gave it.                           *)
(***************************************************************************)
EXTENDS Integers, FiniteSets, SequencesExt

CONSTANTS
    Callers, Discoverer,
    Pages,            \* the tools of each page of the server's listing
    MaxPages,         \* MAX_PAGES
    MaxCalls,         \* bound: calls of a caller
    MaxSessions,      \* bound: processes started
    MaxNoise          \* bound: lines of the server that answer nothing

ASSUME ActorsAssumption == Discoverer \notin Callers
ASSUME PagesAssumption == Len(Pages) \in Nat /\ DOMAIN Pages = 1 .. Len(Pages)
ASSUME BoundsAssumption ==
    /\ MaxPages \in Nat \ {0}
    /\ MaxCalls \in Nat /\ MaxSessions \in Nat /\ MaxNoise \in Nat

Actors == Callers \cup {Discoverer}
Sessions == 1 .. MaxSessions
Tools == UNION {Pages[i] : i \in DOMAIN Pages}
Configs == [enabled : BOOLEAN, off : SUBSET Tools]

VARIABLES
    \* McpPool.
    current,      \* sessions: the session in the map, 0 if none
    config,       \* whether the server is enabled, its tools whose policy is `off`
    listed,       \* how it answered discovery
    offered,      \* the tools of the capabilities last computed
    \* Session, by number: its next id, the line written in part, the requests the
    \* server has yet to answer, the lines it wrote, and who holds or awaits its lock.
    spawned, exited, session,
    \* Each actor: its step, what it is asking for, its session, the id and the
    \* serial of its request, its page, the tools so far, the answer accepted.
    at, purpose, sess, awaited, serial, page, tools, answer,
    calls,        \* how many calls each has begun
    noise

pool == <<current, config, listed, offered>>
procs == <<spawned, exited, session>>
locals == <<at, purpose, sess, awaited, serial, page, tools, answer, calls>>
vars == <<current, config, listed, offered, spawned, exited, session,
          at, purpose, sess, awaited, serial, page, tools, answer, calls, noise>>

NoRequest == <<>>
NoId == 0

Init ==
    /\ current = 0
    /\ config = [enabled |-> TRUE, off |-> {}]
    /\ listed = [state |-> "none", tools |-> {}]
    /\ offered = {}
    /\ spawned = 0
    /\ exited = {}
    /\ session = [s \in Sessions |->
                     [next |-> 1, torn |-> FALSE, pending |-> {}, out |-> <<>>, queue |-> <<>>]]
    /\ at = [a \in Actors |-> "idle"]
    /\ purpose = [a \in Actors |-> IF a = Discoverer THEN "list" ELSE "call"]
    /\ sess = [a \in Actors |-> 0]
    /\ awaited = [a \in Actors |-> NoId]
    /\ serial = [a \in Actors |-> 0]
    /\ page = [a \in Actors |-> 1]
    /\ tools = [a \in Actors |-> {}]
    /\ answer = [a \in Actors |-> NoRequest]
    /\ calls = [a \in Actors |-> 0]
    /\ noise = 0

Goto(a, from, step) == at[a] = from /\ at' = [at EXCEPT ![a] = step]

(* A session dropped by the map and by every call is killed (kill_on_drop). *)
Running(s) ==
    /\ s \in 1 .. spawned /\ s \notin exited
    /\ s = current \/ \E a \in Actors : sess[a] = s

(* is_live: a session that is locked is not asked whether its process runs. *)
IsLive(s) == session[s].queue # <<>> \/ Running(s)

(* capabilities: nothing of a server that is disabled, or failed. *)
Capabilities(answered, settings) ==
    IF settings.enabled THEN answered.tools \ settings.off ELSE {}

--------------------------------------------------------------------------------
(* The pool *)

(* The discoverer runs before the pool is installed, once; calls name tools that
   were offered then, and read the server from the configuration. *)
Begin(a) ==
    /\ calls[a] < (IF a = Discoverer THEN 1 ELSE MaxCalls)
    /\ a = Discoverer \/ (listed.state = "ok" /\ listed.tools # {})
    /\ config.enabled
    /\ Goto(a, "idle", "lookup")
    /\ calls' = [calls EXCEPT ![a] = @ + 1]
    /\ UNCHANGED <<pool, procs, purpose, sess, awaited, serial, page, tools, answer, noise>>

(* live_session: use the session of the map, behind those that wait for it. *)
Lookup(a) ==
    /\ IF current # 0 /\ IsLive(current)
       THEN /\ Goto(a, "lookup", "lock")
            /\ sess' = [sess EXCEPT ![a] = current]
            /\ session' = [session EXCEPT ![current].queue = Append(@, a)]
       ELSE /\ Goto(a, "lookup", "spawn")
            /\ UNCHANGED <<sess, session>>
    /\ UNCHANGED <<pool, spawned, exited, purpose, awaited, serial, page, tools, answer,
                   calls, noise>>

Spawn(a) ==
    /\ spawned < MaxSessions
    /\ Goto(a, "spawn", "ask")
    /\ spawned' = spawned + 1
    /\ sess' = [sess EXCEPT ![a] = spawned + 1]
    /\ purpose' = [purpose EXCEPT ![a] = "initialize"]
    /\ UNCHANGED <<pool, exited, session, awaited, serial, page, tools, answer, calls, noise>>

(* Mutant of Install: the session of another caller is replaced. *)
InstallAlways(a) ==
    /\ Goto(a, "install", "lock")
    /\ current' = sess[a]
    /\ session' = [session EXCEPT ![sess[a]].queue = Append(@, a)]
    /\ purpose' = [purpose EXCEPT ![a] = IF a = Discoverer THEN "list" ELSE "call"]
    /\ UNCHANGED <<config, listed, offered, spawned, exited, sess, awaited, serial,
                   page, tools, answer, calls, noise>>

(* session() looks at the map again: a session that another call started
   meanwhile is used, and this one's process is killed. *)
Install(a) ==
    /\ Goto(a, "install", "lock")
    /\ LET s == IF current # 0 /\ IsLive(current) THEN current ELSE sess[a]
       IN /\ current' = s
          /\ sess' = [sess EXCEPT ![a] = s]
          /\ session' = [session EXCEPT ![s].queue = Append(@, a)]
    /\ purpose' = [purpose EXCEPT ![a] = IF a = Discoverer THEN "list" ELSE "call"]
    /\ UNCHANGED <<config, listed, offered, spawned, exited, awaited, serial,
                   page, tools, answer, calls, noise>>

Lock(a) ==
    /\ Goto(a, "lock", "ask")
    /\ Head(session[sess[a]].queue) = a
    /\ UNCHANGED <<pool, procs, purpose, sess, awaited, serial, page, tools, answer, calls, noise>>

(* After an edit of the servers that was cut off, the new configuration may
   disable the server that runs. *)
SetPolicies(settings) ==
    /\ at[Discoverer] = "idle" /\ listed.state # "none"
    /\ config' = settings
    /\ offered' = Capabilities(listed, settings)
    /\ UNCHANGED <<current, listed, procs, locals, noise>>

(* The future of the call is gone: its lock, its place in the queue, and its
   hold on the session. *)
Leave(a) ==
    /\ at' = [at EXCEPT ![a] = "idle"]
    /\ sess' = [sess EXCEPT ![a] = 0]
    /\ purpose' = [purpose EXCEPT ![a] = IF a = Discoverer THEN "list" ELSE "call"]
    /\ awaited' = [awaited EXCEPT ![a] = NoId]
    /\ page' = [page EXCEPT ![a] = 1]
    /\ tools' = [tools EXCEPT ![a] = {}]
    /\ answer' = [answer EXCEPT ![a] = NoRequest]
    /\ UNCHANGED <<serial, calls>>

(* Nobody awaits a lock twice. *)
Without(queue, a) ==
    IF a \in Range(queue) THEN RemoveAt(queue, CHOOSE i \in DOMAIN queue : queue[i] = a) ELSE queue

Unqueued(a) == [s \in Sessions |-> [session[s] EXCEPT !.queue = Without(@, a)]]

(* Mutant of Report: the session whose listing failed stays. *)
ReportOnly(a, outcome) ==
    IF a = Discoverer
    THEN /\ listed' = outcome
         /\ offered' = Capabilities(outcome, config)
         /\ UNCHANGED <<current, config>>
    ELSE UNCHANGED pool

(* discover removes the session that failed and notes the outcome. *)
Report(a, outcome) ==
    IF a = Discoverer
    THEN /\ current' = IF outcome.state = "error" THEN 0 ELSE current
         /\ listed' = outcome
         /\ offered' = Capabilities(outcome, config)
         /\ UNCHANGED config
    ELSE UNCHANGED pool

Failed == [state |-> "error", tools |-> {}]

(* `command` cannot be started. *)
SpawnFails(a) ==
    /\ at[a] = "spawn"
    /\ Leave(a)
    /\ Report(a, Failed)
    /\ UNCHANGED <<procs, noise>>

--------------------------------------------------------------------------------
(* The client *)

(* A line written after one that was cut off is read as part of that one. *)
Received(s, lines) ==
    [session EXCEPT ![s].pending = IF session[s].torn THEN @ ELSE @ \cup lines,
                    ![s].torn = FALSE]

(* Mutant of Ask: an id is used up once its request is answered. *)
AskSameId(a) ==
    LET s == sess[a]
        request == [id |-> session[s].next, re |-> <<a, serial[a] + 1>>,
                    what |-> purpose[a], page |-> page[a]]
    IN /\ Running(s)
       /\ Goto(a, "ask", "receive")
       /\ session' = Received(s, {request})
       /\ awaited' = [awaited EXCEPT ![a] = session[s].next]
       /\ serial' = [serial EXCEPT ![a] = @ + 1]
       /\ answer' = [answer EXCEPT ![a] = NoRequest]
       /\ UNCHANGED <<pool, spawned, exited, purpose, sess, page, tools, calls, noise>>

(* request: the id is used up, whatever becomes of it. *)
Ask(a) ==
    LET s == sess[a]
        request == [id |-> session[s].next, re |-> <<a, serial[a] + 1>>,
                    what |-> purpose[a], page |-> page[a]]
    IN /\ Running(s)
       /\ Goto(a, "ask", "receive")
       /\ session' = [Received(s, {request}) EXCEPT ![s].next = @ + 1]
       /\ awaited' = [awaited EXCEPT ![a] = session[s].next]
       /\ serial' = [serial EXCEPT ![a] = @ + 1]
       /\ answer' = [answer EXCEPT ![a] = NoRequest]
       /\ UNCHANGED <<pool, spawned, exited, purpose, sess, page, tools, calls, noise>>

FirstLine(a) == Head(session[sess[a]].out)
Rest(a) == [session EXCEPT ![sess[a]].out = Tail(@)]
Reading(a) == at[a] = "receive" /\ session[sess[a]].out # <<>>
Answers(a) == FirstLine(a).kind = "answer" /\ FirstLine(a).id = awaited[a]

(* Notifications and stale answers. *)
SkipLine(a) ==
    /\ Reading(a)
    /\ FirstLine(a).kind \in {"note", "answer"} /\ ~Answers(a)
    /\ session' = Rest(a)
    /\ UNCHANGED <<pool, spawned, exited, locals, noise>>

(* A request of the server is declined. *)
ReadRequest(a) ==
    /\ Reading(a) /\ FirstLine(a).kind = "request"
    /\ Goto(a, "receive", "decline")
    /\ session' = Rest(a)
    /\ UNCHANGED <<pool, spawned, exited, purpose, sess, awaited, serial, page, tools, answer,
                   calls, noise>>

Decline(a) ==
    /\ Running(sess[a])
    /\ Goto(a, "decline", "receive")
    /\ session' = Received(sess[a], {})
    /\ UNCHANGED <<pool, spawned, exited, purpose, sess, awaited, serial, page, tools, answer,
                   calls, noise>>

(* The response to the request. *)
Accept(a) ==
    /\ Reading(a) /\ Answers(a) /\ ~FirstLine(a).error
    /\ Goto(a, "receive", IF purpose[a] = "initialize" THEN "greet" ELSE "answered")
    /\ answer' = [answer EXCEPT ![a] = FirstLine(a).re]
    /\ session' = Rest(a)
    /\ UNCHANGED <<pool, spawned, exited, purpose, sess, awaited, serial, page, tools, calls, noise>>

(* notifications/initialized: Session::start is done. *)
Greet(a) ==
    /\ Running(sess[a])
    /\ Goto(a, "greet", "install")
    /\ session' = Received(sess[a], {})
    /\ UNCHANGED <<pool, spawned, exited, purpose, sess, awaited, serial, page, tools, answer,
                   calls, noise>>

(* The session fails the request: an error in answer, a line that is no message,
   a result that is not what was asked for, the end of the output, a pipe that
   is closed. *)
Fails(a) ==
    /\ \/ /\ Reading(a)
          /\ FirstLine(a).kind = "garbage" \/ (Answers(a) /\ FirstLine(a).error)
          /\ session' = [s \in Sessions |-> IF s = sess[a]
                             THEN [Unqueued(a)[s] EXCEPT !.out = Tail(@)] ELSE Unqueued(a)[s]]
       \/ /\ at[a] = "receive" /\ session[sess[a]].out = <<>> /\ ~Running(sess[a])
          /\ session' = Unqueued(a)
       \/ /\ at[a] \in {"ask", "decline", "greet"} /\ ~Running(sess[a])
          /\ session' = Unqueued(a)
    /\ Leave(a)
    /\ Report(a, Failed)
    /\ UNCHANGED <<spawned, exited, noise>>

(* Whether the future that ends was writing: then a part of the line may be out. *)
CutLine(a) ==
    IF at[a] \notin {"ask", "decline", "greet"} THEN {Unqueued(a)}
    ELSE {Unqueued(a), [Unqueued(a) EXCEPT ![sess[a]].torn = TRUE]}

(* within: the time for starting the server or for its listing is over. *)
TimeOut(a) ==
    /\ purpose[a] \in {"initialize", "list"}
    /\ at[a] \in {"ask", "receive", "decline", "greet"}
    /\ session' \in CutLine(a)
    /\ Leave(a)
    /\ Report(a, Failed)
    /\ UNCHANGED <<spawned, exited, noise>>

(* Mutant of CutOff: the time a call waits for its turn or its line does not count. *)
CutOffReading(a) ==
    /\ a \in Callers /\ at[a] \in {"receive", "decline"}
    /\ session' \in CutLine(a)
    /\ Leave(a)
    /\ UNCHANGED <<pool, spawned, exited, noise>>

(* The run ends the call: tool_timeout, or a stop. *)
CutOff(a) ==
    /\ a \in Callers /\ at[a] # "idle"
    /\ session' \in CutLine(a)
    /\ Leave(a)
    /\ UNCHANGED <<pool, spawned, exited, noise>>

(* call_tool returns what the server answered. *)
Return(a) ==
    /\ purpose[a] = "call" /\ at[a] = "answered"
    /\ session' = Unqueued(a)
    /\ Leave(a)
    /\ UNCHANGED <<pool, spawned, exited, noise>>

PageTools(n) == IF n \in DOMAIN Pages THEN Pages[n] ELSE {}

(* list_tools: the page names a next one. *)
NextPage(a) ==
    /\ purpose[a] = "list" /\ page[a] < MaxPages
    /\ Goto(a, "answered", "ask")
    /\ page' = [page EXCEPT ![a] = @ + 1]
    /\ tools' = [tools EXCEPT ![a] = @ \cup PageTools(page[a])]
    /\ UNCHANGED <<pool, procs, purpose, sess, awaited, serial, answer, calls, noise>>

(* The page names none, or there were too many. *)
LastPage(a) ==
    /\ purpose[a] = "list" /\ at[a] = "answered"
    /\ session' = Unqueued(a)
    /\ Leave(a)
    /\ \/ /\ page[a] >= Len(Pages)
          /\ Report(a, [state |-> "ok", tools |-> tools[a] \cup PageTools(page[a])])
       \/ page[a] = MaxPages /\ Report(a, Failed)
    /\ UNCHANGED <<spawned, exited, noise>>

--------------------------------------------------------------------------------
(* The server *)

Answer(s) ==
    /\ Running(s)
    /\ \E r \in session[s].pending, error \in BOOLEAN :
          session' = [session EXCEPT
              ![s].pending = @ \ {r},
              ![s].out = Append(@, [kind |-> "answer", id |-> r.id, re |-> r.re, error |-> error])]
    /\ UNCHANGED <<pool, spawned, exited, locals, noise>>

Write(s) ==
    /\ Running(s) /\ noise < MaxNoise
    /\ noise' = noise + 1
    /\ \E kind \in {"note", "request", "garbage"} :
          session' = [session EXCEPT
              ![s].out = Append(@, [kind |-> kind, id |-> NoId, re |-> NoRequest, error |-> FALSE])]
    /\ UNCHANGED <<pool, spawned, exited, locals>>

Exit(s) ==
    /\ Running(s)
    /\ exited' = exited \cup {s}
    /\ UNCHANGED <<pool, spawned, session, locals, noise>>

Next ==
    \/ \E a \in Actors :
          \/ Begin(a) \/ Lookup(a) \/ Spawn(a) \/ Install(a) \/ Lock(a) \/ SpawnFails(a)
          \/ Ask(a) \/ SkipLine(a) \/ ReadRequest(a) \/ Decline(a) \/ Accept(a) \/ Greet(a)
          \/ Fails(a) \/ TimeOut(a) \/ CutOff(a) \/ Return(a) \/ NextPage(a) \/ LastPage(a)
    \/ \E settings \in Configs : SetPolicies(settings)
    \/ \E s \in Sessions : Answer(s) \/ Write(s) \/ Exit(s)

(* The timers fire and the client goes on; a server need not read what it is
   sent, answer, or exit. *)
Fairness ==
    \A a \in Actors :
        /\ WF_vars(Lookup(a)) /\ WF_vars(Spawn(a) \/ SpawnFails(a)) /\ WF_vars(Install(a))
        /\ WF_vars(Lock(a)) /\ WF_vars(NextPage(a) \/ LastPage(a)) /\ WF_vars(Return(a))
        /\ WF_vars(TimeOut(a)) /\ WF_vars(CutOff(a))

Spec == Init /\ [][Next]_vars /\ Fairness

--------------------------------------------------------------------------------
Requests == [id : Nat \ {0}, re : Actors \X Nat, what : {"initialize", "list", "call"}, page : Nat]
Lines == [kind : {"answer", "note", "request", "garbage"}, id : Nat,
          re : (Actors \X Nat) \cup {NoRequest}, error : BOOLEAN]

TypeOK ==
    /\ current \in 0 .. spawned
    /\ config \in Configs
    /\ listed \in [state : {"none", "ok", "error"}, tools : SUBSET Tools]
    /\ offered \in SUBSET Tools
    /\ spawned \in 0 .. MaxSessions
    /\ exited \in SUBSET Sessions
    /\ session \in [Sessions -> [next : Nat \ {0}, torn : BOOLEAN, pending : SUBSET Requests,
                                 out : Seq(Lines), queue : Seq(Actors)]]
    /\ at \in [Actors -> {"idle", "lookup", "spawn", "install", "lock", "ask", "receive",
                          "decline", "greet", "answered"}]
    /\ purpose \in [Actors -> {"initialize", "list", "call"}]
    /\ sess \in [Actors -> 0 .. spawned]
    /\ awaited \in [Actors -> Nat]
    /\ serial \in [Actors -> Nat]
    /\ page \in [Actors -> 1 .. MaxPages]
    /\ tools \in [Actors -> SUBSET Tools]
    /\ answer \in [Actors -> (Actors \X Nat) \cup {NoRequest}]
    /\ calls \in [Actors -> Nat]
    /\ noise \in 0 .. MaxNoise

(* What a call returns is the answer to its own request, although calls that
   were cut off before it left their requests with the server, and the answers
   to those arrive while it waits for its own. *)
AnswersMatch == \A a \in Actors : answer[a] \in {NoRequest, <<a, serial[a]>>}

(* The calls to a server use one process of it, although any number of them may
   find none and start one at once, and a process may exit under them. *)
OneServerInUse ==
    \A a, b \in Callers :
        /\ purpose[a] = "call" /\ sess[a] # 0 /\ Running(sess[a])
        /\ purpose[b] = "call" /\ sess[b] # 0 /\ Running(sess[b])
        => sess[a] = sess[b]

(* The pool's table of sessions stays true of the processes that run, through starts
   that race, exits, time-outs and discoveries. About session, live_session and call. *)
PoolIsSound == TypeOK /\ OneServerInUse

(* Discovery takes all pages of a listing or none, offers nothing of a server
   that failed, and leaves no process of it. *)
DiscoveryIsWhole ==
    /\ listed.state = "ok" => listed.tools = Tools
    /\ listed.state = "error" => offered = {} /\ \A s \in Sessions : ~Running(s)

(* No server blocks discovery or a run: whatever it fails to read or to answer,
   and whoever waits for its session, each call ends. *)
CallsEnd == \A a \in Actors : at[a] # "idle" ~> at[a] = "idle"
================================================================================
