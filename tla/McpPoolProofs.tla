---------------------------- MODULE McpPoolProofs ----------------------------
(* What a call returns is the answer to its own request, for any callers, pages, time-
   outs and processes of the server.

   The client knows a request by its identifier alone.  It is enough that a session
   never uses an identifier twice: then the identifiers that are on their way, with
   the server or in its output, are below the next one, and the one that a call waits
   for is its own, however many requests were given up before it.                  *)
EXTENDS McpPool, TLAPS

(* What the steps of an actor are kept in. *)
LocalsOK ==
    /\ spawned \in Nat /\ spawned <= MaxSessions
    /\ DOMAIN at = Actors /\ DOMAIN sess = Actors
    /\ DOMAIN awaited = Actors /\ DOMAIN answer = Actors
    /\ serial \in [Actors -> Nat]
    /\ purpose \in [Actors -> {"initialize", "list", "call"}]
    /\ page \in [Actors -> Nat]

(* A session, whose queue no proof here is about. *)
SessionOK(x) ==
    /\ x = [next |-> x.next, torn |-> x.torn, pending |-> x.pending, out |-> x.out,
            queue |-> x.queue]
    /\ x.next \in Nat \ {0}
    /\ x.pending \in SUBSET Requests
    /\ x.out \in Seq(Lines)

SessionsOK == DOMAIN session = Sessions /\ \A s \in Sessions : SessionOK(session[s])

(* The requests on their way with their identifiers: the server has them, or answered. *)
Flying(x) ==
    {<<r.id, r.re>> : r \in x.pending}
        \cup {<<x.out[i].id, x.out[i].re>> : i \in {k \in DOMAIN x.out : x.out[k].kind = "answer"}}

FlyingOK == \A s \in Sessions : \A f \in Flying(session[s]) : f[1] < session[s].next

Waits(a) == at[a] \in {"receive", "decline"}

AwaitedOK == \A a \in Actors : Waits(a) =>
    /\ sess[a] \in Sessions
    /\ awaited[a] \in Nat /\ awaited[a] < session[sess[a]].next
    /\ \A f \in Flying(session[sess[a]]) : f[1] = awaited[a] => f[2] = <<a, serial[a]>>

IInv == LocalsOK /\ SessionsOK /\ FlyingOK /\ AwaitedOK /\ AnswersMatch

LEMMA FlyingIds == ASSUME NEW x, SessionOK(x), NEW f \in Flying(x) PROVE f[1] \in Nat
<1>1. CASE f \in {<<r.id, r.re>> : r \in x.pending}
  <2>1. PICK r \in x.pending : f = <<r.id, r.re>> BY <1>1
  <2> QED BY <2>1 DEF SessionOK, Requests
<1>2. CASE f \notin {<<r.id, r.re>> : r \in x.pending}
  <2>1. PICK i \in DOMAIN x.out : f = <<x.out[i].id, x.out[i].re>> BY <1>2 DEF Flying
  <2>2. x.out[i] \in Lines BY <2>1 DEF SessionOK
  <2> QED BY <2>1, <2>2 DEF Lines
<1> QED BY <1>1, <1>2

-------------------------------------------------------------------------------
(* What may become of a session in a step that asks nothing. *)
Follows(x, y) == SessionOK(y) /\ y.next = x.next /\ Flying(y) \subseteq Flying(x)

LEMMA FollowsItself == ASSUME NEW x, SessionOK(x) PROVE Follows(x, x)
BY DEF Follows

LEMMA FollowsTwice ==
  ASSUME NEW x, NEW y, NEW z, Follows(x, y), Follows(y, z) PROVE Follows(x, z)
BY DEF Follows

LEMMA Requeued ==
  ASSUME NEW x, SessionOK(x), NEW q
  PROVE  Follows(x, [x EXCEPT !.queue = q])
<1> DEFINE y == [x EXCEPT !.queue = q]
<1>1. y = [next |-> x.next, torn |-> x.torn, pending |-> x.pending, out |-> x.out, queue |-> q]
  BY DEF SessionOK
<1> QED BY <1>1 DEF Follows, SessionOK, Flying

LEMMA CutShort ==
  ASSUME NEW x, SessionOK(x), NEW b
  PROVE  Follows(x, [x EXCEPT !.torn = b])
<1> DEFINE y == [x EXCEPT !.torn = b]
<1>1. y = [next |-> x.next, torn |-> b, pending |-> x.pending, out |-> x.out, queue |-> x.queue]
  BY DEF SessionOK
<1> QED BY <1>1 DEF Follows, SessionOK, Flying

LEMMA LineRead ==
  ASSUME NEW x, SessionOK(x), x.out # <<>>
  PROVE  Follows(x, [x EXCEPT !.out = Tail(@)])
<1> DEFINE y == [x EXCEPT !.out = Tail(@)]
<1>1. y = [next |-> x.next, torn |-> x.torn, pending |-> x.pending, out |-> Tail(x.out),
           queue |-> x.queue]
  BY DEF SessionOK
<1>2. Tail(x.out) \in Seq(Lines) BY DEF SessionOK
<1>3. \A i \in DOMAIN Tail(x.out) : i + 1 \in DOMAIN x.out /\ Tail(x.out)[i] = x.out[i + 1]
  BY DEF SessionOK
<1> QED BY <1>1, <1>2, <1>3 DEF Follows, SessionOK, Flying

LEMMA LineWritten ==
  ASSUME NEW x, SessionOK(x), NEW l \in Lines, NEW p \in SUBSET x.pending,
         l.kind = "answer" => <<l.id, l.re>> \in Flying(x)
  PROVE  Follows(x, [x EXCEPT !.pending = p, !.out = Append(@, l)])
<1> DEFINE y == [x EXCEPT !.pending = p, !.out = Append(@, l)]
<1>1. y = [next |-> x.next, torn |-> x.torn, pending |-> p, out |-> Append(x.out, l),
           queue |-> x.queue]
  <2>1. PICK z : z = [x EXCEPT !.pending = p] OBVIOUS
  <2>2. z = [next |-> x.next, torn |-> x.torn, pending |-> p, out |-> x.out, queue |-> x.queue]
    BY <2>1 DEF SessionOK
  <2>3. y = [z EXCEPT !.out = Append(x.out, l)] BY <2>1 DEF SessionOK
  <2> HIDE DEF y
  <2> QED BY <2>2, <2>3
<1>2. Append(x.out, l) \in Seq(Lines) BY DEF SessionOK
<1>3. \A i \in DOMAIN Append(x.out, l) :
         Append(x.out, l)[i] = l \/ (i \in DOMAIN x.out /\ Append(x.out, l)[i] = x.out[i])
  BY DEF SessionOK
<1>4. Flying(y) \subseteq Flying(x)
  BY <1>1, <1>3 DEF Flying
<1> QED BY <1>1, <1>2, <1>4 DEF Follows, SessionOK

LEMMA RequestWritten ==
  ASSUME NEW x, SessionOK(x), NEW r \in Requests, NEW p \in {x.pending, x.pending \cup {r}}, NEW b
  PROVE  LET y == [x EXCEPT !.pending = p, !.torn = b, !.next = @ + 1]
         IN /\ SessionOK(y) /\ y.next = x.next + 1
            /\ Flying(y) \subseteq Flying(x) \cup {<<r.id, r.re>>}
<1> DEFINE y == [x EXCEPT !.pending = p, !.torn = b, !.next = @ + 1]
<1>1. y = [next |-> x.next + 1, torn |-> b, pending |-> p, out |-> x.out, queue |-> x.queue]
  <2>1. PICK z : z = [x EXCEPT !.pending = p] OBVIOUS
  <2>2. z = [next |-> x.next, torn |-> x.torn, pending |-> p, out |-> x.out, queue |-> x.queue]
    BY <2>1 DEF SessionOK
  <2>3. PICK w : w = [z EXCEPT !.torn = b] OBVIOUS
  <2>4. w = [next |-> x.next, torn |-> b, pending |-> p, out |-> x.out, queue |-> x.queue]
    BY <2>2, <2>3
  <2>5. y = [w EXCEPT !.next = x.next + 1] BY <2>1, <2>3 DEF SessionOK
  <2> HIDE DEF y
  <2> QED BY <2>4, <2>5
<1>2. Flying(y) \subseteq Flying(x) \cup {<<r.id, r.re>>}
  BY <1>1 DEF Flying
<1> QED BY <1>1, <1>2 DEF SessionOK

LEMMA NoteWritten ==
  ASSUME NEW x, SessionOK(x), NEW l \in Lines, l.kind # "answer"
  PROVE  Follows(x, [x EXCEPT !.out = Append(@, l)])
<1> DEFINE y == [x EXCEPT !.out = Append(@, l)]
<1>1. y = [next |-> x.next, torn |-> x.torn, pending |-> x.pending, out |-> Append(x.out, l),
           queue |-> x.queue]
  <2>1. PICK v : v = Append(x.out, l) OBVIOUS
  <2>2. [x EXCEPT !.out = v] = [next |-> x.next, torn |-> x.torn, pending |-> x.pending, out |-> v,
                                queue |-> x.queue]
    BY DEF SessionOK
  <2> QED BY <2>1, <2>2
<1>2. Append(x.out, l) \in Seq(Lines) BY DEF SessionOK
<1>3. \A i \in DOMAIN Append(x.out, l) :
         Append(x.out, l)[i] = l \/ (i \in DOMAIN x.out /\ Append(x.out, l)[i] = x.out[i])
  BY DEF SessionOK
<1>4. Flying(y) \subseteq Flying(x)
  BY <1>1, <1>3 DEF Flying
<1> QED BY <1>1, <1>2, <1>4 DEF Follows, SessionOK

-------------------------------------------------------------------------------
(* The steps that ask nothing. *)
Quiet == DOMAIN session' = Sessions /\ \A s \in Sessions : Follows(session[s], session'[s])

Keeps ==
    /\ Quiet
    /\ serial' = serial
    /\ \A a \in Actors : Waits(a)' => Waits(a) /\ sess'[a] = sess[a] /\ awaited'[a] = awaited[a]
    /\ \A a \in Actors : answer'[a] \in {answer[a], NoRequest, <<a, serial[a]>>}

LEMMA KeepsIInv == ASSUME IInv, LocalsOK', Keeps PROVE IInv'
<1> USE DEF IInv, Keeps, Quiet
<1>1. SessionsOK' BY DEF SessionsOK, Follows
<1>2. \A s \in Sessions : session'[s].next = session[s].next
                           /\ Flying(session'[s]) \subseteq Flying(session[s])
  BY DEF Follows
<1>3. FlyingOK' BY <1>2 DEF FlyingOK
<1>4. AwaitedOK' BY <1>2 DEF AwaitedOK
<1>5. AnswersMatch' BY DEF AnswersMatch
<1> QED BY <1>1, <1>3, <1>4, <1>5

LEMMA SameSessions == ASSUME SessionsOK, session' = session PROVE Quiet
BY FollowsItself DEF Quiet, SessionsOK

LEMMA OneSession ==
  ASSUME SessionsOK, NEW s, NEW y, s \in Sessions => Follows(session[s], y),
         session' = [session EXCEPT ![s] = y]
  PROVE  Quiet
BY FollowsItself DEF Quiet, SessionsOK

LEMMA UnqueuedFollows ==
  ASSUME SessionsOK, NEW a
  PROVE  /\ DOMAIN Unqueued(a) = Sessions
         /\ \A s \in Sessions : Follows(session[s], Unqueued(a)[s])
BY Requeued DEF Unqueued, SessionsOK

LEMMA CutLineQuiet == ASSUME SessionsOK, NEW a, session' \in CutLine(a) PROVE Quiet
<1>1. CASE session' = Unqueued(a)
  BY <1>1, UnqueuedFollows DEF Quiet
<1>2. CASE session' = [Unqueued(a) EXCEPT ![sess[a]].torn = TRUE]
  <2> SUFFICES ASSUME NEW s \in Sessions PROVE Follows(session[s], session'[s])
    BY <1>2, UnqueuedFollows DEF Quiet
  <2>1. SessionOK(Unqueued(a)[s]) BY UnqueuedFollows DEF Follows
  <2>2. session'[s] \in {Unqueued(a)[s], [Unqueued(a)[s] EXCEPT !.torn = TRUE]}
    BY <1>2, UnqueuedFollows
  <2>3. Follows(Unqueued(a)[s], session'[s]) BY <2>1, <2>2, CutShort, FollowsItself
  <2> QED BY <2>3, UnqueuedFollows, FollowsTwice
<1> QED BY <1>1, <1>2 DEF CutLine

LEMMA ReceivedNothing == ASSUME SessionsOK, NEW t, session' = Received(t, {}) PROVE Quiet
<1> SUFFICES ASSUME NEW s \in Sessions PROVE Follows(session[s], session'[s])
  BY DEF Quiet, Received, SessionsOK
<1>1. CASE s # t
  BY <1>1, FollowsItself DEF Received, SessionsOK
<1>2. CASE s = t
  <2>1. PICK x : x = session[s] OBVIOUS
  <2>2. SessionOK(x) BY <2>1 DEF SessionsOK
  <2>3. PICK y : y = [x EXCEPT !.pending = x.pending] OBVIOUS
  <2>4. y = x BY <2>2, <2>3 DEF SessionOK
  <2>5. session'[s] = [y EXCEPT !.torn = FALSE]
    BY <1>2, <2>1, <2>3 DEF Received, SessionsOK
  <2> QED BY <2>1, <2>2, <2>4, <2>5, CutShort
<1> QED BY <1>1, <1>2

LEMMA RestQuiet == ASSUME SessionsOK, NEW a, Reading(a), session' = Rest(a) PROVE Quiet
<1>1. session' = [session EXCEPT ![sess[a]] = [session[sess[a]] EXCEPT !.out = Tail(@)]]
  BY DEF Rest
<1>2. sess[a] \in Sessions => Follows(session[sess[a]], [session[sess[a]] EXCEPT !.out = Tail(@)])
  BY LineRead DEF Reading, SessionsOK
<1> QED BY <1>1, <1>2, OneSession

-------------------------------------------------------------------------------
(* An actor that goes on, or leaves. *)
LEMMA LeaveKeeps ==
  ASSUME IInv, NEW a \in Actors, Quiet, Leave(a), UNCHANGED spawned PROVE LocalsOK' /\ Keeps
<1>1. LocalsOK'
  BY DEF IInv, LocalsOK, Leave
<1>2. Keeps
  BY DEF IInv, LocalsOK, Leave, Keeps, Waits
<1> QED BY <1>1, <1>2

LEMMA MoveKeeps ==
  ASSUME IInv, NEW a \in Actors, Quiet, NEW from, NEW step, Goto(a, from, step),
         step \in {"receive", "decline"} => from \in {"receive", "decline"} /\ sess' = sess,
         DOMAIN sess' = Actors, \A b \in Actors \ {a} : sess'[b] = sess[b],
         awaited' = awaited, serial' = serial, answer' = answer,
         purpose' \in [Actors -> {"initialize", "list", "call"}],
         page' \in [Actors -> Nat],
         spawned' \in Nat, spawned' <= MaxSessions
  PROVE  LocalsOK' /\ Keeps
<1>1. LocalsOK'
  BY DEF IInv, LocalsOK, Goto
<1>2. Keeps
  BY DEF IInv, LocalsOK, Goto, Keeps, Waits
<1> QED BY <1>1, <1>2

(* Steps of other than the actors. *)
LEMMA OthersKeep ==
  ASSUME IInv, Quiet, UNCHANGED <<locals, spawned>> PROVE LocalsOK' /\ Keeps
BY DEF IInv, LocalsOK, Keeps, Waits, locals

LEMMA BeginKeeps == ASSUME IInv, NEW a \in Actors, Begin(a) PROVE LocalsOK' /\ Keeps
<1> USE DEF IInv, LocalsOK
<1>1. Quiet
  BY SameSessions DEF Begin, procs
<1>2. Goto(a, "idle", "lookup") BY DEF Begin
<1> QED BY <1>1, <1>2, MoveKeeps DEF Begin, procs

LEMMA LookupKeeps == ASSUME IInv, NEW a \in Actors, Lookup(a) PROVE LocalsOK' /\ Keeps
<1> USE DEF IInv, LocalsOK
<1>1. Quiet
  <2>1. CASE session' = session BY <2>1, SameSessions
  <2>2. CASE session' = [session EXCEPT ![current].queue = Append(@, a)]
    <3>1. current \in Sessions => Follows(session[current], [session[current] EXCEPT !.queue = Append(@, a)])
      BY Requeued DEF SessionsOK
    <3> QED BY <2>2, <3>1, OneSession
  <2> QED BY <2>1, <2>2 DEF Lookup
<1>2. PICK step \in {"lock", "spawn"} : Goto(a, "lookup", step) BY DEF Lookup
<1> QED BY <1>1, <1>2, MoveKeeps DEF Lookup

LEMMA SpawnKeeps == ASSUME IInv, NEW a \in Actors, Spawn(a) PROVE LocalsOK' /\ Keeps
<1> USE DEF IInv, LocalsOK
<1>1. Quiet
  BY SameSessions DEF Spawn
<1>2. Goto(a, "spawn", "ask") BY DEF Spawn
<1> QED BY <1>1, <1>2, MoveKeeps, BoundsAssumption DEF Spawn

LEMMA InstallKeeps == ASSUME IInv, NEW a \in Actors, Install(a) PROVE LocalsOK' /\ Keeps
<1> USE DEF IInv, LocalsOK
<1>1. Quiet
  <2>1. PICK s : session' = [session EXCEPT ![s].queue = Append(@, a)] BY DEF Install
  <2>2. s \in Sessions => Follows(session[s], [session[s] EXCEPT !.queue = Append(@, a)])
    BY Requeued DEF SessionsOK
  <2> QED BY <2>1, <2>2, OneSession
<1>2. Goto(a, "install", "lock") BY DEF Install
<1> QED BY <1>1, <1>2, MoveKeeps DEF Install

LEMMA LockKeeps == ASSUME IInv, NEW a \in Actors, Lock(a) PROVE LocalsOK' /\ Keeps
<1> USE DEF IInv, LocalsOK
<1>1. Quiet
  BY SameSessions DEF Lock, procs
<1>2. Goto(a, "lock", "ask") BY DEF Lock
<1> QED BY <1>1, <1>2, MoveKeeps DEF Lock, procs

LEMMA ReadRequestKeeps == ASSUME IInv, NEW a \in Actors, ReadRequest(a) PROVE LocalsOK' /\ Keeps
<1> USE DEF IInv, LocalsOK
<1>1. Quiet
  BY RestQuiet DEF ReadRequest
<1>2. Goto(a, "receive", "decline") BY DEF ReadRequest
<1> QED BY <1>1, <1>2, MoveKeeps DEF ReadRequest

LEMMA DeclineKeeps == ASSUME IInv, NEW a \in Actors, Decline(a) PROVE LocalsOK' /\ Keeps
<1> USE DEF IInv, LocalsOK
<1>1. Quiet
  BY ReceivedNothing DEF Decline
<1>2. Goto(a, "decline", "receive") BY DEF Decline
<1> QED BY <1>1, <1>2, MoveKeeps DEF Decline

LEMMA GreetKeeps == ASSUME IInv, NEW a \in Actors, Greet(a) PROVE LocalsOK' /\ Keeps
<1> USE DEF IInv, LocalsOK
<1>1. Quiet
  BY ReceivedNothing DEF Greet
<1>2. Goto(a, "greet", "install") BY DEF Greet
<1> QED BY <1>1, <1>2, MoveKeeps DEF Greet

LEMMA NextPageKeeps == ASSUME IInv, NEW a \in Actors, NextPage(a) PROVE LocalsOK' /\ Keeps
<1> USE DEF IInv, LocalsOK
<1>1. Quiet
  BY SameSessions DEF NextPage, procs
<1>2. Goto(a, "answered", "ask") BY DEF NextPage
<1> QED BY <1>1, <1>2, MoveKeeps DEF NextPage, procs

LEMMA SkipLineKeeps == ASSUME IInv, NEW a \in Actors, SkipLine(a) PROVE LocalsOK' /\ Keeps
BY RestQuiet, OthersKeep DEF SkipLine, IInv

(* The answer that is accepted is on its way, with the identifier waited for. *)
LEMMA AcceptKeeps == ASSUME IInv, NEW a \in Actors, Accept(a) PROVE LocalsOK' /\ Keeps
<1> USE DEF IInv, LocalsOK
<1>1. Quiet
  BY RestQuiet DEF Accept
<1>2. FirstLine(a).re = <<a, serial[a]>>
  <2>1. Waits(a) BY DEF Waits, Accept, Goto
  <2>2. PICK x : x = session[sess[a]] OBVIOUS
  <2>3. sess[a] \in Sessions /\ SessionOK(x) BY <2>1, <2>2 DEF AwaitedOK, SessionsOK
  <2>4. x.out # <<>> /\ x.out[1].kind = "answer" /\ x.out[1].id = awaited[a]
    BY <2>2, <2>3 DEF Accept, Reading, Answers, FirstLine, SessionOK
  <2>5. 1 \in DOMAIN x.out BY <2>3, <2>4 DEF SessionOK
  <2>6. <<x.out[1].id, x.out[1].re>> \in Flying(x) BY <2>4, <2>5 DEF Flying
  <2>7. <<a, serial[a]>> = x.out[1].re BY <2>1, <2>2, <2>4, <2>6 DEF AwaitedOK
  <2> QED BY <2>2, <2>3, <2>4, <2>7 DEF FirstLine, SessionOK
<1>3. PICK step \in {"greet", "answered"} : Goto(a, "receive", step) BY DEF Accept
<1>4. answer' = [answer EXCEPT ![a] = <<a, serial[a]>>] BY <1>2 DEF Accept
<1>5. UNCHANGED <<spawned, purpose, sess, awaited, serial, page>> BY DEF Accept
<1>6. LocalsOK' BY <1>3, <1>4, <1>5 DEF Goto
<1>7. Keeps BY <1>1, <1>3, <1>4, <1>5 DEF Keeps, Waits, Goto
<1> QED BY <1>6, <1>7

LEMMA FailsKeeps == ASSUME IInv, NEW a \in Actors, Fails(a) PROVE LocalsOK' /\ Keeps
<1>1. Quiet
  <2>1. CASE session' = Unqueued(a) BY <2>1, UnqueuedFollows DEF Quiet, IInv
  <2>2. CASE /\ Reading(a)
             /\ session' = [s \in Sessions |-> IF s = sess[a]
                                THEN [Unqueued(a)[s] EXCEPT !.out = Tail(@)] ELSE Unqueued(a)[s]]
    <3> SUFFICES ASSUME NEW s \in Sessions PROVE Follows(session[s], session'[s])
      BY <2>2 DEF Quiet
    <3>1. PICK y : y = Unqueued(a)[s] OBVIOUS
    <3>2. Follows(session[s], y) BY <3>1, UnqueuedFollows DEF IInv
    <3>3. CASE s # sess[a] BY <2>2, <3>1, <3>2, <3>3
    <3>4. CASE s = sess[a]
      <4>1. SessionOK(session[s]) BY DEF IInv, SessionsOK
      <4>2. y = [session[s] EXCEPT !.queue = Without(@, a)]
        BY <3>1 DEF Unqueued
      <4>3. y.out # <<>> BY <2>2, <3>4, <4>1, <4>2 DEF Reading, SessionOK
      <4>4. SessionOK(y) BY <3>2 DEF Follows
      <4>5. session'[s] = [y EXCEPT !.out = Tail(@)] BY <2>2, <3>1, <3>4
      <4> QED BY <3>2, <4>3, <4>4, <4>5, LineRead, FollowsTwice
    <3> QED BY <3>3, <3>4
  <2> QED BY <2>1, <2>2 DEF Fails
<1> QED BY <1>1, LeaveKeeps DEF Fails

LEMMA SpawnFailsKeeps == ASSUME IInv, NEW a \in Actors, SpawnFails(a) PROVE LocalsOK' /\ Keeps
<1>1. Quiet
  BY SameSessions DEF SpawnFails, procs, IInv
<1> QED BY <1>1, LeaveKeeps DEF SpawnFails, procs

LEMMA TimeOutKeeps == ASSUME IInv, NEW a \in Actors, TimeOut(a) PROVE LocalsOK' /\ Keeps
<1>1. Quiet
  BY CutLineQuiet DEF TimeOut, IInv
<1> QED BY <1>1, LeaveKeeps DEF TimeOut

LEMMA CutOffKeeps == ASSUME IInv, NEW a \in Actors, CutOff(a) PROVE LocalsOK' /\ Keeps
<1>1. Quiet
  BY CutLineQuiet DEF CutOff, IInv
<1> QED BY <1>1, LeaveKeeps DEF CutOff

LEMMA ReturnKeeps == ASSUME IInv, NEW a \in Actors, Return(a) PROVE LocalsOK' /\ Keeps
<1>1. Quiet
  BY UnqueuedFollows DEF Return, Quiet, IInv
<1> QED BY <1>1, LeaveKeeps DEF Return

LEMMA LastPageKeeps == ASSUME IInv, NEW a \in Actors, LastPage(a) PROVE LocalsOK' /\ Keeps
<1>1. Quiet
  BY UnqueuedFollows DEF LastPage, Quiet, IInv
<1> QED BY <1>1, LeaveKeeps DEF LastPage

LEMMA SetPoliciesKeeps ==
  ASSUME IInv, NEW settings, SetPolicies(settings) PROVE LocalsOK' /\ Keeps
BY SameSessions, OthersKeep DEF SetPolicies, procs, IInv

(* The server answers a request that it has. *)
LEMMA AnswerKeeps == ASSUME IInv, NEW s \in Sessions, Answer(s) PROVE LocalsOK' /\ Keeps
<1>1. PICK x : x = session[s] OBVIOUS
<1>2. SessionOK(x) BY <1>1 DEF IInv, SessionsOK
<1>3. PICK r \in x.pending, error \in BOOLEAN :
         session' = [session EXCEPT
              ![s].pending = @ \ {r},
              ![s].out = Append(@, [kind |-> "answer", id |-> r.id, re |-> r.re, error |-> error])]
  BY <1>1 DEF Answer
<1> DEFINE l == [kind |-> "answer", id |-> r.id, re |-> r.re, error |-> error]
           y == [x EXCEPT !.pending = @ \ {r}, !.out = Append(@, l)]
<1>4. l \in Lines /\ <<l.id, l.re>> \in Flying(x)
  BY <1>2 DEF SessionOK, Requests, Lines, Flying
<1>5. Follows(x, y) BY <1>2, <1>4, LineWritten
<1>6. session' = [session EXCEPT ![s] = y] BY <1>1, <1>3 DEF IInv, SessionsOK
<1>7. Quiet
  <2> HIDE DEF y
  <2> QED BY <1>1, <1>5, <1>6, OneSession DEF IInv
<1> QED BY <1>7, OthersKeep DEF Answer

LEMMA WriteKeeps == ASSUME IInv, NEW s \in Sessions, Write(s) PROVE LocalsOK' /\ Keeps
<1>1. PICK x : x = session[s] OBVIOUS
<1>2. SessionOK(x) BY <1>1 DEF IInv, SessionsOK
<1>3. PICK kind \in {"note", "request", "garbage"} :
         session' = [session EXCEPT
              ![s].out = Append(@, [kind |-> kind, id |-> NoId, re |-> NoRequest, error |-> FALSE])]
  BY DEF Write
<1> DEFINE l == [kind |-> kind, id |-> NoId, re |-> NoRequest, error |-> FALSE]
           y == [x EXCEPT !.out = Append(@, l)]
<1>4. l \in Lines /\ l.kind # "answer" BY DEF Lines, NoId
<1>5. Follows(x, y) BY <1>2, <1>4, NoteWritten
<1>6. session' = [session EXCEPT ![s] = y] BY <1>1, <1>3
<1>7. Quiet
  <2> HIDE DEF y
  <2> QED BY <1>1, <1>5, <1>6, OneSession DEF IInv
<1> QED BY <1>7, OthersKeep DEF Write

LEMMA ExitKeeps == ASSUME IInv, NEW s \in Sessions, Exit(s) PROVE LocalsOK' /\ Keeps
BY SameSessions, OthersKeep DEF Exit, IInv

(* A request has an identifier that none on its way to the session has, and that none
   who waits for an answer of the session waits for. *)
LEMMA AskIInv == ASSUME IInv, NEW a \in Actors, Ask(a) PROVE IInv'
<1> USE DEF IInv, LocalsOK
<1> DEFINE t == sess[a]
           mine == <<a, serial[a] + 1>>
           r == [id |-> session[t].next, re |-> mine, what |-> purpose[a], page |-> page[a]]
<1>1. PICK x : x = session[t] OBVIOUS
<1>2. t \in Sessions => SessionOK(x) BY <1>1 DEF SessionsOK
<1>3. /\ at' = [at EXCEPT ![a] = "receive"]
      /\ awaited' = [awaited EXCEPT ![a] = x.next]
      /\ serial' = [serial EXCEPT ![a] = serial[a] + 1]
      /\ answer' = [answer EXCEPT ![a] = NoRequest]
      /\ UNCHANGED <<spawned, sess, purpose, page>>
  BY <1>1 DEF Ask, Goto
<1>4. LocalsOK' BY <1>3
<1>5. session' = [Received(t, {r}) EXCEPT ![t].next = @ + 1] BY DEF Ask
<1>6. /\ DOMAIN session' = Sessions
      /\ \A s \in Sessions \ {t} : session'[s] = session[s]
  BY <1>5 DEF Received, SessionsOK
<1>7. t \in Sessions =>
         /\ SessionOK(session'[t]) /\ session'[t].next = x.next + 1
         /\ Flying(session'[t]) \subseteq Flying(x) \cup {<<x.next, mine>>}
  <2> SUFFICES ASSUME t \in Sessions
               PROVE  /\ SessionOK(session'[t]) /\ session'[t].next = x.next + 1
                      /\ Flying(session'[t]) \subseteq Flying(x) \cup {<<x.next, mine>>}
    OBVIOUS
  <2>1. PICK p : p = IF x.torn THEN x.pending ELSE x.pending \cup {r} OBVIOUS
  <2>2. p \in {x.pending, x.pending \cup {r}} BY <2>1
  <2>3. r \in Requests BY <1>1, <1>2 DEF SessionOK, Requests
  <2>4. session'[t] = [x EXCEPT !.pending = p, !.torn = FALSE, !.next = @ + 1]
    BY <1>1, <1>5, <2>1 DEF Received, SessionsOK
  <2>5. r.id = x.next /\ r.re = mine BY <1>1
  <2> HIDE DEF r, mine
  <2>6. LET y == [x EXCEPT !.pending = p, !.torn = FALSE, !.next = @ + 1]
        IN /\ SessionOK(y) /\ y.next = x.next + 1
           /\ Flying(y) \subseteq Flying(x) \cup {<<r.id, r.re>>}
    BY <1>2, <2>2, <2>3, RequestWritten
  <2>7. SessionOK(session'[t]) /\ session'[t].next = x.next + 1 BY <2>4, <2>6
  <2>8. Flying(session'[t]) \subseteq Flying(x) \cup {<<r.id, r.re>>} BY <2>4, <2>6
  <2> QED BY <2>5, <2>7, <2>8
<1> HIDE DEF r
<1>8. SessionsOK' BY <1>6, <1>7 DEF SessionsOK
<1>9. FlyingOK'
  <2> SUFFICES ASSUME NEW s \in Sessions, NEW f \in Flying(session'[s])
               PROVE  f[1] < session'[s].next
    BY DEF FlyingOK
  <2>1. CASE s # t BY <1>6, <2>1 DEF FlyingOK
  <2>2. CASE s = t
    <3>1. x.next \in Nat BY <1>2, <2>2 DEF SessionOK
    <3>2. CASE f = <<x.next, mine>> BY <1>7, <2>2, <3>1, <3>2
    <3>3. CASE f \in Flying(x)
      <4>1. f[1] < x.next BY <1>1, <2>2, <3>3 DEF FlyingOK
      <4>2. f[1] \in Nat BY <1>2, <2>2, <3>3, FlyingIds
      <4> QED BY <1>7, <2>2, <3>1, <4>1, <4>2
    <3> QED BY <1>7, <2>2, <3>2, <3>3
  <2> QED BY <2>1, <2>2
<1>10. AwaitedOK'
  <2> SUFFICES ASSUME NEW b \in Actors, Waits(b)'
               PROVE  /\ sess[b] \in Sessions
                      /\ awaited'[b] \in Nat /\ awaited'[b] < session'[sess[b]].next
                      /\ \A f \in Flying(session'[sess[b]]) :
                            f[1] = awaited'[b] => f[2] = <<b, serial'[b]>>
    BY <1>3 DEF AwaitedOK
  <2>1. CASE b = a
    <3>1. t \in Sessions BY BoundsAssumption DEF Ask, Running, Sessions
    <3>2. x.next \in Nat BY <1>2, <3>1 DEF SessionOK
    <3>3. awaited'[b] = x.next /\ serial'[b] = serial[a] + 1 BY <1>3, <2>1
    <3>4. \A f \in Flying(x) : f[1] # x.next
      <4>1. \A f \in Flying(x) : f[1] \in Nat /\ f[1] < x.next
        BY <1>1, <1>2, <3>1, FlyingIds DEF FlyingOK
      <4> QED BY <3>2, <4>1
    <3> QED BY <1>7, <2>1, <3>1, <3>2, <3>3, <3>4
  <2>2. CASE b # a
    <3>1. Waits(b) /\ awaited'[b] = awaited[b] /\ serial'[b] = serial[b]
      BY <1>3, <2>2 DEF Waits
    <3>2. CASE sess[b] # t BY <1>6, <2>2, <3>1, <3>2 DEF AwaitedOK
    <3>3. CASE sess[b] = t
      <4>1. t \in Sessions /\ awaited[b] \in Nat /\ awaited[b] < x.next
        BY <1>1, <3>1, <3>3 DEF AwaitedOK
      <4>2. x.next \in Nat BY <1>2, <4>1 DEF SessionOK
      <4>3. \A f \in Flying(x) : f[1] = awaited[b] => f[2] = <<b, serial[b]>>
        BY <1>1, <3>1, <3>3 DEF AwaitedOK
      <4> QED BY <1>7, <3>1, <3>3, <4>1, <4>2, <4>3
    <3> QED BY <3>2, <3>3
  <2> QED BY <2>1, <2>2
<1>11. AnswersMatch'
  BY <1>3 DEF AnswersMatch
<1> QED BY <1>4, <1>8, <1>9, <1>10, <1>11

-------------------------------------------------------------------------------
LEMMA InitIInv == Init => IInv
<1> SUFFICES ASSUME Init PROVE IInv OBVIOUS
<1>1. LocalsOK BY BoundsAssumption DEF Init, LocalsOK
<1>2. \A s \in Sessions : session[s] =
          [next |-> 1, torn |-> FALSE, pending |-> {}, out |-> <<>>, queue |-> <<>>]
  BY DEF Init
<1>3. SessionsOK
  <2>1. SessionOK([next |-> 1, torn |-> FALSE, pending |-> {}, out |-> <<>>, queue |-> <<>>])
    BY DEF SessionOK
  <2> QED BY <1>2, <2>1 DEF Init, SessionsOK
<1>4. \A s \in Sessions : Flying(session[s]) = {} BY <1>2 DEF Flying
<1>5. FlyingOK BY <1>4 DEF FlyingOK
<1>6. AwaitedOK BY DEF Init, AwaitedOK, Waits
<1>7. AnswersMatch BY DEF Init, AnswersMatch
<1> QED BY <1>1, <1>3, <1>5, <1>6, <1>7 DEF IInv

LEMMA NextIInv == IInv /\ [Next]_vars => IInv'
<1> SUFFICES ASSUME IInv, [Next]_vars PROVE IInv' OBVIOUS
<1>1. CASE UNCHANGED vars
  BY <1>1, SameSessions, OthersKeep, KeepsIInv DEF vars, locals, IInv
<1>2. ASSUME NEW a \in Actors,
             \/ Begin(a) \/ Lookup(a) \/ Spawn(a) \/ Install(a) \/ Lock(a) \/ SpawnFails(a)
             \/ Ask(a) \/ SkipLine(a) \/ ReadRequest(a) \/ Decline(a) \/ Accept(a) \/ Greet(a)
             \/ Fails(a) \/ TimeOut(a) \/ CutOff(a) \/ Return(a) \/ NextPage(a) \/ LastPage(a)
      PROVE  IInv'
  <2>1. CASE Ask(a) BY <2>1, AskIInv
  <2>2. CASE Begin(a) \/ Lookup(a) \/ Spawn(a) \/ Install(a) \/ Lock(a) \/ SpawnFails(a)
    BY <2>2, BeginKeeps, LookupKeeps, SpawnKeeps, InstallKeeps, LockKeeps, SpawnFailsKeeps, KeepsIInv
  <2>3. CASE SkipLine(a) \/ ReadRequest(a) \/ Decline(a) \/ Accept(a) \/ Greet(a) \/ Fails(a)
    BY <2>3, SkipLineKeeps, ReadRequestKeeps, DeclineKeeps, AcceptKeeps, GreetKeeps, FailsKeeps,
       KeepsIInv
  <2>4. CASE TimeOut(a) \/ CutOff(a) \/ Return(a) \/ NextPage(a) \/ LastPage(a)
    BY <2>4, TimeOutKeeps, CutOffKeeps, ReturnKeeps, NextPageKeeps, LastPageKeeps, KeepsIInv
  <2> QED BY <1>2, <2>1, <2>2, <2>3, <2>4
<1>3. ASSUME NEW settings \in Configs, SetPolicies(settings) PROVE IInv'
  BY <1>3, SetPoliciesKeeps, KeepsIInv
<1>4. ASSUME NEW s \in Sessions, Answer(s) \/ Write(s) \/ Exit(s) PROVE IInv'
  BY <1>4, AnswerKeeps, WriteKeeps, ExitKeeps, KeepsIInv
<1> QED BY <1>1, <1>2, <1>3, <1>4 DEF Next

(* What a call returns is the answer to its own request, whatever the server answers of
   the requests that were given up before it.  About request and receive. *)
THEOREM AnswersBelong == Spec => []AnswersMatch
<1>1. Init => IInv BY InitIInv
<1>2. IInv /\ [Next]_vars => IInv' BY NextIInv
<1>3. IInv => AnswersMatch BY DEF IInv
<1> QED BY <1>1, <1>2, <1>3, PTL DEF Spec

-------------------------------------------------------------------------------
(* One process in use.  The calls start when the discovery is over, so what the map
   names changes under them only by Install, and only when it is a process that exited. *)
PlacesOK ==
    /\ DOMAIN at = Actors /\ DOMAIN purpose = Actors /\ DOMAIN calls = Actors
    /\ spawned \in Nat /\ current \in 0 .. spawned
    /\ sess \in [Actors -> 0 .. spawned]
    /\ calls[Discoverer] \in Nat

DiscoveredFirst ==
    /\ listed.state = "none" \/ at[Discoverer] = "idle"
    /\ calls[Discoverer] = 0 => listed.state = "none" /\ at[Discoverer] = "idle"
    /\ \A a \in Callers : IF at[a] = "idle" THEN sess[a] = 0 ELSE listed.state = "ok"

CurrentOrExited ==
    \A a \in Callers : purpose[a] = "call" => sess[a] \in {0, current} \cup exited

UInv == PlacesOK /\ DiscoveredFirst /\ CurrentOrExited

LEMMA GoOnUInv ==
  ASSUME UInv, NEW a \in Actors, NEW from, NEW step, Goto(a, from, step),
         from # "idle", step # "idle",
         UNCHANGED <<pool, spawned, exited, purpose, sess, calls>>
  PROVE  UInv'
<1> USE ActorsAssumption DEF UInv, Goto, pool, Actors
<1>1. PlacesOK' BY DEF PlacesOK
<1>2. DiscoveredFirst' BY DEF PlacesOK, DiscoveredFirst
<1>3. CurrentOrExited' BY DEF CurrentOrExited
<1> QED BY <1>1, <1>2, <1>3

LEMMA StayUInv ==
  ASSUME UInv, current' = current, listed' = listed, spawned' = spawned,
         exited \subseteq exited', UNCHANGED locals
  PROVE  UInv'
BY DEF UInv, PlacesOK, DiscoveredFirst, CurrentOrExited, locals

LEMMA LeaveUInv ==
  ASSUME UInv, NEW a \in Actors, at[a] # "idle", Leave(a), UNCHANGED <<spawned, exited>>,
         NEW outcome, outcome.state \in {"ok", "error"}, UNCHANGED pool \/ Report(a, outcome)
  PROVE  UInv'
<1> USE ActorsAssumption DEF UInv, Leave, Actors
<1>1. PlacesOK' BY DEF PlacesOK, pool, Report
<1>2. DiscoveredFirst'
  <2>1. CASE UNCHANGED pool BY <2>1 DEF PlacesOK, DiscoveredFirst, pool
  <2>2. CASE a = Discoverer /\ Report(a, outcome)
    <3>1. listed.state = "none" BY <2>2 DEF DiscoveredFirst
    <3> QED BY <2>2, <3>1 DEF PlacesOK, DiscoveredFirst, Report
  <2> QED BY <2>1, <2>2 DEF Report
<1>3. CurrentOrExited'
  <2>1. CASE UNCHANGED pool BY <2>1 DEF PlacesOK, CurrentOrExited, pool
  <2>2. CASE a = Discoverer /\ Report(a, outcome)
    <3>1. \A b \in Callers : sess[b] = 0 BY <2>2 DEF DiscoveredFirst
    <3> QED BY <2>2, <3>1 DEF PlacesOK, CurrentOrExited
  <2> QED BY <2>1, <2>2 DEF Report
<1> QED BY <1>1, <1>2, <1>3

LEMMA BeginUInv == ASSUME UInv, NEW a \in Actors, Begin(a) PROVE UInv'
<1> USE ActorsAssumption DEF UInv, Begin, Goto, pool, procs, Actors
<1>1. PlacesOK' BY DEF PlacesOK
<1>2. DiscoveredFirst'
  <2>1. CASE a = Discoverer BY <2>1 DEF PlacesOK, DiscoveredFirst
  <2>2. CASE a \in Callers BY <2>2 DEF PlacesOK, DiscoveredFirst
  <2> QED BY <2>1, <2>2
<1>3. CurrentOrExited' BY DEF CurrentOrExited
<1> QED BY <1>1, <1>2, <1>3

LEMMA LookupUInv == ASSUME UInv, NEW a \in Actors, Lookup(a) PROVE UInv'
<1> USE ActorsAssumption DEF UInv, Lookup, Goto, pool, Actors
<1>1. PlacesOK' BY DEF PlacesOK
<1>2. DiscoveredFirst' BY DEF PlacesOK, DiscoveredFirst
<1>3. CurrentOrExited' BY DEF CurrentOrExited, PlacesOK
<1> QED BY <1>1, <1>2, <1>3

LEMMA SpawnUInv == ASSUME UInv, NEW a \in Actors, Spawn(a) PROVE UInv'
<1> USE ActorsAssumption DEF UInv, Spawn, Goto, pool, Actors
<1>1. PlacesOK' BY DEF PlacesOK
<1>2. DiscoveredFirst' BY DEF PlacesOK, DiscoveredFirst
<1>3. CurrentOrExited' BY DEF CurrentOrExited, PlacesOK
<1> QED BY <1>1, <1>2, <1>3

(* The process that is replaced in the map has exited, under those who use it too. *)
LEMMA InstallUInv == ASSUME UInv, NEW a \in Actors, Install(a) PROVE UInv'
<1> USE ActorsAssumption DEF UInv, Install, Goto, Actors
<1>1. PICK s \in {current, sess[a]} :
         /\ current' = s /\ sess' = [sess EXCEPT ![a] = s]
         /\ s = current \/ current = 0 \/ ~IsLive(current)
  OBVIOUS
<1>2. s = current \/ current \in {0} \cup exited
  BY <1>1 DEF IsLive, Running, PlacesOK
<1>3. PlacesOK' BY <1>1 DEF PlacesOK
<1>4. DiscoveredFirst' BY <1>1 DEF PlacesOK, DiscoveredFirst
<1>5. CurrentOrExited' BY <1>1, <1>2 DEF CurrentOrExited, PlacesOK
<1> QED BY <1>3, <1>4, <1>5

LEMMA InitUInv == Init => UInv
BY ActorsAssumption, BoundsAssumption
DEF Init, UInv, PlacesOK, DiscoveredFirst, CurrentOrExited, Actors, NoRequest, NoId

LEMMA NextUInv == UInv /\ [Next]_vars => UInv'
<1> SUFFICES ASSUME UInv, [Next]_vars PROVE UInv' OBVIOUS
<1>1. CASE UNCHANGED vars BY <1>1, StayUInv DEF vars, locals
<1>2. ASSUME NEW a \in Actors,
             \/ Begin(a) \/ Lookup(a) \/ Spawn(a) \/ Install(a) \/ Lock(a) \/ SpawnFails(a)
             \/ Ask(a) \/ SkipLine(a) \/ ReadRequest(a) \/ Decline(a) \/ Accept(a) \/ Greet(a)
             \/ Fails(a) \/ TimeOut(a) \/ CutOff(a) \/ Return(a) \/ NextPage(a) \/ LastPage(a)
      PROVE  UInv'
  <2>1. CASE Begin(a) \/ Lookup(a) \/ Spawn(a) \/ Install(a)
    BY <2>1, BeginUInv, LookupUInv, SpawnUInv, InstallUInv
  <2>2. CASE Lock(a) BY <2>2, GoOnUInv DEF Lock, procs
  <2>3. CASE Ask(a) BY <2>3, GoOnUInv DEF Ask
  <2>4. CASE ReadRequest(a) BY <2>4, GoOnUInv DEF ReadRequest
  <2>5. CASE Decline(a) BY <2>5, GoOnUInv DEF Decline
  <2>6. CASE Greet(a) BY <2>6, GoOnUInv DEF Greet
  <2>7. CASE NextPage(a) BY <2>7, GoOnUInv DEF NextPage, procs
  <2>8. CASE Accept(a)
    <3>1. PICK step \in {"greet", "answered"} : Goto(a, "receive", step) BY <2>8 DEF Accept
    <3> QED BY <2>8, <3>1, GoOnUInv DEF Accept
  <2>9. CASE SkipLine(a) BY <2>9, StayUInv DEF SkipLine, pool
  <2> DEFINE o == [state |-> "ok", tools |-> tools[a] \cup PageTools(page[a])]
  <2>10. Failed.state \in {"ok", "error"} /\ o.state \in {"ok", "error"} BY DEF Failed
  <2> HIDE DEF o
  <2>11. CASE SpawnFails(a) BY <2>10, <2>11, LeaveUInv DEF SpawnFails, procs
  <2>12. CASE Fails(a) BY <2>10, <2>12, LeaveUInv DEF Fails, Reading
  <2>13. CASE TimeOut(a) BY <2>10, <2>13, LeaveUInv DEF TimeOut
  <2>14. CASE CutOff(a) BY <2>10, <2>14, LeaveUInv DEF CutOff
  <2>15. CASE Return(a) BY <2>10, <2>15, LeaveUInv DEF Return
  <2>16. CASE LastPage(a)
    <3>1. at[a] # "idle" /\ Leave(a) /\ UNCHANGED <<spawned, exited>> BY <2>16 DEF LastPage
    <3>2. Report(a, o) \/ Report(a, Failed) BY <2>16 DEF LastPage, o
    <3> QED BY <2>10, <3>1, <3>2, LeaveUInv
  <2> QED BY <1>2, <2>1, <2>2, <2>3, <2>4, <2>5, <2>6, <2>7, <2>8, <2>9, <2>11, <2>12, <2>13,
          <2>14, <2>15, <2>16
<1>3. ASSUME NEW settings \in Configs, SetPolicies(settings) PROVE UInv'
  BY <1>3, StayUInv DEF SetPolicies, procs
<1>4. ASSUME NEW s \in Sessions, Answer(s) \/ Write(s) \/ Exit(s) PROVE UInv'
  BY <1>4, StayUInv DEF Answer, Write, Exit, pool
<1> QED BY <1>1, <1>2, <1>3, <1>4 DEF Next

(* However many calls find no process and start one at once, and whichever exits under
   them, the calls to a server use one process of it.  About session and live_session. *)
THEOREM OneServer == Spec => []OneServerInUse
<1>1. UInv => OneServerInUse
  BY DEF UInv, CurrentOrExited, OneServerInUse, Running
<1> QED BY <1>1, InitUInv, NextUInv, PTL DEF Spec

-------------------------------------------------------------------------------
(* A whole listing or none.  The discoverer has the tools of the pages before its own,
   and one that failed leaves the map empty, before there are any calls. *)
Before(n) == UNION {PageTools(i) : i \in 1 .. n - 1}

PagesOK ==
    /\ page \in [Actors -> Nat \ {0}] /\ DOMAIN tools = Actors
    /\ tools[Discoverer] = Before(page[Discoverer])
    /\ at[Discoverer] = "idle" => sess[Discoverer] = 0

ListedOK ==
    /\ listed.state = "ok" => listed.tools = Tools
    /\ listed.state = "error" => listed.tools = {} /\ offered = {} /\ current = 0

DInv == UInv /\ PagesOK /\ ListedOK

LEMMA BeforeFirst == Before(1) = {}
BY DEF Before

LEMMA BeforeNext ==
  ASSUME NEW n \in Nat \ {0} PROVE Before(n + 1) = Before(n) \cup PageTools(n)
<1>1. 1 .. (n + 1) - 1 = (1 .. n - 1) \cup {n} OBVIOUS
<1>2. ASSUME NEW t PROVE t \in Before(n + 1) <=> t \in Before(n) \/ t \in PageTools(n)
  <2>1. t \in Before(n + 1) <=> \E i \in (1 .. n - 1) \cup {n} : t \in PageTools(i)
    BY <1>1 DEF Before
  <2>2. t \in Before(n) <=> \E i \in 1 .. n - 1 : t \in PageTools(i) BY DEF Before
  <2> QED BY <2>1, <2>2
<1> QED BY <1>2

LEMMA AllPages ==
  ASSUME NEW n \in Nat, n >= Len(Pages)
  PROVE  Before(n + 1) = Tools
<1>1. (n + 1) - 1 = n OBVIOUS
<1>2. ASSUME NEW t PROVE t \in Before(n + 1) <=> t \in Tools
  BY <1>1, PagesAssumption DEF Before, PageTools, Tools
<1> QED BY <1>2

LEMMA SameListing ==
  ASSUME DInv, UInv', UNCHANGED <<current, listed, offered, page, tools>>,
         at'[Discoverer] = "idle" => sess'[Discoverer] = 0
  PROVE  DInv'
BY DEF DInv, PagesOK, ListedOK

(* Nobody is under way once the discovery has failed. *)
LEMMA InstallDInv == ASSUME DInv, UInv', NEW a \in Actors, Install(a) PROVE DInv'
<1> USE ActorsAssumption DEF Actors
<1>1. at[a] = "install" BY DEF Install, Goto
<1>2. listed.state # "error" BY <1>1 DEF DInv, UInv, DiscoveredFirst
<1>3. PagesOK'
  <2>1. at'[Discoverer] = "idle" => a # Discoverer /\ at[Discoverer] = "idle"
    BY DEF Install, Goto, DInv, UInv, PlacesOK
  <2>2. \A b \in Actors \ {a} : sess'[b] = sess[b] BY DEF Install, DInv, UInv, PlacesOK
  <2>3. UNCHANGED <<page, tools>> BY DEF Install
  <2> QED BY <2>1, <2>2, <2>3 DEF DInv, PagesOK
<1>4. ListedOK' BY <1>2 DEF DInv, ListedOK, Install
<1> QED BY <1>3, <1>4 DEF DInv

LEMMA LeaveDInv ==
  ASSUME DInv, UInv', NEW a \in Actors, Leave(a), NEW outcome,
         \/ outcome.state = "ok" /\ (a = Discoverer => outcome.tools = Tools)
         \/ outcome.state = "error" /\ outcome.tools = {},
         UNCHANGED pool \/ Report(a, outcome)
  PROVE  DInv'
<1>1. PagesOK'
  <2>1. CASE a = Discoverer
    <3>1. page' = [page EXCEPT ![a] = 1] /\ tools' = [tools EXCEPT ![a] = {}]
          /\ sess' = [sess EXCEPT ![a] = 0]
      BY DEF Leave
    <3>2. Before(1) = {} BY BeforeFirst
    <3> QED BY <2>1, <3>1, <3>2 DEF DInv, UInv, PlacesOK, PagesOK
  <2>2. CASE a # Discoverer
    BY <2>2, ActorsAssumption DEF DInv, UInv, PlacesOK, PagesOK, Leave, Actors
  <2> QED BY <2>1, <2>2
<1>2. ListedOK'
  <2>1. CASE UNCHANGED pool BY <2>1 DEF DInv, ListedOK, pool
  <2>2. CASE a = Discoverer /\ Report(a, outcome)
    BY <2>2 DEF ListedOK, Report, Capabilities
  <2> QED BY <2>1, <2>2 DEF Report
<1> QED BY <1>1, <1>2 DEF DInv

LEMMA InitDInv == Init => DInv
<1> SUFFICES ASSUME Init PROVE DInv OBVIOUS
<1>1. Before(1) = {} BY BeforeFirst
<1>2. PagesOK BY <1>1, ActorsAssumption DEF Init, PagesOK, Actors
<1>3. ListedOK BY DEF Init, ListedOK
<1> QED BY <1>2, <1>3, InitUInv DEF DInv

LEMMA NextDInv == DInv /\ [Next]_vars => DInv'
<1> SUFFICES ASSUME DInv, [Next]_vars PROVE DInv' OBVIOUS
<1>0. UInv' BY NextUInv DEF DInv
<1> USE ActorsAssumption DEF Actors
<1>1. CASE UNCHANGED vars BY <1>0, <1>1, SameListing DEF vars, DInv, PagesOK
<1>2. ASSUME NEW a \in Actors,
             \/ Begin(a) \/ Lookup(a) \/ Spawn(a) \/ Install(a) \/ Lock(a) \/ SpawnFails(a)
             \/ Ask(a) \/ SkipLine(a) \/ ReadRequest(a) \/ Decline(a) \/ Accept(a) \/ Greet(a)
             \/ Fails(a) \/ TimeOut(a) \/ CutOff(a) \/ Return(a) \/ NextPage(a) \/ LastPage(a)
      PROVE  DInv'
  <2>1. CASE Begin(a) \/ Lock(a) \/ Ask(a) \/ ReadRequest(a) \/ Decline(a) \/ Accept(a)
             \/ Greet(a)
    <3>1. UNCHANGED <<current, listed, offered, page, tools, sess>>
      BY <2>1 DEF Begin, Lock, Ask, ReadRequest, Decline, Accept, Greet, pool
    <3>2. at'[Discoverer] = "idle" => at[Discoverer] = "idle"
      BY <2>1 DEF Begin, Lock, Ask, ReadRequest, Decline, Accept, Greet, Goto, DInv, UInv, PlacesOK
    <3> QED BY <1>0, <3>1, <3>2, SameListing DEF DInv, PagesOK
  <2>2. CASE Lookup(a) \/ Spawn(a)
    <3>1. UNCHANGED <<current, listed, offered, page, tools>>
      BY <2>2 DEF Lookup, Spawn, pool
    <3>2. at'[Discoverer] = "idle" => a # Discoverer /\ at[Discoverer] = "idle"
      BY <2>2 DEF Lookup, Spawn, Goto, DInv, UInv, PlacesOK
    <3>3. \A b \in Actors \ {a} : sess'[b] = sess[b]
      BY <2>2 DEF Lookup, Spawn, DInv, UInv, PlacesOK
    <3> QED BY <1>0, <3>1, <3>2, <3>3, SameListing DEF DInv, PagesOK
  <2>3. CASE SkipLine(a)
    BY <1>0, <2>3, SameListing DEF SkipLine, pool, locals, DInv, PagesOK
  <2>4. CASE Install(a) BY <1>0, <2>4, InstallDInv
  <2>5. CASE NextPage(a)
    <3>1. UNCHANGED <<current, listed, offered, sess>> /\ Goto(a, "answered", "ask")
          /\ page' = [page EXCEPT ![a] = page[a] + 1]
          /\ tools' = [tools EXCEPT ![a] = tools[a] \cup PageTools(page[a])]
      BY <2>5 DEF NextPage, pool
    <3>2. tools'[Discoverer] = Before(page'[Discoverer])
      <4>1. CASE a = Discoverer
        <5>1. page[a] \in Nat \ {0} BY DEF DInv, PagesOK
        <5>2. page'[a] = page[a] + 1 /\ tools'[a] = tools[a] \cup PageTools(page[a])
          BY <3>1 DEF DInv, PagesOK
        <5>3. tools[a] = Before(page[a])
          BY <4>1 DEF DInv, PagesOK
        <5>4. tools'[a] = Before(page[a] + 1)
          BY <5>1, <5>2, <5>3, BeforeNext
        <5> QED BY <4>1, <5>2, <5>4
      <4>2. CASE a # Discoverer
        <5>1. page'[Discoverer] = page[Discoverer] /\ tools'[Discoverer] = tools[Discoverer]
          BY <3>1, <4>2 DEF DInv, PagesOK
        <5> QED BY <5>1 DEF DInv, PagesOK
      <4> QED BY <4>1, <4>2
    <3>3. PagesOK' BY <3>1, <3>2 DEF DInv, PagesOK, UInv, PlacesOK, Goto
    <3> QED BY <1>0, <3>1, <3>3 DEF DInv, ListedOK
  <2>6. Failed.state = "error" /\ Failed.tools = {} BY DEF Failed
  <2>7. CASE SpawnFails(a) \/ Fails(a) \/ TimeOut(a) \/ CutOff(a) \/ Return(a)
    <3>1. Leave(a) /\ (UNCHANGED pool \/ Report(a, Failed))
      BY <2>7 DEF SpawnFails, Fails, TimeOut, CutOff, Return
    <3> QED BY <1>0, <2>6, <3>1, LeaveDInv
  <2>8. CASE LastPage(a)
    <3> DEFINE o == [state |-> "ok", tools |-> tools[a] \cup PageTools(page[a])]
    <3>1. Leave(a) BY <2>8 DEF LastPage
    <3>2. CASE page[a] >= Len(Pages) /\ Report(a, o)
      <4>1. a = Discoverer => o.tools = Tools
        <5> SUFFICES ASSUME a = Discoverer PROVE o.tools = Tools OBVIOUS
        <5>1. PICK n : n = page[a] OBVIOUS
        <5>2. n \in Nat \ {0} /\ n >= Len(Pages) BY <3>2, <5>1 DEF DInv, PagesOK
        <5>3. o.tools = Before(n) \cup PageTools(n)
          BY <5>1 DEF DInv, PagesOK
        <5>4. o.tools = Before(n + 1) BY <5>2, <5>3, BeforeNext
        <5> QED BY <5>2, <5>4, AllPages
      <4>2. o.state = "ok" OBVIOUS
      <4> HIDE DEF o
      <4> QED BY <1>0, <3>1, <3>2, <4>1, <4>2, LeaveDInv
    <3>3. CASE Report(a, Failed) BY <1>0, <2>6, <3>1, <3>3, LeaveDInv
    <3> QED BY <2>8, <3>2, <3>3 DEF LastPage
  <2> QED BY <1>2, <2>1, <2>2, <2>3, <2>4, <2>5, <2>7, <2>8
<1>3. ASSUME NEW settings \in Configs, SetPolicies(settings) PROVE DInv'
  BY <1>0, <1>3 DEF SetPolicies, DInv, PagesOK, ListedOK, Capabilities, locals
<1>4. ASSUME NEW s \in Sessions, Answer(s) \/ Write(s) \/ Exit(s) PROVE DInv'
  BY <1>0, <1>4, SameListing DEF Answer, Write, Exit, pool, locals, DInv, PagesOK
<1> QED BY <1>1, <1>2, <1>3, <1>4 DEF Next

(* Whatever fails while the tools are listed, and however many pages there are, all of
   them are taken or none, and a server that failed offers nothing and runs no more.
   About discover, list_tools and capabilities. *)
THEOREM WholeListing == Spec => []DiscoveryIsWhole
<1>1. DInv => DiscoveryIsWhole
  <2> SUFFICES ASSUME DInv PROVE DiscoveryIsWhole OBVIOUS
  <2>1. listed.state = "error" => \A b \in Actors : sess[b] = 0
    BY DEF DInv, UInv, DiscoveredFirst, PagesOK, Actors
  <2>2. \A s \in Sessions : s # 0 BY DEF Sessions
  <2>3. listed.state = "error" => \A s \in Sessions : ~Running(s)
    BY <2>1, <2>2 DEF DInv, ListedOK, Running
  <2> QED BY <2>3 DEF DInv, ListedOK, DiscoveryIsWhole
<1> QED BY <1>1, InitDInv, NextDInv, PTL DEF Spec

-------------------------------------------------------------------------------
(* The rest of the types: the sessions' queues, and what the pool and the actors keep. *)
Fit(x) ==
    /\ x = [next |-> x.next, torn |-> x.torn, pending |-> x.pending, out |-> x.out,
            queue |-> x.queue]
    /\ x.torn \in BOOLEAN /\ x.queue \in Seq(Actors)

FitOK == session = [s \in Sessions |-> session[s]] /\ \A s \in Sessions : Fit(session[s])

PlainOK ==
    /\ config \in Configs
    /\ listed \in [state : {"none", "ok", "error"}, tools : SUBSET Tools]
    /\ offered \in SUBSET Tools
    /\ exited \in SUBSET Sessions
    /\ at \in [Actors -> {"idle", "lookup", "spawn", "install", "lock", "ask", "receive",
                          "decline", "greet", "answered"}]
    /\ awaited \in [Actors -> Nat]
    /\ page \in [Actors -> 1 .. MaxPages]
    /\ tools \in [Actors -> SUBSET Tools]
    /\ calls \in [Actors -> Nat]
    /\ noise \in 0 .. MaxNoise
    /\ answer = [a \in Actors |-> answer[a]]

PInv == IInv /\ UInv /\ FitOK /\ PlainOK

LEMMA FitNext == ASSUME NEW x, Fit(x), NEW v PROVE Fit([x EXCEPT !.next = v])
<1>1. [x EXCEPT !.next = v] = [next |-> v, torn |-> x.torn, pending |-> x.pending,
                              out |-> x.out, queue |-> x.queue]
  BY DEF Fit
<1> QED BY <1>1 DEF Fit

LEMMA FitPending == ASSUME NEW x, Fit(x), NEW v PROVE Fit([x EXCEPT !.pending = v])
<1>1. [x EXCEPT !.pending = v] = [next |-> x.next, torn |-> x.torn, pending |-> v,
                                 out |-> x.out, queue |-> x.queue]
  BY DEF Fit
<1> QED BY <1>1 DEF Fit

LEMMA FitOut == ASSUME NEW x, Fit(x), NEW v PROVE Fit([x EXCEPT !.out = v])
<1>1. [x EXCEPT !.out = v] = [next |-> x.next, torn |-> x.torn, pending |-> x.pending,
                             out |-> v, queue |-> x.queue]
  BY DEF Fit
<1> QED BY <1>1 DEF Fit

LEMMA FitTorn == ASSUME NEW x, Fit(x), NEW b \in BOOLEAN PROVE Fit([x EXCEPT !.torn = b])
<1>1. [x EXCEPT !.torn = b] = [next |-> x.next, torn |-> b, pending |-> x.pending,
                              out |-> x.out, queue |-> x.queue]
  BY DEF Fit
<1> QED BY <1>1 DEF Fit

LEMMA FitQueue == ASSUME NEW x, Fit(x), NEW q \in Seq(Actors) PROVE Fit([x EXCEPT !.queue = q])
<1>1. [x EXCEPT !.queue = q] = [next |-> x.next, torn |-> x.torn, pending |-> x.pending,
                               out |-> x.out, queue |-> q]
  BY DEF Fit
<1> QED BY <1>1 DEF Fit

LEMMA WithoutIsSeq ==
  ASSUME NEW q \in Seq(Actors), NEW a PROVE Without(q, a) \in Seq(Actors)
<1>1. CASE a \in Range(q)
  <2>1. \E i \in DOMAIN q : q[i] = a BY <1>1 DEF Range
  <2>2. PICK i : i = CHOOSE j \in DOMAIN q : q[j] = a OBVIOUS
  <2>3. i \in 1 .. Len(q) BY <2>1, <2>2
  <2>4. SubSeq(q, 1, i - 1) \in Seq(Actors) /\ SubSeq(q, i + 1, Len(q)) \in Seq(Actors)
    BY <2>3
  <2> QED BY <1>1, <2>2, <2>4 DEF Without, RemoveAt
<1>2. CASE a \notin Range(q) BY <1>2 DEF Without
<1> QED BY <1>1, <1>2

LEMMA OneFit ==
  ASSUME FitOK, NEW s, NEW y, s \in Sessions => Fit(y), session' = [session EXCEPT ![s] = y]
  PROVE  FitOK'
BY DEF FitOK

LEMMA QueuedFit ==
  ASSUME FitOK, NEW s, NEW a \in Actors, session' = [session EXCEPT ![s].queue = Append(@, a)]
  PROVE  FitOK'
<1>1. s \in Sessions => Append(session[s].queue, a) \in Seq(Actors) BY DEF FitOK, Fit
<1>2. s \in Sessions => Fit([session[s] EXCEPT !.queue = Append(session[s].queue, a)])
  BY <1>1, FitQueue DEF FitOK
<1>3. session' = [session EXCEPT ![s] = [session[s] EXCEPT !.queue = Append(session[s].queue, a)]]
  OBVIOUS
<1> QED BY <1>2, <1>3, OneFit

LEMMA UnqueuedFit ==
  ASSUME FitOK, NEW a
  PROVE  Unqueued(a) = [s \in Sessions |-> Unqueued(a)[s]] /\ \A s \in Sessions : Fit(Unqueued(a)[s])
<1> SUFFICES ASSUME NEW s \in Sessions PROVE Fit(Unqueued(a)[s]) BY DEF Unqueued
<1>1. Without(session[s].queue, a) \in Seq(Actors) BY WithoutIsSeq DEF FitOK, Fit
<1>2. Unqueued(a)[s] = [session[s] EXCEPT !.queue = Without(session[s].queue, a)]
  BY DEF Unqueued, FitOK, Fit
<1> QED BY <1>1, <1>2, FitQueue DEF FitOK

LEMMA CutLineFit == ASSUME FitOK, NEW a, session' \in CutLine(a) PROVE FitOK'
<1>1. CASE session' = Unqueued(a) BY <1>1, UnqueuedFit DEF FitOK
<1>2. CASE session' = [Unqueued(a) EXCEPT ![sess[a]].torn = TRUE]
  <2>1. \A s \in Sessions : session'[s] \in {Unqueued(a)[s], [Unqueued(a)[s] EXCEPT !.torn = TRUE]}
    BY <1>2, UnqueuedFit
  <2>2. \A s \in Sessions : Fit([Unqueued(a)[s] EXCEPT !.torn = TRUE])
    BY UnqueuedFit, FitTorn
  <2> QED BY <1>2, <2>1, <2>2, UnqueuedFit DEF FitOK
<1> QED BY <1>1, <1>2 DEF CutLine

LEMMA ReceivedFit ==
  ASSUME FitOK, NEW t, NEW ls
  PROVE  Received(t, ls) = [s \in Sessions |-> Received(t, ls)[s]] /\ \A s \in Sessions : Fit(Received(t, ls)[s])
<1>1. Received(t, ls) = [s \in Sessions |-> Received(t, ls)[s]] BY DEF FitOK, Received
<1>2. ASSUME NEW s \in Sessions PROVE Fit(Received(t, ls)[s])
  <2>1. CASE s # t BY <2>1 DEF FitOK, Received
  <2>2. CASE s = t
    <3>1. PICK p : p = IF session[s].torn THEN session[s].pending ELSE session[s].pending \cup ls
      OBVIOUS
    <3>2. PICK x : x = [session[s] EXCEPT !.pending = p] OBVIOUS
    <3>3. Fit(x) BY <3>2, FitPending DEF FitOK
    <3>4. Received(t, ls)[s] = [x EXCEPT !.torn = FALSE]
      BY <2>2, <3>1, <3>2 DEF Received, FitOK, Fit
    <3> QED BY <3>3, <3>4, FitTorn
  <2> QED BY <2>1, <2>2
<1> QED BY <1>1, <1>2

LEMMA RestFit == ASSUME FitOK, NEW a, session' = Rest(a) PROVE FitOK'
<1>1. PICK v : v = Tail(session[sess[a]].out) OBVIOUS
<1>2. session' = [session EXCEPT ![sess[a]] = [session[sess[a]] EXCEPT !.out = v]]
  BY <1>1 DEF Rest
<1>3. sess[a] \in Sessions => Fit([session[sess[a]] EXCEPT !.out = v]) BY FitOut DEF FitOK
<1> QED BY <1>2, <1>3, OneFit

LEMMA LinesFit == ASSUME FitOK, NEW s \in Sessions, Answer(s) \/ Write(s) PROVE FitOK'
<1>1. CASE Answer(s)
  <2>1. PICK r \in session[s].pending, error \in BOOLEAN :
           session' = [session EXCEPT
              ![s].pending = @ \ {r},
              ![s].out = Append(@, [kind |-> "answer", id |-> r.id, re |-> r.re, error |-> error])]
    BY <1>1 DEF Answer
  <2>2. PICK p, v : p = session[s].pending \ {r} /\ v = Append(session[s].out,
           [kind |-> "answer", id |-> r.id, re |-> r.re, error |-> error])
    OBVIOUS
  <2>3. PICK x : x = [session[s] EXCEPT !.pending = p] OBVIOUS
  <2>4. Fit(x) /\ x.out = session[s].out BY <2>3, FitPending DEF FitOK, Fit
  <2>5. session' = [session EXCEPT ![s] = [x EXCEPT !.out = v]]
    BY <2>1, <2>2, <2>3, <2>4 DEF FitOK
  <2>6. Fit([x EXCEPT !.out = v]) BY <2>4, FitOut
  <2> QED BY <2>5, <2>6, OneFit
<1>2. CASE Write(s)
  <2>1. PICK v : session' = [session EXCEPT ![s].out = v] BY <1>2 DEF Write
  <2>2. session' = [session EXCEPT ![s] = [session[s] EXCEPT !.out = v]] BY <2>1
  <2>3. Fit([session[s] EXCEPT !.out = v]) BY FitOut DEF FitOK
  <2> QED BY <2>2, <2>3, OneFit
<1> QED BY <1>1, <1>2

LEMMA AskFit == ASSUME FitOK, NEW a, Ask(a) PROVE FitOK'
<1>1. PICK ls : session' = [Received(sess[a], ls) EXCEPT ![sess[a]].next = @ + 1] BY DEF Ask
<1>2. PICK f : f = Received(sess[a], ls) OBVIOUS
<1>3. f = [s \in Sessions |-> f[s]] /\ \A s \in Sessions : Fit(f[s]) BY <1>2, ReceivedFit
<1>4. \A s \in Sessions : session'[s] \in {f[s], [f[s] EXCEPT !.next = f[s].next + 1]}
  BY <1>1, <1>2, <1>3
<1> QED BY <1>1, <1>2, <1>3, <1>4, FitNext DEF FitOK

LEMMA FailsFit == ASSUME FitOK, NEW a, Fails(a) PROVE FitOK'
<1>1. CASE session' = Unqueued(a) BY <1>1, UnqueuedFit DEF FitOK
<1>2. CASE session' = [s \in Sessions |-> IF s = sess[a]
                           THEN [Unqueued(a)[s] EXCEPT !.out = Tail(@)] ELSE Unqueued(a)[s]]
  <2>1. \A s \in Sessions : \E v : session'[s] \in {Unqueued(a)[s], [Unqueued(a)[s] EXCEPT !.out = v]}
    BY <1>2
  <2> QED BY <1>2, <2>1, UnqueuedFit, FitOut DEF FitOK
<1> QED BY <1>1, <1>2 DEF Fails

(* The sessions in a step. *)
LEMMA NextFit == ASSUME FitOK, [Next]_vars PROVE FitOK'
<1>1. CASE UNCHANGED session BY <1>1 DEF FitOK
<1>2. ASSUME NEW a \in Actors, \/ Lookup(a) \/ Install(a) \/ Ask(a) \/ SkipLine(a) \/ ReadRequest(a)
             \/ Decline(a) \/ Accept(a) \/ Greet(a) \/ Fails(a) \/ TimeOut(a) \/ CutOff(a)
             \/ Return(a) \/ LastPage(a)
      PROVE  FitOK'
  <2>1. CASE Lookup(a) BY <1>1, <2>1, QueuedFit DEF Lookup
  <2>2. CASE Install(a) BY <2>2, QueuedFit DEF Install
  <2>3. CASE SkipLine(a) \/ ReadRequest(a) \/ Accept(a)
    BY <2>3, RestFit DEF SkipLine, ReadRequest, Accept
  <2>4. CASE Decline(a) \/ Greet(a)
    <3>1. session' = Received(sess[a], {}) BY <2>4 DEF Decline, Greet
    <3> QED BY <3>1, ReceivedFit DEF FitOK
  <2>5. CASE TimeOut(a) \/ CutOff(a) BY <2>5, CutLineFit DEF TimeOut, CutOff
  <2>6. CASE Return(a) \/ LastPage(a)
    <3>1. session' = Unqueued(a) BY <2>6 DEF Return, LastPage
    <3> QED BY <3>1, UnqueuedFit DEF FitOK
  <2> QED BY <1>2, <2>1, <2>2, <2>3, <2>4, <2>5, <2>6, AskFit, FailsFit
<1>3. ASSUME NEW s \in Sessions, Answer(s) \/ Write(s) PROVE FitOK' BY <1>3, LinesFit
<1>4. ASSUME NEW a \in Actors, Begin(a) \/ Spawn(a) \/ Lock(a) \/ SpawnFails(a) \/ NextPage(a)
      PROVE  UNCHANGED session
  BY <1>4 DEF Begin, Spawn, Lock, SpawnFails, NextPage, procs
<1> QED BY <1>1, <1>2, <1>3, <1>4 DEF Next, SetPolicies, Exit, procs, vars

LEMMA PageToolsAreTools == \A n : PageTools(n) \subseteq Tools
BY DEF PageTools, Tools

LEMMA ReportPlain ==
  ASSUME PlainOK, NEW a, NEW outcome \in [state : {"ok", "error"}, tools : SUBSET Tools],
         Report(a, outcome)
  PROVE  /\ config' \in Configs /\ offered' \in SUBSET Tools
         /\ listed' \in [state : {"none", "ok", "error"}, tools : SUBSET Tools]
<1>1. outcome.tools \in SUBSET Tools
      /\ outcome \in [state : {"none", "ok", "error"}, tools : SUBSET Tools]
  OBVIOUS
<1> QED BY <1>1 DEF PlainOK, Report, Capabilities, pool

LEMMA LeavePlain ==
  ASSUME PlainOK, NEW a \in Actors, Leave(a), UNCHANGED <<exited, noise>>,
         NEW outcome \in [state : {"ok", "error"}, tools : SUBSET Tools],
         UNCHANGED pool \/ Report(a, outcome)
  PROVE  PlainOK'
<1>1. /\ config' \in Configs /\ offered' \in SUBSET Tools
      /\ listed' \in [state : {"none", "ok", "error"}, tools : SUBSET Tools]
  BY ReportPlain DEF PlainOK, pool
<1>2. answer' = [b \in Actors |-> answer'[b]] BY DEF PlainOK, Leave
<1>3. page' \in [Actors -> 1 .. MaxPages] BY BoundsAssumption DEF PlainOK, Leave
<1>4. awaited' \in [Actors -> Nat] BY DEF PlainOK, Leave, NoId
<1> QED BY <1>1, <1>2, <1>3, <1>4 DEF PlainOK, Leave

LEMMA NextPlain == ASSUME PInv, [Next]_vars PROVE PlainOK'
<1> USE DEF PInv
<1>1. CASE UNCHANGED vars BY <1>1 DEF PlainOK, vars
<1>2. ASSUME NEW a \in Actors,
             \/ Begin(a) \/ Lookup(a) \/ Spawn(a) \/ Install(a) \/ Lock(a) \/ ReadRequest(a)
             \/ Decline(a) \/ Accept(a) \/ Greet(a) \/ SkipLine(a)
      PROVE  PlainOK'
  <2>1. UNCHANGED <<config, listed, offered, exited, awaited, page, tools, noise>>
    BY <1>2 DEF Begin, Lookup, Spawn, Install, Lock, ReadRequest, Decline, Accept, Greet, SkipLine,
                pool, procs, locals
  <2>2. at' \in [Actors -> {"idle", "lookup", "spawn", "install", "lock", "ask", "receive",
                            "decline", "greet", "answered"}]
    BY <1>2 DEF PlainOK, Begin, Lookup, Spawn, Install, Lock, ReadRequest, Decline, Accept, Greet,
                SkipLine, Goto, locals
  <2>3. calls' \in [Actors -> Nat]
    BY <1>2 DEF PlainOK, Begin, Lookup, Spawn, Install, Lock, ReadRequest, Decline, Accept, Greet,
                SkipLine, locals
  <2>4. answer' = [b \in Actors |-> answer'[b]]
    BY <1>2 DEF PlainOK, Begin, Lookup, Spawn, Install, Lock, ReadRequest, Decline, Accept, Greet,
                SkipLine, locals
  <2> QED BY <2>1, <2>2, <2>3, <2>4 DEF PlainOK
<1>3. ASSUME NEW a \in Actors, Ask(a) PROVE PlainOK'
  <2>1. sess[a] \in Sessions
    BY <1>3, BoundsAssumption DEF Ask, Running, Sessions, UInv, PlacesOK, IInv, LocalsOK
  <2>2. session[sess[a]].next \in Nat BY <2>1 DEF IInv, SessionsOK, SessionOK
  <2> QED BY <1>3, <2>2 DEF PlainOK, Ask, Goto, pool
<1>4. ASSUME NEW a \in Actors, NextPage(a) PROVE PlainOK'
  BY <1>4, PageToolsAreTools, BoundsAssumption DEF PlainOK, NextPage, Goto, pool, procs
<1>5. Failed \in [state : {"ok", "error"}, tools : SUBSET Tools] BY DEF Failed
<1>6. ASSUME NEW a \in Actors,
             SpawnFails(a) \/ Fails(a) \/ TimeOut(a) \/ CutOff(a) \/ Return(a)
      PROVE  PlainOK'
  <2>1. Leave(a) /\ UNCHANGED <<exited, noise>> /\ (UNCHANGED pool \/ Report(a, Failed))
    BY <1>6 DEF SpawnFails, Fails, TimeOut, CutOff, Return, procs
  <2> QED BY <1>5, <2>1, LeavePlain
<1>7. ASSUME NEW a \in Actors, LastPage(a) PROVE PlainOK'
  <2>1. PICK o : o = [state |-> "ok", tools |-> tools[a] \cup PageTools(page[a])] OBVIOUS
  <2>2. o \in [state : {"ok", "error"}, tools : SUBSET Tools]
    BY <2>1, PageToolsAreTools DEF PlainOK
  <2>3. Leave(a) /\ UNCHANGED <<exited, noise>> /\ (Report(a, o) \/ Report(a, Failed))
    BY <1>7, <2>1 DEF LastPage
  <2> QED BY <1>5, <2>2, <2>3, LeavePlain
<1>8. ASSUME NEW settings \in Configs, SetPolicies(settings) PROVE PlainOK'
  BY <1>8 DEF PlainOK, SetPolicies, Capabilities, procs, locals
<1>9. ASSUME NEW s \in Sessions, Answer(s) \/ Write(s) \/ Exit(s) PROVE PlainOK'
  BY <1>9, BoundsAssumption DEF PlainOK, Answer, Write, Exit, pool, locals
<1> QED BY <1>1, <1>2, <1>3, <1>4, <1>6, <1>7, <1>8, <1>9 DEF Next

LEMMA InitPInv == Init => PInv
<1> SUFFICES ASSUME Init PROVE PInv OBVIOUS
<1>1. PlainOK BY BoundsAssumption DEF Init, PlainOK, Configs, NoId
<1>2. Fit([next |-> 1, torn |-> FALSE, pending |-> {}, out |-> <<>>, queue |-> <<>>]) BY DEF Fit
<1>3. FitOK BY <1>2 DEF Init, FitOK
<1> QED BY <1>1, <1>3, InitIInv, InitUInv DEF PInv

LEMMA PInvTyped == PInv => TypeOK
<1> SUFFICES ASSUME PInv PROVE TypeOK OBVIOUS
<1>1. session \in [Sessions -> [next : Nat \ {0}, torn : BOOLEAN, pending : SUBSET Requests,
                                out : Seq(Lines), queue : Seq(Actors)]]
  <2> SUFFICES ASSUME NEW s \in Sessions
               PROVE  session[s] \in [next : Nat \ {0}, torn : BOOLEAN, pending : SUBSET Requests,
                                      out : Seq(Lines), queue : Seq(Actors)]
    BY DEF PInv, FitOK
  <2>1. PICK x : x = session[s] OBVIOUS
  <2>2. Fit(x) /\ SessionOK(x) BY <2>1 DEF PInv, FitOK, IInv, SessionsOK
  <2> QED BY <2>1, <2>2 DEF Fit, SessionOK
<1>2. answer \in [Actors -> (Actors \X Nat) \cup {NoRequest}]
  BY DEF PInv, IInv, LocalsOK, AnswersMatch, PlainOK
<1>3. spawned \in 0 .. MaxSessions BY BoundsAssumption DEF PInv, IInv, LocalsOK
<1> QED BY <1>1, <1>2, <1>3 DEF PInv, IInv, LocalsOK, UInv, PlacesOK, PlainOK, TypeOK

(* The pool's tables keep their types, queues included, and the calls to a server use one
   process of it, through starts that race, exits, time-outs, calls that are dropped and
   discoveries.  About session, live_session, call and discover. *)
THEOREM SoundPool == Spec => []PoolIsSound
<1>1. PInv /\ [Next]_vars => PInv'
  BY NextIInv, NextUInv, NextFit, NextPlain DEF PInv
<1>2. PInv => PoolIsSound
  BY PInvTyped DEF PoolIsSound, PInv, UInv, CurrentOrExited, OneServerInUse, Running
<1> QED BY <1>1, <1>2, InitPInv, PTL DEF Spec
===============================================================================
