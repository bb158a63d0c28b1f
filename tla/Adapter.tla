-------------------------------- MODULE Adapter --------------------------------
(* The OpenAI-compatible adapter (crates/dagos-openai): one inference at a time,
   streamed over server-sent events with native tools or without, and the
   questions it asks a decisions model, several requests at once.

   An answer of the endpoint is the characters it writes, of which some may be a
   response document (`presents`: it has a presentation; `own`: the tool calls it
   lists), and the native calls it makes. Streams are cut into lines
   and chunks anywhere; a line is in `line` from its first byte to its last.     *)
EXTENDS ProseExtractor, FiniteSets, SequencesExt

CONSTANTS Models,
          Tools,        \* the IR's tool names, each a sequence of characters
          Numbers,      \* "_2", "_3", ...: what makes a function name unique
          Answers,      \* what the endpoint may answer
          MaxFragment,  \* characters in one content event
          MaxPreamble,  \* MAX_PREAMBLE_CHARS
          Sizes,        \* the sizes of the questions asked of a decisions model
          BatchLimit    \* RECALL_BATCH_CHARS

ASSUME AdapterAssumption ==
    /\ MaxFragment \in Nat \ {0} /\ MaxPreamble \in Nat
    /\ BatchLimit \in Nat /\ Sizes \in Seq(Nat)
ASSUME NamesAssumption ==
    /\ Tools \in Seq(Seq(STRING)) /\ Numbers \in Seq(STRING) /\ Len(Tools) <= Len(Numbers)
    /\ \A i, j \in DOMAIN Numbers : Numbers[i] = Numbers[j] => i = j
(* Calls are named: an endpoint that calls tools says which. *)
ASSUME AnswersAssumption == \A a \in Answers :
    /\ a.calls \in Seq([name : Seq(STRING) \ {<<>>}, args : Seq(STRING)])
    /\ a.own \in Seq([tool : Seq(STRING), args : Seq(STRING)])

VARIABLES
    refused,    \* models that do not take native tools
    phase, model,
    answer,     \* what the endpoint answers to this attempt
    got,        \* how many of its characters have arrived
    parts,      \* how many pieces of each of its calls have arrived
    line,       \* the line whose first bytes are pending in the decoder
    calls,      \* the calls accumulated
    reader,     \* the state of the prose
    earlier,    \* the deltas of an attempt that was refused
    done,       \* whether [DONE] ended the stream
    reply,      \* what infer returns
    open, joined \* the batches still asked for, and those answered, in that order

stream == <<answer, got, parts, line, calls, reader, done>>
asked  == <<open, joined>>
adapterVars == <<refused, phase, model, stream, earlier, reply, asked>>

NoLine   == [kind |-> "none", n |-> 0]
NoReply  == [kind |-> "none", prose |-> <<>>, calls |-> <<>>]
NoAnswer == [before |-> <<>>, document |-> <<>>, after |-> <<>>, prose |-> <<>>,
             presents |-> FALSE, own |-> <<>>, calls |-> <<>>]
NoCall   == [name |-> <<>>, args |-> <<>>]

Text(a) == a.before \o a.document \o a.after

(* The members of a set of numbers, in increasing order. *)
InOrder(S) == CHOOSE s \in [1 .. Cardinality(S) -> S] :
    /\ \A i, j \in DOMAIN s : i < j => s[i] < s[j]
    /\ \A x \in S : \E i \in DOMAIN s : s[i] = x

--------------------------------------------------------------------------------
(* The name of the function that offers a tool.                                  *)

Base(tool) == [i \in DOMAIN tool |-> IF tool[i] = "." THEN "__" ELSE tool[i]]

Unique(base, taken) ==
    IF base \notin taken THEN base
    ELSE LET free == {i \in DOMAIN Numbers : Append(base, Numbers[i]) \notin taken}
         IN Append(base, Numbers[CHOOSE i \in free : \A j \in free : i <= j])

(* The functions of the first n tools, and the tool of each. *)
Offered[n \in 0 .. Len(Tools)] ==
    IF n = 0 THEN [f \in {} |-> <<>>]
    ELSE LET names == Offered[n - 1]
             own   == Unique(Base(Tools[n]), DOMAIN names)
         IN [f \in DOMAIN names \cup {own} |-> IF f = own THEN Tools[n] ELSE names[f]]

FunctionNames == Offered[Len(Tools)]

ToolNamed(f) == IF f \in DOMAIN FunctionNames THEN FunctionNames[f] ELSE f

--------------------------------------------------------------------------------
(* The document in what arrived: it may be bare, in a fence, or after a preamble. *)

IsBlank(s)       == \A i \in DOMAIN s : s[i] \in Blank
Holds(s, a, b)   == \E i \in 1 .. Len(s) - 1 : s[i] = a /\ s[i + 1] = b
FirstInk(s)      == SelectSeq(s, LAMBDA c : c \notin Blank)[1]
TrimEnd(s)       == SubSeq(s, 1, SelectLastInSeq(s, LAMBDA c : c \notin Blank))
Trim(s)          == Reverse(TrimEnd(Reverse(TrimEnd(s))))

Whole(a, n)    == a.document # <<>> /\ n >= Len(a.before \o a.document)
AfterSoFar(a, n) == SubSeq(a.after, 1, n - Len(a.before \o a.document))

IsPreamble(s) == /\ s[Len(s)] = "\n" /\ FirstInk(s) # "{" /\ Len(s) <= MaxPreamble
                 /\ ~Holds(s, "\n", "{") /\ ~Holds(s, "{", "\"")

(* The first n characters of the answer unwrap to its document. *)
Unwraps(a, n) ==
    /\ Whole(a, n)
    /\ \/ /\ IsBlank(AfterSoFar(a, n))
          /\ IsBlank(a.before) \/ IsPreamble(a.before)
       \/ a.before = <<"fence", "\n">> /\ Trim(AfterSoFar(a, n)) = <<"fence">>

--------------------------------------------------------------------------------
AdapterInit ==
    /\ refused = {} /\ phase = "idle" /\ model \in Models
    /\ answer = NoAnswer /\ got = 0 /\ parts = <<>> /\ line = NoLine /\ calls = <<>>
    /\ reader = Reader(FALSE) /\ earlier = <<>> /\ done = FALSE
    /\ reply = NoReply /\ open = {} /\ joined = <<>>

Streaming == phase \in {"native", "json"}

(* The endpoint accepts a request. Only a native one can be answered with calls. *)
Opens(native) ==
    /\ phase' = IF native THEN "native" ELSE "json"
    /\ \E a \in Answers : /\ a.calls = <<>> \/ native
                          /\ answer' = a
                          /\ parts' = [i \in DOMAIN a.calls |-> 0]
    /\ got' = 0 /\ line' = NoLine /\ calls' = <<>> /\ reader' = Reader(native) /\ done' = FALSE

(* infer: with native tools, unless there are none or the model refused them. *)
Infer(m) ==
    /\ phase = "idle" /\ model' = m /\ Opens(Tools # <<>> /\ m \notin refused)
    /\ UNCHANGED <<refused, earlier, reply, asked>>

Returned(r) == /\ phase' = "done" /\ reply' = r
               /\ UNCHANGED <<refused, model, earlier, asked>>

(* The request or its stream fails. An error that refuses tools is remembered, and
   the JSON protocol is tried; the deltas of the first attempt were shown.       *)
Refusal ==
    /\ phase = "native"
    /\ refused' = refused \cup {model}
    /\ earlier' = reader.x.out
    /\ Opens(FALSE)
    /\ UNCHANGED <<model, reply, asked>>

Failure == /\ Returned([NoReply EXCEPT !.kind = "error"])
           /\ line' = NoLine /\ UNCHANGED <<answer, got, parts, calls, reader, done>>

(* send() fails, the status is an error, or the connection breaks. *)
Interrupted == Streaming /\ (Refusal \/ Failure)

--------------------------------------------------------------------------------
(* The stream.                                                                   *)

Pieces(i) == LET c == answer.calls[i] IN Len(c.name) + Len(c.args)
Complete(i) == parts[i] = Pieces(i)

Begins(kind, n) ==
    /\ Streaming /\ line = NoLine /\ line' = [kind |-> kind, n |-> n]
    /\ UNCHANGED <<refused, phase, model, answer, got, parts, calls, reader, earlier, done, reply, asked>>

(* The endpoint writes its characters in fragments and its calls in pieces, in any
   order, or a call as a whole without an index; [DONE] comes after everything.  *)
Write ==
    \/ \E k \in 1 .. MaxFragment : got + k <= Len(Text(answer)) /\ Begins("content", k)
    \/ \E i \in DOMAIN parts : ~Complete(i) /\ Begins("part", i)
    \/ \E i \in DOMAIN parts :
           /\ \A k \in DOMAIN parts : IF k < i THEN Complete(k) ELSE parts[k] = 0
           /\ Begins("whole", i)
    \/ \E kind \in {"comment", "garbage", "error"} : Begins(kind, 0)
    \/ /\ got = Len(Text(answer)) /\ \A i \in DOMAIN parts : Complete(i)
       /\ Begins("done", 0)

Kept == /\ line' = NoLine
        /\ UNCHANGED <<refused, phase, model, answer, earlier, done, reply, asked>>

(* A comment line, or a field that is not data. *)
PushComment == line.kind = "comment" /\ Kept /\ UNCHANGED <<got, parts, calls, reader>>

PushContent ==
    /\ line.kind = "content"
    /\ got' = got + line.n
    /\ reader' = FoldLeft(Read, reader, SubSeq(Text(answer), got + 1, got + line.n))
    /\ Kept /\ UNCHANGED <<parts, calls>>

(* Mutant of Accumulate: a piece belongs to the last call. *)
AccumulateLast(i, name, args) ==
    LET last == IF name # <<>> /\ i > Len(calls) THEN Len(calls) + 1 ELSE Len(calls)
    IN [k \in 1 .. last |->
           LET c == IF k <= Len(calls) THEN calls[k] ELSE NoCall
           IN IF k = last THEN [name |-> c.name \o name, args |-> c.args \o args] ELSE c]

(* The calls with a piece of call i; calls before it that have not begun are empty. *)
Accumulate(i, name, args) ==
    [k \in 1 .. (IF i > Len(calls) THEN i ELSE Len(calls)) |->
        LET c == IF k <= Len(calls) THEN calls[k] ELSE NoCall
        IN IF k = i THEN [name |-> c.name \o name, args |-> c.args \o args] ELSE c]

PushPart ==
    /\ line.kind = "part"
    /\ LET i == line.n
           c == answer.calls[i]
           j == parts[i] + 1
       IN /\ parts' = [parts EXCEPT ![i] = j]
          /\ calls' = IF j <= Len(c.name) THEN Accumulate(i, <<c.name[j]>>, <<>>)
                      ELSE Accumulate(i, <<>>, <<c.args[j - Len(c.name)]>>)
    /\ Kept /\ UNCHANGED <<got, reader>>

PushWhole ==
    /\ line.kind = "whole"
    /\ parts' = [parts EXCEPT ![line.n] = Pieces(line.n)]
    /\ calls' = Append(calls, answer.calls[line.n])
    /\ Kept /\ UNCHANGED <<got, reader>>

(* An unreadable event ends the attempt, and so does an error the endpoint reports. *)
PushGarbage == line.kind = "garbage" /\ Failure
PushError   == line.kind = "error" /\ (Refusal \/ Failure)

--------------------------------------------------------------------------------
(* What infer returns.                                                           *)

Objects == {<<>>, <<"{", "}">>}     \* arguments that are, or stand for, an object
Named   == LET kept == InOrder({i \in DOMAIN calls : calls[i].name # <<>>})
           IN [k \in DOMAIN kept |-> calls[kept[k]]]

Content == IF Unwraps(answer, got)
           THEN [kind |-> "document", prose |-> answer.prose, calls |-> answer.own]
           ELSE [NoReply EXCEPT !.kind = "text"]

(* What was written so far is a document that native calls can join. *)
Joinable == Unwraps(answer, got) /\ answer.presents

AsTools(cs) == [i \in DOMAIN cs |-> [tool |-> ToolNamed(cs[i].name), args |-> cs[i].args]]

(* native_document: the calls follow the document's own, or those of a document made
   of the note: all that was written, a document without presentation included.  *)
NativeDocument ==
    IF Named = <<>> THEN Content
    ELSE IF \E i \in DOMAIN Named : Named[i].args \notin Objects
         THEN [NoReply EXCEPT !.kind = "error"]
         ELSE [kind  |-> "document",
               prose |-> IF Joinable THEN answer.prose
                         ELSE Trim(SubSeq(Text(answer), 1, got)),
               calls |-> (IF Joinable THEN answer.own ELSE <<>>) \o AsTools(Named)]

(* The stream ends, by [DONE] or because the endpoint closes it at any byte. *)
Finish(byDone) ==
    /\ Streaming
    /\ byDone => line.kind = "done"
    /\ Returned(IF phase = "native" THEN NativeDocument ELSE Content)
    /\ done' = byDone /\ line' = NoLine
    /\ UNCHANGED <<answer, got, parts, calls, reader>>

Rest ==
    /\ phase \in {"done", "scored"} /\ phase' = "idle"
    /\ answer' = NoAnswer /\ got' = 0 /\ parts' = <<>> /\ line' = NoLine /\ calls' = <<>>
    /\ reader' = Reader(FALSE) /\ earlier' = <<>> /\ done' = FALSE
    /\ reply' = NoReply /\ open' = {} /\ joined' = <<>>
    /\ UNCHANGED <<refused, model>>

--------------------------------------------------------------------------------
(* A decisions model answers questions by their keys. Questions about relevance are
   split into batches, all asked at once; the others are one batch.              *)

SizeTo[n \in 0 .. Len(Sizes)] == IF n = 0 THEN 0 ELSE SizeTo[n - 1] + Sizes[n]
Total(first, last) == SizeTo[last] - SizeTo[first - 1]

(* The first question of the batch that question q is in: a batch goes on while it
   is within the limit.                                                          *)
First[q \in 0 .. Len(Sizes)] ==
    IF q = 0 THEN 1
    ELSE LET first == First[q - 1]
         IN IF first < q /\ Total(first, q) > BatchLimit THEN q ELSE first

(* The batches, each under its first question. *)
RecallBatches == [b \in {First[q] : q \in DOMAIN Sizes} |-> {q \in DOMAIN Sizes : First[q] = b}]

Batches == IF phase = "relevance" THEN RecallBatches ELSE [b \in {1} |-> DOMAIN Sizes]
Asking  == phase \in {"relevance", "decide", "classify"}

Ask(kind) ==
    /\ phase = "idle" /\ phase' = kind
    /\ open' = IF kind = "relevance" THEN DOMAIN RecallBatches ELSE {1}
    /\ UNCHANGED <<refused, model, stream, earlier, reply, joined>>

(* The answer to batch b has these keys. A classification does without the others;
   relevance and decide do not.                                                  *)
Answered(b, given) ==
    /\ Asking /\ b \in open
    /\ phase = "classify" \/ given = Batches[b]
    /\ open' = open \ {b}
    /\ joined' = Append(joined, <<b, InOrder(given)>>)
    /\ UNCHANGED <<refused, phase, model, stream, earlier, reply>>

(* Mutant of Scored: the batches are left in the order they were answered in. *)
ScoredAsJoined ==
    /\ Asking /\ open = {} /\ phase' = "scored"
    /\ joined' = <<<<phase, FlattenSeq([i \in DOMAIN joined |-> joined[i][2]])>>>>
    /\ UNCHANGED <<refused, model, stream, earlier, reply, open>>

(* The scores, in the order of the batches; score q is the answer to question q. *)
AnswersTo(b) == joined[CHOOSE i \in DOMAIN joined : joined[i][1] = b][2]
Scores ==
    LET order == InOrder({joined[i][1] : i \in DOMAIN joined})
    IN FlattenSeq([k \in DOMAIN order |-> AnswersTo(order[k])])

Scored ==
    /\ Asking /\ open = {} /\ phase' = "scored" /\ joined' = <<<<phase, Scores>>>>
    /\ UNCHANGED <<refused, model, stream, earlier, reply, open>>

(* A request fails, its answer misses a key or is no probability, or the caller gives
   up: the other requests are dropped with it.                                   *)
AskFails ==
    /\ Asking /\ phase' = "idle" /\ open' = {} /\ joined' = <<>>
    /\ UNCHANGED <<refused, model, stream, earlier, reply>>

AdapterNext ==
    \/ \E m \in Models : Infer(m)
    \/ Interrupted \/ Write
    \/ PushComment \/ PushContent \/ PushPart \/ PushWhole \/ PushGarbage \/ PushError
    \/ \E byDone \in BOOLEAN : Finish(byDone)
    \/ Rest
    \/ \E kind \in {"relevance", "decide", "classify"} : Ask(kind)
    \/ \E b \in open : \E given \in SUBSET Batches[b] : Answered(b, given)
    \/ Scored \/ AskFails

AdapterSpec == AdapterInit /\ [][AdapterNext]_adapterVars

--------------------------------------------------------------------------------
Own    == reader.x.out                   \* the deltas of this attempt
Shown  == earlier \o Own
(* A line of s other than its first column begins with a brace. *)
IndentsBrace(s) == \E i \in DOMAIN s : /\ s[i] = "{"
                                       /\ IsBlank(SubSeq(s, 1, i - 1)) \/ \E j \in 1 .. i - 1 :
                                              s[j] = "\n" /\ IsBlank(SubSeq(s, j, i - 1))

(* While a document streams, the person reads a prefix of its prose and nothing else
   of it, however it is cut; when infer returns a document, its prose is the last
   thing shown, unless native calls came with the text of a document they cannot
   join or with a stream that was cut: then the prose is all that was written. (A
   preamble line that indents a brace starts the prose too early: then none of it
   is shown.) About ProseExtractor, NativeProse, unwrap_document, native_document. *)
ProseIsShown ==
    /\ phase = "json" /\ Unwraps(answer, Len(Text(answer))) => IsPrefix(Own, answer.prose)
    /\ /\ phase = "done" /\ reply.kind = "document" /\ ~IndentsBrace(answer.before)
       /\ Named = <<>> \/ (done /\ (answer.document = <<>> \/ Joinable))
       => IsSuffix(TrimEnd(reply.prose), TrimEnd(Shown))

(* The calls an answer makes: those its document lists, unless native calls came
   with a document without presentation, and then the native ones.               *)
CallsOf(a) ==
    (IF Unwraps(a, Len(Text(a))) /\ (a.presents \/ a.calls = <<>>) THEN a.own ELSE <<>>)
        \o AsTools(a.calls)

(* Every tool is offered under a function name of its own, and the calls of a stream
   that ended with [DONE] come back whole and in order, the document's own first and
   the native ones under the names of their tools, however their pieces were
   interleaved. About accumulate and native_document.                            *)
CallsComeBack ==
    /\ \A i \in DOMAIN Tools : \E f \in DOMAIN FunctionNames : FunctionNames[f] = Tools[i]
    /\ phase = "done" /\ done /\ reply.kind = "document" => reply.calls = CallsOf(answer)

(* Scores are those of the questions asked, in their order, whatever order the
   batches were answered in; no batch is over the limit unless it is one question.
   About relevance, decide and classify.                                         *)
ScoresBelong ==
    /\ \A b \in DOMAIN RecallBatches : \A q \in RecallBatches[b] \ {b} : Total(b, q) <= BatchLimit
    /\ phase = "scored" =>
           LET scores == joined[1][2]
           IN IF joined[1][1] = "classify"
              THEN \A i, j \in DOMAIN scores : i < j => scores[i] < scores[j]
              ELSE scores = [q \in DOMAIN Sizes |-> q]
================================================================================
