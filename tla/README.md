# DAGOS: a verification project

TLA+ models of DAGOS (the Rust workspace in `crates/`), the TLC configurations
that check them on small instances, and TLAPS proofs of what matters most for
every value of the constants. Source positions below are paths from the
repository's root; `runtime.rs`, `store.rs`, `store/…` and `context/…` are in
`crates/dagos-core/src`, `server.rs`, `workspace.rs`, `approvals.rs`,
`guard.rs`, `providers.rs`, `keys.rs` and `main.rs` in `crates/dagos/src`; the
other crates are named with their paths under `crates`.

1. [The system](#the-system)
2. [What is hard about it](#what-is-hard-about-it)
3. [The modules and how they follow the code](#the-modules)
4. [The runs: what each asks, its bounds, what it shows](#the-runs)
5. [Fairness](#fairness)
6. [What is proved](#what-is-proved)
7. [Where documents and code disagree](#where-documents-and-code-disagree)
8. [What is only model-checked, and what is not modelled](#limits)
9. [The plan](#the-plan)

## The system

A message becomes a *run*. Its runtime asks Jev, a context classifier, which
nodes of the project's DAG matter, compiles them into an IR, sends it to an
inference provider, validates the structured response, adds the nodes and edges
it emits to the DAG, makes the tool calls it asks for, and goes back to the
provider until a response asks for none; a lint reviewer may then hand changed
code back. Every step is an event in the run's history. All of it is in one
SQLite database, which any number of processes (`dagos serve`, `dagos run`,
`dagos recover`) may have open.

| Component | State it keeps | Operations | Talks to | What makes it correct |
| --- | --- | --- | --- | --- |
| Store: DAG (`store.rs`, `store/dag.rs`) | `dag_nodes`, `dag_edges`, one write transaction at a time | `transaction`, `insert_node`, `insert_edge`, `validate_edge`, `reaches` | called by the runtime; tells listeners of committed events | acyclic; edges inside one project; a response lands whole or not at all |
| Store: runs and events (`store/runs.rs`, `store/events.rs`) | `runs` (status, error code), `events` in sequence per run | `create_run_in`, `append_event`, `complete_run`, `fail_run` | runtime, every process | one running run per project; append-only; the events tell the status; an end is final |
| Runtime (`runtime.rs`) | per run: step, rounds, call numbers, review state; `stops` | `start_in`, `finish`, `execute`, `run_tool`, `review`, `stop`, `recover_runs_except` | Jev, provider, gate, tools, reviewer, store | calls only after permission; bounded loops; validation before mutation; every execution ends |
| Active context (`context/projection.rs`, `context/jev.rs`, `store/context.rs`) | `context_items` of each run | `carry_context`, `classification_request`, `validate_classification`, `apply_classification`, `replace_context` | runtime, Jev | removing context deletes nothing; one classification of each candidate; carried context is the previous run's of the chat |
| Recall (`context/recall.rs`) | none | `recall_candidates`, `select_recalled` | runtime, Jev | bounded; only turns of the project, each once |
| IR compiler (`ir.rs`, `compile_ir` in `runtime.rs`) | none | `compile_with`, `compact_tool_results`, the budget loop | runtime | ends; drops the least important first; never the request |
| Response validation (`response.rs`, `contracts.rs`) | none | schema and uniqueness checks | runtime | a response is accepted as a whole or refused as a whole |
| Conversations, projects, defaults (`store/…`) | their rows, `previous_run` | create, rename, list | server, runtime | a run belongs to a chat of its project |
| Migrations (`store/migrations.rs`) | `user_version`, tables | `migrate` | store | any crash leaves a version whose schema is there |
| HTTP server: runs (`server.rs`) | `AppState::executing`, `AppState::stop_requests` | `start_run` and its task, `stop_run`, `recover` | workspace, runtime | recovery spares accepted runs; a stop reaches the runtime that has the run |
| HTTP server: events (`server.rs`) | a broadcast of 4096 events | `events`, the store's listener | store, browser | a subscriber misses nothing or is told to resync |
| HTTP server: other handlers (`server.rs`) | none of their own | edits of tools, providers, keys, lint settings; views; connection checks | workspace | an acknowledged edit is in force |
| Workspace (`workspace.rs`) | `live` (runtime, settings, endpoints), `mcp` (pool), `tools_starting`, locks `edits` and `tool_edits` | `reload`, `start_tools`, `set_tool_policies` | files, pool, approvals | as above; a failed reload keeps the previous runtime |
| Approvals (`approvals.rs`) | policies, `pending`, `escalations` | `decide`, `answer`, `set_config`, `set_tools` | runtime (gate), handlers | checks only tighten; one answer decides; every question ends |
| Guard (`guard.rs`) | the Jev to ask | `assess` over windows of the arguments | approvals, Jev | no part of the arguments escapes a window; unchecked means asked |
| MCP pool and client (`dagos-mcp`) | sessions, request identifiers | `discover`, `call`, `set_policies`, session start and restart | servers (child processes) | an answer belongs to its request; a policy never offers an Off tool |
| Lint reviewer (`dagos-lint`) | snapshots, judgments | `before_call`, `review` | runtime, Jev, files | only changed units are judged; a verdict belongs to the text it was asked for |
| OpenAI-compatible adapter (`dagos-openai`) | a streamed response | `infer`, prose and tool-call extraction | provider | prose shown is the prose of the response, however chunks are cut |
| Providers and keys (`providers.rs`, `keys.rs`) | `providers.json`, the keys file | load, edit, replace | workspace | an edit keeps what other edits saved; a saved key is of a provider that is there |
| Browser application (`dagos/ui/js`) | the views it loaded | refresh after events, edits | server | it ends up showing what its reloads brought last; it offers to interrupt no run that is being executed |
| Command line, inspection views, fakes, domain types | none of their own | parsing, formatting, read-only projections | the above | |

## What is hard about it

- **Many processes, one database.** Recovery, a second start and an execution
  can meet at any transaction. Nothing but the database keeps them apart.
- **Crashes** between any two transactions of a run, and inside one.
- **Threads of one server.** A handler and the task it spawned share two tables
  under separate locks; a stop, a reload, a recovery and the end of the run
  interleave at every one of them.
- **Await points.** Policies, escalations, configurations and runtimes are read
  before an await and used after it.
- **Locks that do not cover each other.** Edits of tools and edits of providers
  hold different locks and both reload; the start of the tools holds none.
- **Deadlines and late answers**: a stop against completion, an answer against
  a timeout, a store that refuses what a recovered run still wants to record.
- **Loops** of tool rounds and reviews that send each other back to the model.
- **Answers out of order**: of a tool server to requests that were given up, of
  Jev to the questions of a review, of the endpoint to batches, of the app to
  overlapping reloads; pieces of a stream that is cut anywhere.
- **Files shared by processes**, rewritten as a whole by each, and killed halfway.

`PROJECT.json` lists each hazard at its line, with the properties about it or
the reason there is none.

## The modules

Each module models whole handlers: an action is one critical section or one
transaction together with the await whose result it records. Data is abstracted
to what the properties tell apart; what the model, Jev, tools, people and files
answer is chosen freely.

**`Dag`** has edges and reachability: `Reaches` says that every set of nodes
closed under the edges that has the one has the other, which is what the
recursive query of `reaches` computes, and can be proved about without recursion.

**`DagStore`** is `Store::transaction` as the runtime's `apply_response` uses
it. `home` and `edges` are the committed tables, `txHome` and `txEdges` what the
open transaction sees (SQLite's IMMEDIATE transactions admit one writer in the
whole database). Nodes are inserted first, then edges one at a time, each
checked by `EdgeAllowed` (`validate_edge`) against the view so far. `Crash`
rolls back anywhere; `RejectEdge` is a DAG violation. **`DagPromise`** is what
this implements: a response lands whole exactly when the graph it would give is
valid, a statement that mentions no order of edges, and otherwise not at all.

**`Runtime`** is the life of runs over `runs` and `events`: `project`,
`status`, `errorCode` and `log` are the database, which outlives everything;
`up`, `owner`, `pc` and the rest are processes and their executions.

| Code | Actions |
| --- | --- |
| `start_in` | `Start` |
| `finish` | `BeginFinish`, `Stopped`, `Fail`, `FailRun` |
| `classify_context`, `classify_with` | `RequestJev`, `JevAnswers`, `FallbackAnswers` |
| `wants_everything`, `recall_turns`, `recall_everything` | `Everything` |
| `compile_ir` | `Compile` |
| `infer` | `Infer`, `InferAnswers` |
| the response and `apply_response` in `execute` | `Respond` |
| `run_tool` | `RequestTool`, `DecideTool`, `EndCall` |
| `review`, `record_findings` | `SkipReview`, `Review`, `Remember` |
| `complete_run` | `Complete` |
| `stop`, `recover_runs_except`, `main.rs` | `Stop`, `Recover`, `Crash`, `Restart` |
| any transaction that fails | `StoreFails` |

A log entry keeps an event's type, the number of the call it is about, and
whether it allowed the call (or found nothing). Streamed deltas and the events
that accompany another one are left out. **`RunPromise`** is what a run promises
to whoever reads only its events.

**`ServerRuns`** is `start_run`, its task, `stop_run` and `recover` in one
server. `executing` and `stopRequests` are the tables of `AppState`, `stops` the
notifiers of every runtime the workspace has built, `pc[r]` the step of the task
of run `r` and `rt[r]` its local `runtime`, `asking[s]` the step of a stop
handler with what it read. `start_run` holds the `executing` mutex from
recording a run to marking it: `Unlocked` guards every other section that takes
it. What `execute` does is one step here; `Runtime` has its steps.

**`ToolConfig`** is the live configuration: `mcp.json` and `providers.json` as
version numbers, and the versions from which the pool, the approvals and the live
runtime were made. A pool has its configuration, which `set_policies` replaces
(`SetPolicies`), and the servers it `started`, which it keeps. `decided`,
`described` and `guard` are what the approvals have by `set_config`, `set_tools`
and `set_guard`; the last two belong to a reload, which is `ReadPool`, `Build`,
`SetGuard` and `Install`. Its actors are handlers of edits and the task that
starts the tools, each at a step `at[a]`; a handler whose client disconnects is
dropped at its await with its locks. `met` is history: the other kinds of actors,
that no lock keeps apart from this one, that were active at the same time.

**`Approvals`** is `decide` with its policies, the guard's verdict, the question
and its timeout, and `answer_tool_call` with "always allow". `effective_policy`
takes the lock once for each tool, so `ReadPolicy` reads one tool's policy at a
time; `Explained` and `Register` are the two inserts, `Unregister` and `Forget`
the two removals of `Waiting`'s drop. A timeout that elapsed and the drop of the
receiver are two steps, because a sender can still succeed between them.

**`McpPool`** is one server of the pool with its processes (`dagos-mcp/src/lib.rs`
and `client.rs`). A request is `<<actor, serial>>` in the model, but the protocol
sees the identifier its session gave it, so an answer that comes late can be
told from the one awaited by that identifier alone. `Lookup`, `Spawn` and
`Install` are `session` with its second look at the map; `Lock` is the
session's mutex, whose waiters queue; `Ask` writes the request, `SkipLine`,
`ReadRequest`, `Decline`, `Accept` and `Fails` are the loop of `request`, and
`Greet` ends `Session::start`. `NextPage` and `LastPage` are `list_tools`,
`Report` what `discover` notes. `TimeOut` is `within`, and `CutOff` is the run
dropping the future of its call at any await, in the middle of a line too, which
then swallows the next line (`torn`). The server answers any pending request, in
any order, writes lines that answer nothing (`Write`) and exits.

**`ProviderFiles`** is the `providers.json` of each project, rewritten in place, and
the user's `keys.json`, replaced through a temporary file of one name, with the
handlers that edit them in processes of several projects (`ProjectOf`). An edit is
the steps of its handler: it takes its process's `edit_lock`, reads, truncates,
writes (or renames), reloads and confirms. `Torn` is a file between truncation and
write; a process may die, and a write fail, at each step. An entry has an address
and the variable of its key; `live[p]` is what `Load` made of both files, where an
entry stands in for the preset of its id and a variable for a saved key. Keys are
by id, so all projects' endpoints of an id are sent the same one. `clash` is history:
whether editors of two processes were at work at once, which nothing prevents.

**`LintReview`** is the reviewer of `dagos-lint`: `BeforeCall` copies the files a
call names, `Review` is `changed_units` up to the requests of `judge`, each
`Answer` comes in any order and is remembered at once, `Fail` drops the rest, and
`FinishReview` keeps the most probable findings that were not dismissed. Tools and
people change files at any time, named or not. Two runs share the reviewer and
its answers. A function is its name and a version.

**`Context`** is what a run is shown. `StartIn` carries the context of the chat's
previous run on; `Classify` applies an answer of Jev, of any content, as a whole
or not at all, or that of the policy classifier; `RecallTurns` and
`RecallEverything` choose from `recall_candidates`; `Send` and `LeaveOut` are the
loop of `compile_ir`, one pass each, over texts known by their size. What the code
finds turn by turn is stated by what it is: the last turns of a chat are those with
fewer than so many after them, and a pass leaves out the least cut, closed under
`GoesBefore`, that frees enough. `CallTool`,
`Reply` and `HandBack` are the rounds that compile again, and `Emit` is the
`apply_response` of both: a node at most, and edges that supersede between any nodes
the IR shows (`Visible`) or the new one, each with the run that made it. `Remember`
is `record_findings`. Runs are ordered by a clock that may stand still or be set
back, and then by identifier.

**`ProseExtractor`** is the extractor of `dagos-openai/src/prose.rs` and
`native.rs` as functions from a state and a character to a state: nesting and
keys, escapes and surrogate pairs, the preamble before a document, and the note
before it in a native stream. **`Adapter`** runs it under `infer`: an endpoint
writes the characters of an answer in fragments and its calls in pieces, in any
interleaving (`Write`, `Push…`), a line is in `line` from its first byte to its
last, so a stream may end inside one, and `Interrupted` is every failure, with
the refusal of native tools that `infer` remembers and answers with a second
attempt. `NativeDocument` puts the native calls behind those a document lists, or
makes a document of the note when there is none they can join (`Joinable`). `Ask`,
`Answered` and `Scored` are the questions to a decisions model,
whose batches are asked at once: a batch is what lies between two questions that
would have gone over the limit (`First`), and is known by its first question.
`Offered` is the table of function names, built a tool at a time.

**`Browser`** is the app over the server's views and its stream. The server's
part is the store (`status`), the tasks and the table `executing` with its mutex
(as in `ServerRuns`), and the listener that publishes a committed event after
the lock is released; the subscription is a queue of a fixed size and a flag
`resync`. `Refresh` adds the loads of `refresh`, which overlap and are answered
in any order: `ReadStore` and `ReadExecuting` are the two reads of an overview,
`AnswerChat` that of a chat, and `Arrive` shows an answer the way the app does,
without asking whether a newer one arrived before it. `Fail` is a load that only
shows an error. `OtherProcess` is what `dagos run` and `dagos recover` commit to the
store, of which this server publishes nothing. Two histories say what the views
cannot be expected to tell: `untold`, the runs another process changed last, and
`behind`, the views whose last load failed or was overtaken.

**`DagProofs`**, **`RuntimeProofs`**, **`ServerProofs`**, **`ApprovalProofs`**,
**`McpPoolProofs`**, **`BrowserProofs`**, **`ProviderProofs`** and **`ContextProofs`**
hold the proofs; `ServerProofs` has those of `ToolConfig` too, the other half of a
server process, `ContextProofs` those of `LintReview`, the other questions Jev is
asked about a run, and `ProviderProofs` those of `Adapter`, which talks to the
providers that `ProviderFiles` saves. A module `MC…` for each
checked module gives its constants values and symmetries.

Operators marked "Mutant of" in the modules are the definition above or below
them with a plausible bug; they are used by no specification, and show that the
property named with them in `PROJECT.json` would catch it.

## The runs

| Run | Instance | Properties | States |
| --- | --- | --- | --- |
| `dag_store` | 3 nodes, 2 projects, 2 edge types, responses of up to 2 edges | `DurableAcyclic`, `EdgesWithinProject`, refines `DagPromise` | 48,177 |
| `runtime` | 1 run, 2 processes, 1 tool round within the limit, 2 calls a response, 2 reviews, 1 node a response, changed or unchanged code | `HistoryTellsStatus`, `ActsAreAuthorised`, `HistoryIsFinal`, refines `RunPromise`, `ExecutionsEnd` | 351,580 |
| `runtime_two` | 2 runs, 2 projects, 1 process, a fallback Jev, no tools | `OneRunPerProject`, `LiveRunsAreRunning`, `FailureHasEvidence` | 514,888 |
| `server_runs` | 2 runs, 2 runtimes, 1 stop request at a time | `AcceptedRunsAreSpared`, `ExecutingIsExact`, `StopsWhileWaitingHold`, `RunsDoNotHang` | 198,426 |
| `tool_config` | the start of the tools, 1 editor of servers, 1 of policies, 2 of providers; 2 edits of each file | `EditsApply` | 2,297,372 |
| `approvals` | 1 call of a meta-tool that names a second tool, 2 answers at a time, 2 edits | `AllowedCallsAreEarned`, `PendingCallsAreExplained`, `FirstAnswerStands`, `QuestionsEnd` | 129,411 |
| `tool_servers` | 2 callers and the discoverer, a listing of 2 pages, 3 processes of the server, 1 other line | `AnswersMatch`, `PoolIsSound`, `DiscoveryIsWhole`, `CallsEnd` | 352,137 |
| `provider_files` | 3 processes of 2 projects, one with 2 editors, a preset and an endpoint of the person's in 2 forms, 3 edits, 1 crash, to where editors of two processes meet | `KeysAreSound`, `EditsKeepTheRest`, `ConfirmedEditsApply` | 2,453,141 |
| `lint_review` | 2 runs, 2 files of 2 functions in 2 versions, 2 units a review, 1 finding, 2 calls, 2 changes, 2 reviews | `ReviewIsSound`, `ReviewsJudgeChanges`, `NeverJudgedTwice` | 4,126,202 |
| `context` | up to 3 runs in 2 new chats beside another project's run, 5 nodes, 1 edge of the first two runs, windows of 1 turn, a budget of 6 or none, 2 tool rounds | `FittingIsSound`, `RecallIsExact`, `ContextIsSound`, `RememberedOnce`, `CarriesOn` | 2,495,679 |
| `adapter` | 11 answers, fragments of up to 2 characters, 2 models, 3 tools, 5 questions in batches of at most 3 units | `ProseIsShown`, `CallsComeBack`, `ScoresBelong` | 228,980 |
| `browser` | 1 run, 2 chats, a channel of 1 event, 3 loads in flight, those of the overview and of the run's chat may fail | `LiveRunsAreNotStale`, `SettledIsCurrent` | 7,301,833 |

A property named for what it promises may join parts that have their own names
and comments in the module (`ActsAreAuthorised`, `RunsDoNotHang`, `EditsApply`,
`PoolIsSound`, `KeysAreSound`, `ReviewIsSound`, `FittingIsSound`, `RecallIsExact`,
`ContextIsSound`); type invariants are in these, or proved.

Why the bounds are enough:

- `dag_store`: the shortest cycle that an edge-by-edge check could miss has two
  edges of one response, or one that closes a path of committed edges over three
  nodes; two projects make crossing edges possible, two types make two edges
  between the same nodes distinct. `MaxEdges` bounds a response, not the graph,
  which grows to every edge over several responses.
- `runtime`: `MaxToolSteps = 1` has a round within the limit and one over it,
  `MaxCalls = 2` a call that follows another (allowed or denied) in its round,
  `MaxReviewRounds = 2` a review that hands back and a last one that does not,
  and `MaxCode = 1` code that changed, did not, or was changed back. The second
  process may recover the run under its execution at every step. No fallback
  Jev here; `runtime_two` has it.
- `runtime_two` has two runs and two projects, so that runs meet in a project
  and do not, and the one process of `LiveRunsAreRunning`'s hypothesis.
- `server_runs`: a swap of runtimes needs two; reloads stop at `MaxRuntimes`.
  Two runs share the tables and the mutex. Restarts are unbounded.
- `tool_config`: two edits of a file are an older and a newer one to mix up;
  `MaxFile` and `MaxProviders` count versions. `MayFail` lets every file be
  refused when read, and an edit be given up at any time.
- `approvals`: two answers race each other; a named tool is one that a policy
  can tighten; `MaxEdits` edits change policies during the call.
- `tool_servers`: two callers race to start a session and queue for one; an
  answer to a call that was cut off meets the next caller's; three processes are
  the one that discovery leaves, one that exits under a call and its successor.
- `provider_files`: two editors of one process share its lock, a third shares its
  project and a fourth its keys only; three edits are one to lose, one to lose it
  and one that reads the result. Once editors of two processes have met no property
  speaks of the files: the run ends there (`AfterClash = FALSE`), the proofs do not.
  The two forms of an entry differ in address and variable, which one process has.
- `lint_review`: four functions are more than a review may judge, and two
  findings more than it may report; two changes of a function may undo each
  other; two runs ask about the same text at once.
- `context`: three runs are a carried context, one that reclassifies it and one
  that inherits the result; with budget 6 a
  recalled turn may be left out and another kept, the outputs of both rounds may
  be too large whatever is left out, and a short output is smaller than the note
  that replaces it. `MaxEdges = 1` edge may join the task, a carried node and a new
  one in either direction, in the first two runs (`LastEdges`): what the last run
  supersedes is seen by no later one; `Kinds` has the one kind of node that is not talk, as tasks
  are talk. Two times with three runs put two in one
  instant and set the clock back.
- `adapter`: the answers hold an escape of each kind, `prose` under other keys
  and in a list, a fence, preambles with braces, text after the document, calls
  under names that collide, with and without arguments, and one that is no
  object, and documents that list a call, with native calls
  and without, and with no presentation for these to join; `MaxPreamble = 5` is
  reached by one preamble.
- `browser`: a refresh adds two loads, so three let it overlap one that is left
  from before; a channel of one event overflows at the second. One run starts,
  ends and may be left behind by a crash, or is another process's. `Failing` leaves
  out the chat that has no run, whose view is empty anyway.

Deadlock is checked in every run but `approvals`, `tool_servers`,
`provider_files`, `lint_review` and `context`, which stop once their bounded
calls, edits, changes or runs are used up.

## Fairness

`ExecutionsEnd` (Runtime) assumes that a live process takes the steps of its
executions, and that a crashed process starts again. The code's deadlines
justify it: Jev 60 s and inference 180 s (`runtime.rs:38`, `41`), tools 120 s
(`runtime.rs:99`), approvals 10 min (`approvals.rs:29`), the guard 20 s
(`guard.rs:20`); a transaction that fails is a step as well. `WF(Step(r))` is
weak fairness of the whole execution and never of one outcome, so no good answer
is assumed. Nothing is assumed of stops, crashes and recoveries.

`ServerRuns` assumes that threads run, that `wait_for_tools` gives up after
`TOOLS_WAIT` (45 s, `server.rs:358`), and that a `select` whose notifier has a
permit takes it. Nothing is assumed of `execute`, which may be stuck for ever
there: that is why a stop that ends an execution, in `RunsDoNotHang`, says
something. Nor is it assumed that tools ever come up, so the end of a wait for
them rests on `TOOLS_WAIT` alone.

`McpPool` assumes the client's own steps, and its timers: `within` for a start or
a listing, the run's deadline for a call (`runtime.rs:99`). Nothing is assumed of
a server, which may never read, answer or exit, nor of the order in which
callers are served beyond the queue of the session's lock.

`Approvals` assumes steps of the gate, whose wait has a deadline, and nothing of
people: handlers are never obliged to finish.

## What is proved

No proof uses more than the modules' named assumptions, which say that the
"nothing" values (`NoProject`, `NoProcess`, `NoTx`) are not values of the
kind they stand in for (nor is `Torn` the content of a file), that bounds and sizes
are natural numbers, that the discoverer is no caller, that a server's pages are
a sequence, that an actor of `ToolConfig` is of one kind, and that there are finitely
many files and functions, some of them with a text, that an endpoint names the tools it
calls, and that there are as many numbers to tell function names apart as tools, all
different (the code counts without end).

**`DagProofs`** (any nodes, projects, edge types and lists of emissions):

- `TypeCorrect`, `AlwaysAcyclic`, `AlwaysWithinProject`. The durable graph is
  acyclic because the *writer's* view is, so `IInv` adds that outside a
  transaction the view is the database (`ViewClosed`), inside one it is the
  database plus exactly the emissions applied so far (`ViewOpen`), those edges
  are new and distinct (`EdgesNew`), and the view's edges stay inside a project
  (`ViewWithinProject`; homes of nodes still to insert are free). The step is
  the lemma `AddEdgeAcyclic`: if `e.to` does not reach `e.from`, adding `e`
  closes no cycle anywhere. Its argument is about closed sets of nodes (their
  unions and intersections), not paths, so it needs no induction.
- `ImplementsPromise`: `Spec` implements `DagPromise`. A commit is `Apply`
  (`CommitIsApply`: every edge was checked when it was added, so the whole
  response is valid), and a refusal is `Refuse` (`RejectIsRefuse`: an edge that
  is invalid in a smaller graph is invalid in the larger one). Inserts, crashes
  and rollbacks stutter.

**`RuntimeProofs`** (any runs, projects, processes and limits):

- `TypeCorrect`, `NeverTwoRunning`, `HistoryAlwaysTells`: `IInv` has the types,
  `OneRunPerProject`, and for each run that its history ends with its only
  terminal event if its row has ended and has none otherwise, with what the step
  of an execution says about its own variables (a run whose execution is about
  to record a failure holds evidence without terminal events, for instance:
  otherwise `FailRun` could append a second end). A step touches the database in
  one of three ways (append, end, nothing), so the database part is proved once
  for each (`RecordDb`, `RecordEndDb`, `UnchangedDb`) and each action only shows
  which it is.
- `EndsAreFinal` is the action property `HistoryIsFinal` from the same invariant.
- `ActsAlwaysAuthorised`. `AInv` adds what each step of an execution knows of its
  history: `CallsOf` that the numbers recorded are below the next one, that a run at
  its gate has the request of the last call and no decision of it, and one that is
  calling an allowed decision and no result; `LoopOf` that the inferences so far are
  paid for by rounds of calls and reviews that handed back; `NodesOf` that a run about
  to remember findings has just recorded its review. An execution that another process
  recovered still acts: it appends nothing, so these hold of it by its history alone.
  Most steps append no tool event (`QuietStep`).
- `EvidenceAlwaysShown`. `EvidenceOf` ties the failure a step hands to `finish` to its
  evidence, and the recorded code to the event before the last. Each place that fails
  chooses the two together (`FailsFittingly`).
- `ImplementsPromise`: `Spec` implements `RunPromise` with the phase read off the
  status and the open call off the history. `Told` is what that needs: the last tool
  event of a history is the one its execution is at (`OpenCall`). Each step is silent
  to a reader of tool events (`Hush`) or one turn of the call (`Turn`); a recovery is
  `Fail` of the runs it ends.
- `OwnRunsStayRunning`: when there is one process, a run is never ended under
  its execution. The hypothesis is needed: with two, the other may run
  `dagos recover`. It is stated as an assumption of the theorem, not of the
  module.

**`ServerProofs`** (any runs, stop handlers and number of runtimes):

- `TypeCorrect`, `RecoverySparesAccepted`, `TableIsExact`. Recovery fails the
  running runs the table does not name, so sparing accepted runs needs the table
  to be exact, and that needs the local `runtime` of a run being marked to be a
  runtime; that a run at `ending` is running or completed is needed so that
  what `finish` records next is not an end twice. `IInv` says these per run as
  `RowOK`, `TableOK` and `StopOK`. The mutex enters in `RecoverIInv`: `Unlocked`
  excludes the one step, between recording and marking, at which the table is
  behind.
- `EditsInForce` of `ToolConfig` (any editors and starts of the tools). An editor
  holds its lock from its first step to its last (`LockOK`), so between its save and
  its answer the file is what it saved (`SavedOK`), and `DecidedOK` says how far that
  has been put in force at each of its steps, unless a start of the tools, which
  takes no lock, was active meanwhile (`Overtaken`). `ReadOK` says the same of what a
  reload has read, told the approvals and given the guard. That a kind of actor which
  could interfere is one it has met is `MetOK`. Edits that failed or were cut off hold
  no lock and leave nothing that these need.

**`ApprovalProofs`** (any calls, tools, names in arguments, handlers and edits):

- `TypeCorrect`, `AllowedIsEarned`, `PendingIsExplained` and, as an action
  property, `OneAnswerStands`. `PermitOK` says what each step of the gate has
  established (weighed policies, an app to ask in, the grounds of a decision) and
  `TablesOK` ties `pending`, `escalations` and the channel to it: a pending call
  is one its gate waits for, a call that was answered is past registering, and
  the channel holds what was acknowledged. Every step changes one call at most
  (`OneCall`, `NoCall`), so each lemma looks at that call only. That no pending
  call which the guard flagged is waved through by a remembered decision is
  `ClearedOK`: a gate past the weighing that was not flagged was cleared, and
  the steps after it keep the verdict (`OnwardKeeps`).

**`McpPoolProofs`** (any callers, pages, calls, processes and other lines), with an
invariant for each of three questions:

- `AnswersBelong`: a session uses no identifier twice. `FlyingOK` says that those
  on their way, with the server or in its output, are below the next one, and
  `AwaitedOK` that whatever is on its way with the identifier an actor waits for
  is the actor's own request. Every step but `Ask` adds nothing to what is on its
  way (`Follows`, `Keeps`), so only `AskIInv` looks at identifiers.
- `OneServer`: a call uses the process that the map names, or one that exited
  (`CurrentOrExited`). `InstallUInv` has the race: the second look at the map
  keeps a process that lives, so what is replaced under other calls has exited;
  and the only other change of the map, of a discovery that failed, comes before
  there are calls (`DiscoveredFirst`).
- `WholeListing`: the discoverer has the tools of the pages `Before` its own.
- `SoundPool` adds the types of the queues and of what actors hold to `OneServer`
  (`FitOK`, `PlainOK`).

**`BrowserProofs`** (any runs, chats, channel and number of loads):

- `BannerSparesLive`. A run shown as left behind must not be executed, now or
  later, so `IInv` says more than the property: it is `LeftBehind`, which no step
  undoes (`RunsStay`). An overview read the run as running, hence it had been
  started (`LoadOK` at `store`), and then read a table without it, under a mutex
  that start_run holds between recording and marking, so that the table is the
  tasks (`TableOK`). Loads overlap and arrive in any order; each keeps what it
  has read (`ReadingsStay`).
- `SettledViewsAreCurrent`. Either something is still to cause a reload (`Reloads`) or
  the overview and the selected chat are fresh (`FreshOK`): the load asked for last, of
  those that no newer one overtook (`Latest`), has read nothing yet or what the store
  holds, but for runs that are `untold`, and if there is none the view tells that or is
  `behind`. Every change of the store by this server is to be published, which is why
  nothing weaker than the whole chain of listener, channel, timer and loads is
  inductive. That `late` loads are those asked for before one that arrived is `LateOK`.

**`ProviderProofs`** (any providers, editors, processes, edits and crashes; any tools,
answers, sizes and limits):

- `SoundKeys`, `EditsKeep`, `ConfirmedApply`. Unless editors of two processes were
  at work at once (`clash`), one editor is at work anywhere: the others of its process
  wait for `edit_lock` (`Apart`, `Alone`). So what it read is what the files still
  hold when it writes, and `FileStep`, `KeyStep` and `DoneStep` say, for each of its
  steps, which part of its edit they have by then; steps that fail or are killed
  leave that part. `LiveOK` says whose settings are older than `providers.json`:
  the proof does not go through unless a process whose own edit failed after the
  write is one of them, which is why `KeysBelong` excuses what such a process saves.
  `Belong` counts the endpoints of every project (`Homes`), since an edit in one
  project must not be blamed for the key of another's endpoint. The theorems say
  nothing once two processes' edits have met.
- `ScoresInOrder` of `Adapter`. The batches, listed by their first questions, cut the
  questions into intervals that follow each other (`BatchesCut`, as `First` never goes
  back), and the pieces of a cut, one after the other, are the whole (`FlattenedPieces`).
  `AskedInv` has of each batch that it is still asked for or answered once, by the keys
  of its own questions unless it is a classification, which has a single batch.
- `CallsReturn` of `Adapter`. `Arrived` says that of each call the first pieces have
  come and no more, and that nothing stands after the calls that have begun; `Pending`
  that the line on its way is one that may still be written, which is why a stream that
  ended with `[DONE]` has everything (`AllArrived`). That every tool is offered
  (`EveryToolIsOffered`) needs a free number for each: of more numbers than names, one
  is not taken.
- `Adapter` is built on recursive functions. That they have the values their
  definitions give is `Recursion`, from the well-foundedness of the naturals
  (`Upward`), with the steps given as data, since no operator can be a parameter.

**`ContextProofs`** (any projects, chats, runs, nodes, answers, windows, budgets,
scores and outputs), from one invariant:

- `OrderedFitting`. `StepOK` is about the fitting by itself: what is left out is a
  part of what may be (`Parts`), in order (`InOrder`: a cut is closed under
  `GoesBefore`, so the turns kept rank no lower than those dropped), and the passes
  so far with what is `Left` to take never exceed what there was (`Ending`). The last
  is the termination of the loop, stated without liveness. `Fits` and `Whole` tie it
  to the sizes: what is sent is below its budget or bare, and something was left out
  only of an IR that was too large as a whole. It does not say that as little as
  possible is left out; how far that goes for turns, `NoTurnTooMany` of
  `FittingIsSound`, is model-checked.
- `ExactRecall`. What is recalled is among `RecallCandidates`, and all of them when
  everything was asked for (`Complete`); those are the finished turns but the last
  `Window`, of which the recent ones are a part (`LastTurnsAreFew`).
- `SoundContext`, `FindingsRememberedOnce`. The rows refer to rows of their project
  (`Rows`), and what was superseded before the run is out of its context once the
  policy classified (`StaysOut`), which no other run undoes: an edge counts from the
  run that made it, which is not always the run of its superseding node, and what a
  run emits is dated by itself (`EmitRows`).
- Both sides of all this look at other rows, of which every project keeps adding
  some. That the view of a run stands still is `SameRuns` and `Grown`: a project
  executes one run (`One`), and what others add is theirs (`OtherViews`).
- `ContextCarriesOn` is the action property `CarriesOn`. `Before` is a strict total
  order (`BeforeOrders`), so there is one previous run (`PreviousIsLast`,
  `PreviousIsOne`); with a clock that was not set back it is the one created last.

- `SoundReviews`, `ChangesAreJudged` and `JudgedOnce` of `LintReview` (any runs, files,
  functions, versions and limits), from `ReviewInv`. `CopiesOK`: a copy is the file as it
  was when the run began, unless the run named it after it had changed, and a file not
  noted as changed is what it was. `AskedOK`: a text about which two requests are open, or
  one while its answer is known, was asked about twice at once; without that an answer
  in the cache could be another's. `KnownOK`: every answer is remembered. That a review
  judges either everything new or `MAX_UNITS` functions is about a cut of a finite list
  by an order without ties (`FirstUnitsCut`, with a file's one text of a function in
  `ChangedUnitsCompare`).

## Where documents and code disagree

What reading the code next to its documents showed. The models have the code's
behaviour in each case, and their properties are about what the code keeps.

- "Failed runs … never mutate the DAG" (`README.md:36`). Each response of a run
  is committed when it is validated (`runtime.rs:398`), so a run that fails later
  has already added nodes. The traceability checklist says the same of review
  findings, and `record_findings` adds nodes.
- A run that changes code continues until a review is clean
  (`specs/001-core-runtime/spec.md:58`). A round of calls over the limit leaves
  the loop past the review (`runtime.rs:431`).
- Recovery marks runs left by a *crashed* process (`main.rs:53`). `dagos recover`
  spares no run (`main.rs:324`), a living server's included. `store.rs:94` says
  that a cut-off run is failed on restart; `dagos serve` recovers when asked.
- `stop_run` stops a run this app is executing (`server.rs:705`). A stop between
  the task's look at the requests (`server.rs:341`) and `finish` is acknowledged
  and lost.
- `set_tool_policies` saves and applies (`workspace.rs:231`). The start of the
  tools holds no lock (`main.rs:347`) and may overwrite what it applied with the
  file it read before. Two reloads under different locks may install the older
  runtime last (`workspace.rs:184`). `tools_starting` stays set when the client
  of a server edit disconnects, and is cleared by the first of two overlapping
  starts (`workspace.rs:205`).
- "Always allow" cannot help a flagged call (`approvals.rs:168`). A call that
  ends between the handler's check and its look at the escalation is treated as
  not flagged (`server.rs:739`). A tool turned off while the guard thinks is
  still allowed by what was read before (`approvals.rs:184`, `218`). An answer
  sent after the deadline and before the receiver is dropped is acknowledged and
  does not count (`approvals.rs:244`).
- A response and `run.completed` are committed together, says the module comment
  of `runtime.rs`; they are two transactions (`runtime.rs:398`, `435`).
- The keys file is replaced atomically (`keys.rs:91`). Two processes write the
  same temporary file, so one may rename what the other has written in part.
  A removal that fails after it wrote `providers.json` leaves the live settings
  as they were. So a process can save a key for an endpoint that is gone, be it
  that another process removed it or that its own removal failed half-way.
- A review compares a file with what it was "before the run first touched it"
  (`dagos-lint/src/reviewer.rs:5`). A file changed by a call that does not name it
  and named by a later one is copied after the change. Reviews that two servers
  of a project run at once load and save the cache without a lock.
- `remove_provider` removes an endpoint "and its saved key" (`server.rs:637`). Keys
  are the user's, by the id of a provider (`keys.rs:1`), endpoints the project's
  (`providers.rs:226`). Another project's endpoint of the
  id, one added there later, or the same id given another address or standing in for
  a preset is sent the key; and removing one project's endpoint removes the key of
  all of them (`server.rs:638`).
- Nothing is left out of an IR while everything fits (`runtime.rs:746`): one that
  is exactly as large as the budget counts as too large. The note that replaces an
  output may be longer than the output. What a turn frees is counted by its text
  (`runtime.rs:797`), without what the IR writes around it, so a pass may leave out a
  recent turn that could have stayed. Two findings of one review that are the
  same are both recorded (`runtime.rs:877`). A clock set back between the runs of
  a chat makes an older run the previous one (`store/runs.rs:133`).
- A document starts at a brace that begins a line (`dagos-openai/src/prose.rs:63`).
  The extractor takes an indented brace for one as well, `unwrap_document` does
  not: after a preamble with such a line none of the prose is shown. A stream that
  ends without `[DONE]` is accepted: a call may come back without its arguments, and
  calls after it be missing. When native tools are refused in mid-stream, the deltas of the first
  attempt stay shown.
- The app reloads after every event, but overlapping reloads may leave an older answer
  shown (`dagos/ui/js/app.js:88`), and one that fails is shown as an error and not
  tried again (`app.js:140`), both until the next event. What another process commits
  is no event here (`store.rs:177`), so it is shown when something else causes a
  reload. `SettledIsCurrent` excepts the three. A run that ends between the overview's
  two reads is shown as left behind, though it has ended.

## Limits

Only model-checked: all liveness (`ExecutionsEnd`, `RunsDoNotHang`, `QuestionsEnd`,
`CallsEnd`, and the temporal `StopsWhileWaitingHold`), which is outside the proof
system, and `ProseIsShown` of `Adapter`: what `ProseExtractor` makes of every text is
induction over data, which the provers cannot do, and TLC has it for eleven answers and
every way to cut them.

Abstractions to keep in mind:

- A failure of SQLite loses one transaction, never the tail of the log (with
  `synchronous = NORMAL` a power failure may lose the last commits). Crashes of
  the server drop the whole of its memory.
- One version number stands for the servers and the policies of `mcp.json`. In
  `Approvals` every tool an argument may name is known; when `set_tools` is called is in
  `ToolConfig`.
- `EditsApply` is about edits that no other kind of actor met where no lock keeps them
  apart: reloads that overlap and the start of the tools are the disagreements above.
  In the same way `AllowedCallsAreEarned` compares a decision with what its gate read,
  `RunsDoNotHang` excepts the stop that is lost, `ReviewsJudgeChanges` the copy made
  after a change, and `KeysAreSound`, `EditsKeepTheRest` and `ConfirmedEditsApply` end
  where editors of two processes were ever at work at once.
- `ProviderFiles` has of an entry its address and the variable of its key, and of the
  Jev its provider. A torn file is one value, whoever tore it.
- `McpPool` is one server: sessions of two servers share only a lock that is held
  for a lookup.
- `Context` knows texts by their size, has nodes by rank of creation, no edges but those
  that supersede, at most one new node in a response, one entry
  in an answer of Jev at a time, and in another project one finished run; titles,
  archiving and the choice of the latest chat are left out. No first output is of
  a call that was denied.
- `LintReview` has one rule, and a map from files to functions in place of the
  extraction from source text.
- `Adapter` has one inference or one set of questions at a time; a document is given
  by its prose, whether it has a presentation, and the calls it lists; a request's
  wording, its retries by other means and the fetched windows of models are left
  out.
- `Browser` keeps of a view what the store says of runs: the text streamed live,
  the inspector, settings and rendering are left out.

Not modelled: response validation (`response.rs`, `contracts.rs`: JSON Schema on
one document, seen by `Runtime` as accepted or rejected); migrations (one
transaction each, with its version); the windows of the guard; the inspection
views and other read-only projections; run defaults; argument parsing, domain
types, identifiers and time; HTTP and SQL themselves; wording and formatting.

## The plan

What is left, the most useful first:

- `ToolConfig` over `McpPool`, so that what an old pool does with a configuration of
  other servers (`workspace.rs:239`) is seen by the calls to them.
- The guard's windows (no part of the arguments escapes one) and response
  validation, as functions against a reference definition.
- The tail of the log that `synchronous = NORMAL` may lose, as a crash of
  `Runtime` that takes back committed transactions.
- The prose of every text: a relation between the characters read and the state of
  `Extract`, kept by each character, would prove `ProseIsShown` for every answer.
