# Verification of ri

TLA+ models of ri, checked by TLC on small instances, and theorems about them,
proved by TLAPS for every instance. `PROJECT.json` lists the runs, which
definition models which lines, the hazards and the property that watches each,
the mutations every property was seen to catch, the disagreement found, and the
theorems.

    tlc -workers 2 -config Harness.cfg Harness     # a run
    tlapm HarnessProofs.tla                          # a proof

## 1. The system

ri has two crates. `ri-agent-core` runs agents: a loop that alternates model
answers and tool calls, a small stateful wrapper (`Agent`), a large one
(`AgentHarness`) that persists a session, the session's tree, and its storages.
`ri-llm-provider` talks to models: providers as streams of events, a collection
of providers (`Models`) with credentials and catalogs, and the logins.

| part | state | operations | interacts by | what is hard | what makes it correct |
|---|---|---|---|---|---|
| agent loop (`agent_loop.rs`) | context, new messages, turn, pending messages, the batch of tool calls | prompt, continue | awaits the stream, tools, hooks; polls queues; emits events to a sink | tools of a batch settle in any order; errors at every await; turn limit | each call is answered once and in order before the next request; it returns what it emitted; queued messages arrive; it ends |
| Agent (`agent.rs`) | state under a lock, `active_run`, `abort_flag`, two queues, a Notify | prompt, continue_run, reset, abort, steer, follow_up, wait_for_idle | runs the loop; any thread calls it | state is read, unlocked and used; reset in the middle of a run | one run; messages are not lost; waiters return, and not early |
| AgentHarness (`harness/agent_harness.rs`) | phase, pending session writes, three queues, abort flag, settings, Session | prompt, skill, template, compact, move, navigate, writes, steer, abort, wait_for_idle | runs the loop with a persisting sink; listeners call back; writes the session | check-then-act on the phase; failing storage; flush order | one operation; each write and message in one place; order in the session; Ok means persisted |
| Session (`harness/session.rs`) | log of entries, leaf, labels | append (eleven kinds), move_to, fork, branch, context | clones share a storage behind a lock | an append takes the lock three times | the tree is rooted; reopening gives the same; the cut branch gives the same context |
| JSONL storage and repository (`harness/session.rs`) | a file, the replay of it | the same, create, open, fork, delete | file system, other processes | an append is two writes; a death between them; two writers | a file that opens has all that was acknowledged |
| SQLite storage (`harness/sqlite_session.rs`) | rows, materialized totals and branches, caches | the same, paging, statistics | one transaction per append | rollback, the active branch | equal to the tree |
| compaction, moves (`harness/compaction.rs`, `agent_harness.rs`) | none | prepare, compact, summarize a branch | a model call, retried | cut points between a call and its result; a cut inside a turn | what the context showed is kept or summarised; calls keep their results |
| message shaping and payloads (`message_transform.rs`, `deferred_tools.rs`, `anthropic.rs`, `openai_*.rs`, `google_shared.rs`, `bedrock.rs`, `mistral.rs`) | none | the messages and tools of a request | called before every request | a conversation whose model is switched or stopped in a batch | calls and results pair up; all that was said is said; a seal goes only to its model |
| request limits (`simple_options.rs`, `estimate.rs`, payloads) | none | cap, thinking, estimate, usage | called before and after every request | usages of ten conventions; a window that is nearly full | each token counted once; thinking fits the reply |
| validation (`validation.rs`) | none | coerce and validate arguments | called before every tool | coercions that an enum or a union then refuses | what passes fits the schema, and a value that fits is not refused |
| shell (`harness/env.rs`, truncation) | capture, spill file, process group | exec | processes, two reader threads, abort flag | abort, timeout and exit race the last output | the tail and the file are what was written; the command ends |
| event stream (`event_stream.rs`), HTTP provider (`http_api_provider.rs`) and adapters, proxy (`proxy.rs`) | blocks under construction, the stream's end | stream | HTTP, the event stream | fragments that interleave; streams cut off anywhere; consumers that leave | the message is the reply; the events tell it; one end |
| Codex transport (`openai_codex_responses.rs`, `http_api_provider.rs`) | sockets by session, continuations, sessions held to HTTP | stream | WebSocket, HTTP, a server that remembers | a socket that was used up, expired or lost while cached; two requests of a session | the server answers the whole conversation; one request per socket; one reply |
| Models (`models_runtime.rs`, `models_store.rs`) | providers, dynamic list, shared refresh, store | get_auth, refresh, login, logout, check_auth, streams | credential store; providers; tasks | calls dropped at an await; aborts; concurrent refreshes | one refresh at a time; what is shown is saved |
| credential store and resolution (`auth/credential_store.rs`, `auth/resolve.rs`) | credentials, a lock per provider | read, modify, delete, resolve | providers' token endpoints | two requests with one expired token | a token is presented once; a logout stays |
| credential file (`oauth_auth_storage.rs`) | a file | resolve, save | other processes | load, refresh, save without a lock | a login is lost only to a stale copy |
| OAuth flows (`*_oauth.rs`, `radius.rs`, `device_code.rs`, `auth/interactive.rs`, `cli.rs`) | callback server, polling state | login, poll, save | browser, HTTP, a user | the callback races the pasted code; slow-down and deadline | the code exchanged is this login's; polls keep their distance; it ends and frees its port |
| retry (`retry.rs`) | attempt | retry_assistant_call | timers, callbacks | an error after a retry | callbacks pair up |
| registries, faux provider, tables, images, helpers, skills and templates | maps or none | lookups, pure functions | | | |

## 2. The modules

| module | of | composed in | theorems in |
|---|---|---|---|
| `AgentLoop` | one run of the loop | | `AgentLoopProofs` |
| `Agent` | the wrapper, called by threads | | `AgentProofs` |
| `Harness` | phases, queues, pending writes | | `HarnessProofs` |
| `Session` | the tree and its clones | `SqliteSession` | `SessionProofs` |
| `SqliteSession` | the tree kept as rows in SQLite | | `SessionProofs` |
| `SessionLog` | what the holder of a session file may rely on | | |
| `SessionFile` | the JSONL file; implements `SessionLog` | | `SessionFileProofs` |
| `Messages`, `Payloads` | what a request makes of a conversation, for six adapters | `Conversation` | |
| `Compaction`, `Retry` | where a session is cut, what is summarised; a call that is retried | `Conversation` | `HarnessProofs` |
| `Conversation` | a session through switches, stops, moves and compactions | | `HarnessProofs` |
| `TokenUsage`, `RequestLimits` | what a reply took, what the next may take | `Turn` | |
| `ToolArguments` | coercion and validation | `Turn` | |
| `ShellCapture` | a shell command | `Turn` | `AgentLoopProofs` |
| `Turn` | the stages of a turn | | |
| `AssistantStream` | what the consumer of a stream may rely on | | |
| `EventStream`, `HttpStream` | the events, the task of a request | the adapters | |
| `AnthropicStream`, `CompletionsStream`, `ResponsesStream`, `GoogleStream`, `MistralStream`, `BedrockStream`, `RelayedStream` | an adapter each (the last: pi-messages and the proxy) | `Providers` | `ProvidersProofs` |
| `Providers` | every adapter; implements `AssistantStream` | | `ProvidersProofs` |
| `CodexSocket`, `CodexTransport` | sockets and bodies; the task of a Codex request (extends `EventStream`) | | `CodexProofs` |
| `Models` | credentials and catalog of one provider | | `AuthProofs` |
| `CallbackServer`, `DevicePoll`, `CredentialFile` | a login's server, its polling, the shared file | `Login` | `AuthProofs` |
| `Login` | a login beside the applications that use the file | | `AuthProofs` |

`MC...` instantiates a module for TLC. Each module has one action per section
of code that other actors cannot interleave with: what is done under one lock,
or between two awaits. Operators named "mutation" are bugs that the checks
were tried against: each property was seen to fail with one of them in place.

**AgentLoop.** `pc` is where the loop's future stands; `ctx`, `pending`,
`emitted`, `returned` are the code's vectors, of messages that keep a role, a
number and a stop reason. The batch of tool calls is a sequence with a state
per call; a parallel batch prepares in order (`PrepareCall`), then starts
(`StartPrepared`) and settles in any order (`FinishCall`), and its results are
recorded in source order. Model, tools, hooks and queue providers answer in
every way their types allow, errors included. A run that `prepare_next_turn`
leaves with a shorter context than it started on panics when it fails
(`FinishWithError`); the model keeps this outcome as `"panicked"`. Not
modelled: progress updates, and text.

**Agent.** The shared memory of `AgentInner` (the state's fields that matter,
`active_run`, `abort_flag`, queues, registrations of the Notify) and a `pc` per
caller, one step per critical section or atomic access, so that an `abort` may
fall between the claim of a run and `abort_flag.store(false)`. The loop is cut
down to what reaches the state: it emits, polls, injects what it polled, ends or
fails. A run that fails with drained messages in hand (the second provider of
the chain, `agent.rs:106`, or the limit of turns) loses them, `lost`, although its
call returns Ok.

**Harness.** `start_phase` gives the phase to one caller; `pc` takes it through
`prompt_inner`, `compact_session` and the moves, with the flushes as a
subroutine (`ret` is where it returns). `pending`, `queues`, `session` and
`context` hold numbered items, so that losing, doubling and reordering can be
told. Storage fails up to `MaxFailures` times, at any append. Listeners are
callers like threads: they may call at any moment. The three lock sections of an
append are one step here; Session tells them apart. Settings (model, tools,
resources), hook registries and event payloads are left out.

**Session.** `log` is the storage's vector, `leaf` and `labels` its caches,
`draft` and `pc` the append under way in each clone, in its three lock
sections. `Branch` is the code's walk from the leaf to the root or to the newest
compaction, `ContextEntries` the selection of what the model is shown.
Compactions keep an entry of the branch they summarize, as the harness computes
it. A setting (thinking level, active tools, model) is that of the last entry of the
branch that says so (`Latest`; a reply names its model). `Branch` has no entry
before the oldest one kept, so a setting chosen there and not since reads as its
default, "off" or none, where the path to the root has it:
`SettingsKept` allows that loss and no other, and the messages are the same.
Paging, names and the projection of entries to messages are left out.

**SqliteSession.** `Session` with the rows that `sqlite_session.rs` writes in
the transaction of each append: `saved` is the leaf and the totals in the
database, `totals` those in memory, `branches` and `active` the branch table and
the branch in use. Each step is a step of `Session` and what the storage does
in it; a transaction commits or rolls back as a whole. Creating a session,
opened handles besides the first, malformed rows and forks are left out.

**SessionFile.** Processes hold files as lines, the last of which may be torn:
an append writes its text, then its newline, and only then its entry reaches
memory. Any write may fail or be cut short and a process may die between the
two. Opening replays every line and refuses the file for one that does not
parse. `SessionLog` is the abstract specification: a log that grows by one entry
at a time, from which nothing acknowledged disappears, or that never opens again.

**Providers.** A provider's reply is its items and their fragments (`wire`), which it
sends in any order and under any of the names its protocol allows. The adapter
named by `api` turns each event into blocks (`proc` is its processor's state)
and pushes events into `out`, which keeps both the message under construction
and what a receiver rebuilds from the deltas and ends of the events; an event a
receiver would refuse leaves `broken`. An item's start may bring content that no
delta tells (`brought` on the provider's side, `lead` in a block): the text of a
redacted thought and the `input` of a tool_use (Anthropic), the arguments of an
`output_item.added` (Responses, held in the slot until they go into the block with
a delta, a `done` or the end of the item). The end of the block tells it, and
nothing before; the `input` of a tool_use is not kept, since its deltas, or the
stop of a call that had none, replace the arguments by the parse of what they
brought. `HttpStream` is the task around it: where it looks for
the abort flag and the consumer, its retries, and its ends. `AssistantStream` is
the abstract specification. Usage, signatures and identifiers are left out.

**CodexTransport.** A request is a task that takes its session's socket from
`cache`, or dials one; says the whole input, or, when the settings agree and the
input begins with what the socket last told, the rest; reads; and puts the
socket back. The server's memory is kept with the socket, so that what it
understood (`heard`) can be compared with what was asked. Sockets age by `Tick`,
are cut by the network, and `disabled` holds sessions to HTTP.

**Conversation.** A scene says which models a user switches between, which
tools there are, and whether the session is compacted or its branches
summarised. Every request is compared with what its context holds
(`Messages` and `Payloads` make it); a text, an image or a thought is the number
it was said under. Moves go back to any entry, to the editor for a prompt, with
a summary of the branch that is left, within its budget. An id of a call is its
reply, its call id and, of a Responses reply, its item id; parallel calls may share
the call id, and a reply may give them ids so long that they agree up to where an
adapter cuts them (40 or 64 characters), when the cut makes them one. Joining and
hashing keep the parts; hashes of different ids differ, as do ids of
different replies however cut, and different characters that are replaced or
trimmed alike are part of what is cut. So the model has what the code does with
merged ids: two calls and two results go out under one id and, when the batch was
broken off after the first result, the second call goes out without one.
`RequestWellFormed` says exactly when that happens, and that it happens nowhere else.

**Turn.** Three stages, one per behaviour, as a stage needs nothing of the one
before it but that it ended: requests along a conversation with the caps, the
thinking and the estimate of each (`TokenUsage`, `RequestLimits`); the
arguments of a call against its schema (`ToolArguments`); a shell command
(`ShellCapture`), where writers, two reader threads, the capture, abort, timeout
and exit interleave.

A wish has a level or the caller's `own` words for it: Anthropic's
`thinkingEnabled`, `thinkingBudgetTokens` and `effort`, Google's `thinking`,
Mistral's `promptMode` and `reasoningEffort`, the `reasoningSummary` of the
Responses apis. `OwnStands`: they win over any level. Nothing fits Anthropic's own
budget to the cap, so `AnswerHasRoom` leaves such wishes out. Prices leave out the
double rate of one-hour cache writes and the factor of a service tier.

Numbers keep their edges at a small scale (`Precision`, `LongMax`, `ULongMax`): a
double of 3 bits, where the code's has 53, tells 9 from 8 no more than a real one
tells 2^53 + 1 from 2^53, and 32 as an integer is 31, as 2^63 is i64::MAX. The text
of an integer passes through a double, so `ArgumentsFit` asks of a text or a float
that its double be kept, of an integer that it be kept exactly.

**Models.** One provider; a caller's `task` record holds its call: operation,
where it awaits, its credential, abort flag and network setting. A call may be
dropped at any await, which frees the lock it holds but not what it has done.
`refreshes` are the shared futures, `inflight` the provider's slot; a shared
future advances only while a call that awaits it is polled. Tokens are numbers
the provider issues; an answer lost after the provider has rotated a token is
invisible to the client, so `rotated` counts a token once its successor is
stored. The registry of providers, `check_auth`, header merging, environment
lookups and streams are left out.

**Login.** A browser login (Anthropic, Codex, Radius) races its callback server
against the code the user pastes; the device logins poll (`DevicePoll`, whose
clock moves by the delays it sleeps). A code is named by the login it was made
for. The command line then saves its credential in the file that two
applications resolve and refresh theirs from: who changes an entry reads the
file, changes its copy, empties the file and writes. Tokens are numbered; `spent`
are those a provider no longer takes, `acked` what was last saved, and `stale` is set
when a copy older than the file is written over it or a save fails.

## 3. The runs

Every run ends with the whole state space of its bounds explored, most in a
minute or two.

| run | bounds | shows |
|---|---|---|
| `agent_loop` | 2 turns, 2 calls per message, 3 user messages, one rewrite of the context, two histories | the request shows the transcript; calls are answered; what it returns; queued messages lost or doubled only at the documented errors; it ends |
| `agent` | 3 threads, 3 calls, 2 messages | one run, where messages are, waiters that return and not early |
| `harness` | 3 callers, 3 calls, 3 items, 2 turns, 1 failure | who owns the phase, order in the session, and (`NothingSlips`) every item in one place and persisted when a prompt said Ok |
| `harness_flush` | 2 callers, 2 calls, 1 failure | the disagreement of section 5 |
| `session` | 2 clones, 4 entries, over SQLite | rooted; `ReadsSame`: reopening changes nothing, cutting the branch only settings chosen before the cut; `MirrorsRows`: rows and totals are memory's, the active path shows the same messages |
| `session_file` | 2 processes, 2 files, 2 entries, 1 failed write or death | `ReopensAsWritten`, and `SessionFile` implements `SessionLog` |
| `providers` | 8 adapters, 3 items of 2 fragments, 1 retry | `MessageTold`: message and events are the reply; no cut reply counts as done; the events refine `AssistantStream`; a result comes |
| `codex` | 3 requests of a session, 2 at once, 4 plans, 1 item, 2 events of the environment | the server answers the whole conversation; one reply; sockets of one user and not too old; every request ends |
| `conversation` | 10 scenes of 2 models and 5 entries; 3 with compactions, 2 with branch summaries, 3 to 5 entries | requests are well formed; all is said, and seals only to their model; callbacks pair up; what was shown is kept or summarised |
| `turn` | 30 models by 12 wishes over 3 messages; 62 schemas by 400 arguments; 5 bytes written, limits of 2 bytes and 1 line | tokens counted once and capped; thinking fits; arguments fit; output kept; the command ends |
| `models` | 2 callers, 3 calls, 3 tokens | a token is refreshed once; only logins store after a logout; a published list is saved |
| `login` | 1 login of each kind, 2 applications, 2 resolutions, 2 requests to the server, 1 fault each of network and file, lifetimes 0 and 7 (9 for Codex), intervals absent, 0 and 2 | whose code is exchanged; polls keep their distance; a login ends and frees its port; what the file loses |

Why the bounds are enough. *Loop:* two turns give a request after a batch and
the turn limit after it; two calls settle in both orders; the third user message
queues behind another. *Agent, harness:* three threads are one in a run, one
that races for it and one that resets, aborts or waits; three items are two in
one queue and one elsewhere; one failure meets every append. *Sessions:* four
entries hold a compaction of a compaction and a move across it; two processes
with a file each or one together, and two entries, let one be torn and one follow it.
*Providers:* three items hold a block between two others and both ways two can
interleave, and a second fragment is what a slot has to be found again for; any of the three may bring content with
its start.
*Codex:* three requests put a socket back, find one there already, and find it
changed; two ticks reach both deadlines. *Conversation:* five entries are a
prompt, a batch of two calls with its results, and what a switched or stopped
model makes of them, a prompt after the first result included; each pair is two rules of shaping that differ, and each
adapter of `Payloads` is in one. *Turn:* each model stands for an api and a
thinking format or map that the code tells apart, each schema for a keyword or
a combination, and the shell's limits are scaled below one read. *Models:* a
request, a second one with the same token, and a login or logout between; the
tokens are the first, its successor and a login's. *Login:* two applications
and the login are the stale reader, the writer and the one that comes after;
seven seconds of lifetime hold three polls and the cut-off of the last wait.
Each bound is a constant guarded in the action that counts, or the instance's set.

Properties that share a hazard are conjoined under one name where one run
checks them: `MessagesKept`, `NothingSlips`, `ReadsSame`, `MirrorsRows`,
`MessageTold`, `SocketsKept`, `SaidToItsModel`, `KeptOrSummarised`, `TokensTold`,
`ThinkingFits`, `OutputKept`, `LoginEnds` are such conjunctions, and their parts
are named and commented one by one. Type invariants are stated and, where section 4
says so, proved; TLC finds them true in the runs of their modules, which do not keep
them as properties. Where a property has an exception, it is
a history variable or a named condition (`orphaned`, `raced`, `stale`), and the
hazard's note says which code behaviour it stands for.

Callers are symmetric where only safety is checked; a run with a liveness
property uses no symmetry. Deadlock is not checked: once the calls are used up
or the run has finished, the system rests.

**Fairness.** None is asked of a user, a caller who has not called, a browser or a
process that the shell started.

- `AgentLoop`: the loop's future is polled while it can advance, and a tool that was
  started settles (weak fairness of `Loop` and `Tools`).
- `Agent`, `Harness`: each thread inside a call is scheduled (weak fairness of
  its `Step`); no lock is granted in any order.
- `Providers`: weak fairness of `Next`: the task runs and the provider goes on
  answering or closes. Nothing in the code stops a task whose provider falls
  silent, so the assumption is needed.
- `CodexTransport`: some task that can step does: tasks run, and the server
  answers, or `options.timeout_ms` or the connection's end does.
- `Login`: the server's task, the login's own steps and its saving run; a
  request to a provider is answered or times out. `LoginEnds` exempts a login
  that waits for the user (`UserOwes`).
- `Turn`: `exec`'s loop and each reader thread run.

## 4. The theorems

For every number of callers, turns, items, calls, tokens, requests, plans,
processes and files; constants are assumed to be what their `ASSUME` says
(numbers, finite sets, distinct values; for Codex also that a socket is given up
after a time that is not zero, `openai_codex_responses.rs:28`; for the shell that
a read, of 8 KiB, `harness/env.rs:608`, is no longer than what can be shown).

- `AgentLoopProofs`: `TypeCorrect`, `TranscriptShown`, `CallsGetAnswers`,
  `MessagesStay`. The properties speak of a request and of a run's end; the
  invariant says what the transcript is at every other point. `Batch`: every
  outcome is that of a settled call, a sequential batch is settled up to where
  it stands. `Story`: the transcript is turns that are answered, then the part
  of the turn in progress that has been shown. `Delivery`: each user message is
  in one of the queues, the drained messages and the transcript, and lost or
  doubled only by the errors that `MessagesKept` names.
- `AgentLoopProofs`, of ShellCapture: `OutputIsKept`. A capture that lets go of its
  front keeps more than can be shown, since a chunk is no longer than that
  (`Caught`, `KeptFromIs`), so what is shown whole is whole; and it has a file by then,
  or has read less than can be shown, so a file starts at the beginning. What
  was read and what is still in the pipes is what was written (`StreamInv`), and
  readers that ended left nothing. It is proved of `ShellSpec`, the command by itself, as
  `Turn` runs it after stages that leave it alone.
- `AgentProofs`: `TypeCorrect`, `OneRunAtATime`, `GuardIsHeld`,
  `WaitsForTheRun`, `MessagesHaveOnePlace`. `OneRun` is not inductive: a claim
  finds nobody inside because `active_run` says so (`GuardHeld`), reset does not
  touch that flag while it is set, and a waiter may return because claims and
  settled runs are counted in turn (`Counted`, `WaitersSawRun`). For the messages
  (`Accounted`) it adds that a call past its refusal or its run carries none.
- `HarnessProofs`: `OneOperationAtATime`, `TypeCorrect`, `WritesFollowTheRun`,
  `ItemsInOnePlace`, `NothingIsLost`. A flush is a subroutine that may return
  into an operation only: `Returns` is the strengthening; types of the shared run
  state rest on the phase having one owner. For the order of a write after its
  run the invariant adds that no write is stamped with a future run and that a
  run still able to append has flushed nothing of its own (`Stamped`,
  `Unflushed`). That every item has one place is a count of its copies in the
  queues, the pending writes, the session and the callers' hands, which each
  step conserves (`Conserves`). That Ok means persisted: from a run's first
  message on, an error is kept or the session has of this run what the context
  has, in that order (`Faithful`), and nobody gets past `runEnd` with an error
  (`Clean`).
- `HarnessProofs`, of Conversation: `EveryRetryIsTold` and `NothingIsForgotten`.
  What the callbacks of a call were told is said at any point of it (`CallInv`).
  That a compaction forgets nothing is not inductive: where the context starts
  depends on every compaction of the path. `Chained` says that each keeps no older
  entry than the ones before it and covers only what is older still, so the
  context is the path from the entry that the last one keeps (`ContextIs`),
  however far the walk to it went (`BranchIs`); `WorkInv`, that the
  summary under way is of the path as it is. A branch's summary tells what came
  last of it (`TellsTheLast`), whatever its budget and the weights of its entries:
  what is left out is older than all that is told.
- `SessionProofs`: `AlwaysRooted`, `AlwaysReadsSame`, `AlwaysMirrorsRows`, under
  any interleaving of lock sections. Ids under construction are fresh and distinct (`FreshIds`), and
  parents read earlier are still entries (`KnownParents`): the log only grows.
  For what is read, walks to the root exist because a parent stands before its
  child; a walk that is cut at compactions is a tail of the whole one (`TailOf`)
  that holds all the context needs (`Covers`), as long as each compaction keeps an
  entry of the branch it was pushed on (`KeptInv`), which holds until an append
  races another. One call at a time holds a draft that compacts (`Refs`). For the
  rows of SQLite: reading the rows of a walk in the order of the log gives the walk
  (`RowsOfCut`), so a rebuilt branch is the walk; a branch extended by a row is not,
  once it holds a compaction, but the walk covers it (`Shown`), races or not, until
  an append lands under a former leaf without a child (`orphaned`).
- `SessionFileProofs`: `ImplementsLog`, the step refinement of `SessionLog`, and
  `AlwaysReopensAsWritten`. A newline changes nothing that is read; a text adds
  its entry, or leaves a file that never opens again (`TextReads`). So every
  acknowledged line stays in its file (`FileInv`) and each write is a `Grow`, a
  `StaysLost` or nothing. A file with no failed write has one handle at most,
  whose memory is the file's up to the line that is not ended (`SoleInv`).
- `AuthProofs`, of Models: `TypeCorrect`, `TokensRefreshedOnce`, `LockNeverLeaks`,
  `OneRefreshAtATime`, `LogoutStays`, `PublishedIsSaved`. The holder of the
  lock works on the stored token (`HolderInv`), which cannot change under it;
  a finished login's token is nowhere else (`LoginInv`), so no token returns
  to the store; every unfinished refresh is the slot's (`RunningInSlot`), so
  the list changes under one refresh only (`ListInv`).
- `CodexProofs`: `OneReply`, `WholeConversation`, `SocketsAreKept`. That no
  stream is broken is not inductive: a task that turns to HTTP starts its reply
  anew, which is in place only because it has shown nothing. `StreamInv` ties
  what a task has shown to where it stands (`Shows`): nothing before the reply has
  begun, and afterwards a message of which every block has been told (`Whole`).
  A socket has one owner, a task or a session's cache, whose continuation is one
  that the socket's server knows (`SocketInv`, `Honest`): so what is left out of a
  request is what the server remembers. A task that dials finds a number that
  nobody has because owners are fewer than numbers (a pigeonhole over `Running`).
- `ProvidersProofs`: `StreamsAgree`, `RepliesAreTold`, `CutRepliesFail` and
  `StreamsAreAssistantStreams`, the step refinement of `AssistantStream`, for
  each of the eight adapters. That a message is the reply is not inductive: a
  fragment lands in its item's block only if the adapter still knows which block
  that is. `StreamInv` says, while an answer is read, that the message, what its
  receiver was shown and what the provider sent agree, block for item, with what
  the item's start brought where the adapter keeps it (`Leads`), and open
  together (`Agree`), and that what the adapter remembers finds them
  (`ProcFits`): a map with an entry for the items under way and no others
  (`Slots`: Anthropic, Responses, Bedrock), the one block in progress (Google,
  Mistral), a block of text, one of thoughts and the calls by their ids
  (Completions). Each push keeps the agreement and only adds to what was shown
  (`Follows`), so an event of a provider, which is a few pushes, does so, and a
  step of the stream is one of `AssistantStream`. The fragments of a block are
  counted (`Bears`), so that a lost one and one told twice are told apart. At
  the end `Concluded` says what a reply that is done has ended.
- `AuthProofs`, of Login: `OwnCodes`, `PollsApart`, `OnlyStaleSavesLose`. A code of
  another login can only come from the prompt, and with a state nobody saw
  (`Whose`); a poll is due when the interval asked for has passed since the last
  (`Spaced`). For the file: tokens are numbered and a new one is nowhere yet
  (`Numbered`, `Fresh`), a copy that has the version at which the entry was last
  changed has its token (`FileVersions`), and while nothing stale was written the
  file at rest has what was saved, and an emptied file's one writer has it
  (`Kept`).

Recursive functions are unfolded in the proofs only after the function that
satisfies their equation was shown to exist (`Collected` for the texts of a file,
the walks and rows of `SessionProofs`); what they compute for every input is then shown by
a least counterexample (`Least`, `Along`).

Only model-checked: liveness and fairness (`RunEnds`, `WaiterReturns`,
`ResultComes`, `RequestsEnd`, `CommandEnds`, `LoginEnds`), which the prover does
not reach; of Conversation, `RequestWellFormed` and `SaidToItsModel`, which compare
the results of folds (Messages and Payloads), for which the prover has no
induction; and of Turn, `TokensTold`, `ThinkingFits` and `ArgumentsFit`, whose modules
compute with folds and `RECURSIVE` operators. What is
proved of compactions holds whatever the weights of the entries add up to.

## 5. Where the code disagrees with its documents

`harness_flush` runs one: a flush whose append fails locks
`pending_session_writes` while it holds it, and never returns. The modules
state these others, which TLC refutes within the bounds of the run of their module
and which no run keeps:

- `AbortReachesRun` (Agent): `abort` on an active run is erased by that run's
  own start, or by a racing `reset`.
- `WaiterReturns` (Harness): `wait_for_idle` looks at the phase before it
  registers, and may sleep through the end of the operation.
- `ProjectedOnce` (Harness): a write pending for several turns is added to the
  context at each of them.
- `ForkOpens` (Session): a fork at the marker of a move may lack the marker's
  target, and panics.
- `ListRetained` (Models): a refresh that fails to persist reports the failure
  and keeps the new list, though implementations must retain the previous one.
- `SummaryPreserved` (Conversation): when the cut falls in the first turn after
  a compaction, the new summary is made without the one before it.
- `SummaryOfTheBranch` (Conversation): a branch summary may tell entries the
  conversation still shows.
- `EveryCallAnswered` (Conversation): of a batch that was broken off after a
  result, calls whose ids the next model's adapter cuts to the same get no
  result made for them.
- `BusyPortAsks` (Login, with a taken port among its flows): a taken callback
  port leaves the Codex login with a channel that is ready from the start, and
  it fails instead of asking.
- `StopsForNobody` (Providers, with `Wrapped = TRUE`): through the Models
  runtime's `lazy_stream`, the task reads on for a consumer that has gone. It
  holds of the providers themselves.

## 6. Not modelled, and the plan

`PROJECT.json` gives the reason for each part. Stay out: the tables and their
generator (data), skills, templates and prompts (parsing and formatting without
state), the registries (maps, each operation one critical section), the faux
provider (a test double), images (one request and its parsing), the parsing of
server-sent events, JSON repair, cryptography and URLs.

What the partly modelled parts leave out is in their notes. What would add most:

1. `SqliteSession`: `create` as three inserts with a crash between them, a
   second handle on the same session, forks.
2. The settings of the harness (model, tools, resources), changed while it runs.
3. The registry of providers and the resolution from the environment in `Models`.
4. An abstract `Agent` (idle, running, settled) that both `Agent` and `Harness`
   are mapped to.
