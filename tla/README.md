# A TLA+ model of the switchboard hub

This project models the mcp-switchboard hub: the orchestrator that runs agents,
the streams by which a console follows them, the tunnels to clients, the grants
that say who may use what, the records a hub keeps (transcripts, delegated work,
skills, profiles), and its edges towards consumers, model providers and the log.
TLC checks every module on small instances; TLAPS proves the most important
results for all instances. Paths below are relative to the repository, mostly to
`src/hub/internal/`.

Contents: [the system](#the-system), [modules](#modules), [runs](#runs),
[fairness](#fairness), [proofs](#proofs),
[disagreements](#disagreements-between-code-and-documents),
[what is not modelled](#what-is-not-modelled), [plan](#plan).

To check a run: `tlc -config RunScheduler_slots.cfg MCRunScheduler`. To check
the proofs of a module: `tlapm RunSchedulerProofs.tla`. `PROJECT.json` maps every
definition to the lines it models and lists runs, hazards and theorems.

## The system

A hub (Go) stands between MCP servers that clients (Python) run on their
machines and the agents (LLM conversations) that use them. People watch and steer
through a web console. Durable state is in SQLite and in a directory of
Markdown files; everything else is in maps of the hub process, guarded by
mutexes, and is lost in a crash.

| Part | State it keeps | Operations | What is hard |
|---|---|---|---|
| Run scheduler (`agents/manager.go`, `run.go`) | `running`, `resumeQ`, `startQ`, `chatActive`, `chatQueue`; per run its context, slot, waits; the `runs` table | submit, acquire, release, enterWait, leaveWait, cancel, finish and promote, shutdown, boot sweep | many goroutines of one run hand one slot to and fro; cancellation meets every blocking point; a crash between two writes |
| Tool calls (`run.go`, `tools.go`, `questions.go`, `calls/dispatch.go`) | `approvals` of a run, `toolCalls`, the `calls` table, tool messages | execTool, gate, Approve, Answer, dispatch, record | answers that are late, repeated or for another turn; timers; a budget shared by concurrent calls |
| Chat stream (`chatstream/hub.go`) | a ring of frames per run, a byte-bounded queue per subscription | Publish, Subscribe, SubscribeActive, Next, EndRun, purge | resumption at any position while frames are published, evicted and purged |
| Console feed (`api/ws.go`, `web/src/...`) | the socket, its outbox, the tab's position and drafts | sub, unsub, forward, overflow, reconnect, resume | frames in flight across reconnections and remounts |
| Client tunnel (`tunnel/tunnel.go`, `registry/registry.go`) | connections by label, a session and tool list per server | hello, register, evict, server_state, supervisor, teardown | reconnection before the old connection is gone; restarts faster than the supervisor |
| Session transport (`mcpsession/transport.go`, the client's `supervisor.py`) | a bounded buffer of frames, the pending requests of a session | open, read, write, close, time out | ids begin again in every session; replies of a process that is gone |
| Client's loop (`client/.../tunnel.py`) | attempts and the delay before the next | dial, serve, be evicted, back off, give up | two clients with one label evict each other for ever |
| Agent tree and grants (`grants.go`, `patterns.go`, `service_impl.go`, `store/sqlite_agents.go`, `sqlite_grants.go`) | `agents` and `grants` tables | createAgent, SetGrant, UpdateAgent, DeleteAgent | reads and the insert of a spawn are separate transactions; wildcards and denies on both sides |
| Transcript (`store/sqlite_chats.go`, `run.go`, `compact.go`, `switchboard.go`, `bridge.go`) | the message tree, active leaf, remembered branches, summary | append, branch, select, compact, load and repair | people move the leaf while a run reads from it and writes below its own |
| Delegation and mail (`switchboard.go`, `service_impl.go`, `manager.go`, `store/sqlite_chat_delete.go`) | agent records, their chats, edges between them, routes of runs, idempotency keys, mail | spawn, send, list, stop, reply, post, delete | each tool call is several transactions, and anything may be deleted between them |
| Skill library (`skills.go`, `library_sync.go`, `library/library.go`) | SKILL.md files and the `skills` table that indexes them | create, update, delete, import, scan of a host, reconcile, edits by hand | files and rows are written one after the other; reconciles run beside mutations and beside each other |
| Profiles (`profiles.go`, `agentmodel.go`, `library_sync.go`) | prompt files, the `profiles` table, the default | create, update, delete, set default, reconcile, an agent that follows one | two names with one slug; the default moves with files |
| MCP endpoints (`mcpserver/`, `registry.go`) | none of their own: a view of the registry | list tools, call a tool by a composed name | the registry changes between a listing and a call; names that read two ways |
| Event bus and gauges (`events/events.go`, `metrics/`) | queues of subscribers, gauges | Publish (drop-oldest), the watcher that recounts | a change and its event are two steps, the recount reads piece by piece |
| Model providers (`llm/`, `agents/toolcap.go`) | a stream per turn, the dialect detected for a host | build and fit a request, assemble a stream into a turn | half an answer, cancellation at every send, what must not be cut off |
| Log exporter (`loki/loki.go`) | a bounded queue, a batch under way | Emit, run, drain, post, Close | Close gives up while a post is under way |
| Others | see [what is not modelled](#what-is-not-modelled) | | |

How they interact. A post (delegation, transcript) is a submission (scheduler).
The active run of a chat takes turns; a turn reads the transcript, builds a
prompt, asks a provider, publishes what it says to the chat stream, appends it
to the transcript and executes its tool calls. A call is resolved against the
grants of its agent, may wait for a person (giving up the scheduler's slot), and
is dispatched through the registry to a session of a tunnel, or is a tool of the
hub: a message to another chat, a skill, a profile. A consumer at an MCP
endpoint reaches the same sessions without an agent. The console follows the
chat stream over its socket and sends decisions, posts, edits and cancellations
back. Every turn starts a reconciliation of the libraries with their files.

What makes each part correct:

* scheduler: slots are neither lost nor invented nor idle; a turn never runs
  without one; one run per chat; every run reaches a final status once;
* tool calls: no call that needed a yes runs without its own, nor beyond the
  budget; the log tells what happened; one result per call;
* stream and feed: a reader gets every frame in order or is told that it did
  not; a tab that stays catches up;
* tunnel, session, client: the newest connection holds its label; a session
  belongs to the process that runs now and reads no answer of an older one; no
  report is lost; evicted connections go away and their clients slow down;
* tree: a child never gets more than its parent held; no live agent below a
  deleted one; an edit touches nobody it should not;
* transcript: branches are remembered; a run is one chain; every prompt pairs
  calls with results, and with the recorded results where there are any;
* delegation: a task is answered once, and answered if both ends are there and
  nothing stopped the task or its answer; a repeated post is one run as long as
  its key is remembered;
* libraries: an undisturbed reconcile makes rows and files agree, and
  concurrent ones do not undo each other for ever;
* edges: a name of a listing runs the tool that was listed; gauges follow the
  registry; a prompt fits the window or is as small as it can be, and results
  follow their calls in whatever order they landed; a stream ends once and its calls are whole; the log ships
  or counts every event.

`PROJECT.json` lists the hazards behind these properties, each at its line.

## Modules

Control is kept whole; data is reduced to what the properties distinguish. An
action is one critical section of a mutex, one store transaction, one file
operation or one blocking point, since that is the grain at which goroutines
interleave. Operators marked "Mutant" are deliberate errors of the definition
below them; no specification uses them. Each `MC` module adds symmetry sets and
the values of structured constants. Three of them, `MCRecords`, `MCEdges` and
`MCLoops`, hold several small modules that share no state: a variable `part`
says which of them moves, so that one run explores each by itself and never
their product.

### RunScheduler

One variable per field of `Manager` and `runState`: `running`, `resumeQ`,
`startQ`, `chatActive`, `chatQueue`; `ctx`, `turns`, `holdsSlot`, `acquiring`,
`waiters` per run. `status` is the row in the store; `pc`, `call` and `acq` are
the positions of a run's goroutine, of its tool-call goroutines and of each
`acquire()`. `deleted` is `deleted_at` of the agent that owns a chat.

| Action | Code |
|---|---|
| Submit, SubmitRefused | `submit` |
| MaterializeSubmitted, MaterializePromoted | the append of the trigger message, by the submitter or after promotion |
| AcquireStart, Begin, AbandonStart | `acquire` of a starting run: taken at once, granted, or given up on cancellation |
| CommandTurn, LoopTop, Lookup, Turn, ToolsDone | `execute`, `turn` and the wait for the calls |
| CallStart, CallStep, EnterWait, LeaveWait, LeaveWaitLast, AcquireResume, Resume, AbandonResume | a tool call, `enterWait`, `leaveWait` |
| Finish, FinishRelease, Promote | the parts of `finish`: the row, the slot, the chat queue |
| Cancel, FinishQueued, WallTimer, SoftDelete, Shutdown, Crash, Start | `cancelRunState`, the timer, `SoftDeleteAgent`, `Shutdown`, death of the process, the boot sweep |

What a turn says is a choice of its outcome (text, calls, failure). A crash
resets everything but the rows.

### ToolCalls

The calls of one run in detail, without slots (RunScheduler's subject). A call
passes `Start` (budget), `Check` (grant), `Gate` (mode), `GateWait` and
`GateLeave`, `Run` or `Ask`, `AskWait`, `AskLeave`, and `Persist`. People `Send`
a request, which the hub handles in two steps, `Find` (the entry, under the
lock) and `Decide` (the channel send), because `Approve` does. `Edit` changes a
grant or the chat's approval mode; `Cancel` ends the run's context. Histories:
`asked`, `dispatched`, `made`.

### ChatStream and ConsoleFeed

ChatStream has the rings, the run order, the phases of a run and the
subscriptions of one chat; `Publish`, `EndRun`, `PurgeRun`, `CloseHub`,
`Subscribe`, `SubscribeActive`, `TakeFrame`, `CloseSub` are the methods of
`Hub` and `Subscription`. `log` is the history of everything published and
`at[s]` the position in it that the reader of `s` has reached.

ConsoleFeed EXTENDS ChatStream with the socket (`up`, `down`, the bounded
outbox), the hub's subscription in force (`cur`) and the tab (`last`,
`seqByRun`, `draft`, the restart timer). Its next-state relation composes the
hub's actions with those of the socket and the tab; the forwarder of a
subscription is the reader of ChatStream's queue.

### Tunnel

All connections claim one label and carry one server. `link` is where `run()`
of a connection is, `registry` the registered connection, `desired`, `sup` and
`want` the supervisor, `session` the incarnation of the process the session
talks to. `AcceptHello`, `Register`, `ReplaceOld`, `StopSupervisor`,
`RemoveConnection` are the stages of `run()`; `Evict` is the goroutine of
`evict()`; `NextState`, `CloseSession`, `Settle`, `Connect`, `ListTools` those
of `supervise()`; `OnServerState` a report of the client, `SocketLost` a
failure of the connection.

### SessionPipe

One server of one tunnel, end to end. The client's end: `StopProcess`,
`StartProcess`, `ProcessExits` (which report a state), `WorkerSend` (a request
reaches the process), `OnStdout` (a reply leaves it). The hub's end:
`OnServerState` and `Deliver` take the next frame of the socket, a report into
the slot `desired`, a reply into the buffer `incoming` while a session accepts
and there is room; `TakeState` and `Open` are the supervisor, which throws the
buffer away with the session it ends; `CallServer`, `ReadFrame` and `Timeout`
are the session's requests. Requests are numbered from 1 in every session, as
the SDK numbers them, so that nothing in a reply says which session it is for.

### Reconnect

Clients that share a label. Client: `Dial`, `HandleFrame` (hello_ack, a refusal,
the eviction notice, the close), `Hold` (the connection has lasted), `Decide`
(give up, retry at once, back off), `Wake`. Hub: `AnswerHello`, `Claim` (the
newest claim wins), `Evict`, `Forget`. `Lose` breaks a socket of which the hub
learns later. A delay is the number of attempts it is computed from, up to
`Longest`, from which on it no longer grows.

### Grants and AgentTree

Grants holds the algebra of patterns: `Matches`, `Covers`, `Intersect`,
`Resolve` and `DeriveChildGrants`, with the number of fields and their values
as constants. AgentTree adds the tables and a `createAgent` in three steps
(`CheckParent`, `DeriveGrants`, `InsertChild`) that `SetGrant`, `SetClient` and
`DeleteAgent` interleave with.

### Transcript

`msgs` is the table in order of `seq`, `leaf`, `last`, `mark` are the columns
`active_leaf_id`, `last_active_child_id`, `summarize_upto_msg`. A run goes
through `Point`, `ReadLeaf`, `AppendTrigger`, then `ReadChat`, `Load`,
`Compact`, `Answer` and `ToolResult` per turn, or a hub `Command`. `Post`,
`CheckBranch` and `Branch`, `Select`, `MailRead` and `MailAppend` are everybody
else; `CancelQueued`, `MaterializeFails`, `NoAnswer`, `ResultLost` and `Crash`
are the failures. `Repair` and `Prompt` are `repairToolPairs` and the assembly
of what a provider is sent. `was` is a history of the last active leaf.

### ChatMail

Records (`recs`) with their chats, parent links, edges and auto-wake flag; runs
with kind, route and the operation they are in; messages, mail that waits
(`inbox`), the line of a chat, idempotency keys with the run they name and the
window they were claimed in, and what each post was told.
`ToolSpawn`, `SpawnRecord`, `SpawnChat`, `SpawnTask` are the transactions of
`spawn`; `ToolSend`, `SendChat`, `SendMail`, `ToolList`, `ToolStop` those of the
other tools. `Materialize`, `Finish`, `DeliverReply`, `Promote` are the end of a
run as delegation sees it; `StopRuns` drops the runs that wait behind another in
line, as `finishQueued` does. People `Post` with a key
(`Claim`, `PostSubmit`), whose window may run out (`Expire`) and whose row the
janitor may delete then (`PurgeRuns`); they `CreateChat`, `CancelRun`, `SetEdge`,
`SetWake`, `DeleteChat`, `DeleteAgent`, each request a process with its own
reads (`DeleteChatCascade`, `DeleteRecords`). `Crash` leaves the tables.

### SkillLibrary and ProfileLibrary

Both have rows, files and processes `skPc`/`prPc` that are somewhere inside a
mutation or a reconcile, each with the listing it read. Skills: `CreateSkill`,
`ImportHostSkill`, `UpdateSkill`, `DeleteSkill` commit a row; `Mirror`, `Sweep`,
`Unlink` write its directory afterwards; `ListFiles`, `ListRows`, `Reconcile`
(file by file), `Stamp`, `Prune`, `After` are `reconcileSkills`; `StageHost` and
`SwapHost` a scan reported by a client; `HandEdit`, `HandDelete` an editor;
`Die` a restart in the middle. Profiles: `CreateProfile`, `InsertProfile`,
`ReadProfile`, `UpdateProfile`, `SetDefault`, `MirrorAll`, `DeleteProfile`,
`UnlinkPrompt`; a file is replaced in two steps (`TakeOld`, `WriteNew`); the
reconcile is `ListPrompts`, `ListProfiles`, `ReconcilePrompt`, `PruneProfiles`,
`KeepDefault`, `MoveDefault`, `Resync`, `End`; `Follow`, `ResolveAgent` an agent
that follows a profile. `Resync` rewrites the files of rows that followed an edit,
with the default flag the row had before the edit moved it; `prSettled` therefore
has three values: "wholly" after a reconcile that ran alone, "unflagged" after one
that ran alone and took the flag from the file by which it had moved the default,
and "no" otherwise. What is read back of a text that was written is a constant
function (`Kept`, `PKept`). It is not idempotent: newlines at the end go at once,
but of those in front a round trip takes one, so a text that begins with two
comes back with one and, written again, with none. `Slug` maps names to
file names and need not be injective or total.

### Catalog and Topology

Catalog: `Hello`, `Leave` and `Turn` change the registry; a consumer at a path
does `ListTools`, `ResolveTool`, `CallTool`, and the path's `Target` says which
scope it is and what names leave out (`Compose`). A name is a sequence of
characters, `Join` puts `__` between two of them, and `ValidName` is what a hello
has passed: a label, project or server may begin or end with one `_`, and a tool
may contain anything.
Topology: `AddOrReplaceConnection`, `RemoveConnection`, `SetState` change the
registry and owe an event, `PublishChange` and `PublishOther` publish it or
another one to a queue that drops its oldest; `TakeEvent`, `CountServer` and
`UpdateGauges` are `watchTopology`, which reads server by server.

### ModelStream and Prompting

ModelStream is one provider stream at a time, in three dialects (Anthropic,
OpenAI and compatible hosts, Ollama as `Detected`). The reader takes text,
fragments of calls, finish reasons and the end of the stream, puts deltas into a
bounded channel (`Send`) or gives up when cancelled; the turn `Receive`s and
`Conclude`s. Prompting builds a conversation (`Say`, `Note`, `Answer`, whose
results `CapBlocks` caps and which land in any order, `Orders`) and sends it: `OpenAIMessages`, `OllamaMessages`,
`AnthropicMessages` and, for Ollama, `ContextWindow`, `FitOld`, `FitLatest`,
`FitToWindow`. A text is its length.

### EventLedger and LogShipper

EventLedger is what an exporter promises: accepted events wait in order, leave
from the front, shipped or counted as lost, the youngest may be given up, none
is shipped twice and none disappears. LogShipper is the code: `Emit`,
`Wakened` (tick, full batch or stop), `TakeBatch`, `PostBatch`, `OutOfTime`,
`Close`, `CloseReturns`. It implements the ledger with `pending` = the batch
under way followed by the queue, `Capacity` = `QueueSize + BatchSize`
(`ShipsOnce == Ledger!LSpec`).

## Runs

Times are with two workers.

| Run | Configuration | States, time | Shows |
|---|---|---|---|
| scheduler_safety | `RunScheduler_slots.cfg` | 2.9 M, 100 s | SlotAccounting, NoIdleSlot, OneRunPerChat, NoOrphanRow, FinalStatusIsFinal |
| scheduler_ends | `RunScheduler_ends.cfg` | 1.3 M, 180 s | EveryRunEnds |
| stream_lossless | `ChatStream_lossless.cfg` | 264 k, 6 s | LosslessOrOverflow, EndsWithoutHole |
| feed | `ConsoleFeed_feed.cfg` | 923 k, 100 s | NoHoleInDraft, CatchesUp |
| tunnel | `Tunnel_all.cfg` | 296 k, 60 s | NewestHoldsLabel, SessionIsOfThisProcess, ServedOrFailed, EvictedGoesAway |
| calls | `ToolCalls_all.cfg` | 5.7 M, 110 s | NoUnapprovedCall, RowTellsTheTruth, ResultPerCall |
| transcript | `Transcript_all.cfg` | 2.5 M, 140 s | BranchRemembered, RunIsChain, PromptIsPaired, ResultsAreShown |
| records | `MCRecords_all.cfg` | 4.0 M, 130 s | RepliesOnce, OneRunPerKey, TaskAnswered (ChatMail); ProfilesAgree; AloneAgrees (skills) |
| edges | `MCEdges_all.cfg` | 1.8 M, 68 s | NoEscalation, NoOrphan, NarrowingOnly (tree); AnswersAsListed, GaugesFollow, AnswersAreFresh, FitsOrFloored, ResultsFollowCalls, EndsOnce, CallsAsSent |
| loops | `MCLoops_all.cfg` | 765 k, 110 s | Settles (skills); ShipsOnce, Accounted (log); EvictionsSlowDown (clients) |
| calls_question | `ToolCalls_question.cfg` | | a counterexample, see [disagreements](#disagreements-between-code-and-documents) |
| profile_default | `MCRecords_default.cfg` | | another |

Why the bounds are enough:

* scheduler_safety: two runs, two chats, one slot, two parallel calls, one turn,
  one crash. Two runs in one chat exercise the queue and promotion, in two chats
  the competition for the slot; two calls are what the bookkeeping of waits
  needs (the first gives the slot away, the last takes one back). A slot handed
  over while its taker is cancelled needs two runs. The store and the model may
  fail at every call. For the safety properties the bounds are not the last
  word: all of them are proved.
* scheduler_ends: two runs, which may be in one chat or in two, one slot, one call
  of a turn, one turn, one crash, without symmetry, because it is a liveness
  check. With two chats both runs are under way at once: one queues in `startQ`
  while the other has the slot, starts when the other's call waits, and then the
  first queues in `resumeQ` to come back. A hand-over that forgets either queue
  leaves a run waiting for ever, which is the error this run is tried on. Several
  waits of one run at once and store failures are left to scheduler_safety.
* stream_lossless: three runs, so that a reader can resume in a run that was
  purged, ended or is live; frames of two sizes and rings of three frames and
  five bytes, so that both limits of the ring and the budget of four bytes are
  met; six frames. A subscription does not see the others, so one suffices.
* feed: two subscriptions, since the second replaces the first while its
  forwarder may hold a frame; two mounts; one lost connection; an outbox of
  three. Three frames, a ring of two and a budget of one: a ring drops its oldest,
  a subscription that is behind by two frames is closed, and a run with two
  frames in its ring is a replay larger than the budget, as it may be with the
  defaults (4 MiB and 1 MiB). So the tab is overflowed as a slow reader, by its
  own replay, and when it resumes in a run that was evicted or purged.
* tunnel: two connections, of which either may evict the other. One client
  reports three states (a restart needs two), the other one.
* calls: two turns (IDs are reused in the second), two calls, two people, a
  budget of three calls so that the last is refused, one edit. Tools are
  upstream ones and questions. Tools of the hub itself ("local") differ from
  upstream ones in that they need no grant and may refuse; they are in the
  module and not in this instance.
* edges, tree: three agents (a grandchild), two fields of two values with
  wildcards, a root with an allow of everything and one deny, and requests for
  everything, for a wildcard, and with a deny; two edits. That the bounds lose
  nothing is the subject of the proofs.
* transcript: four messages, two submissions, two other events (selections,
  mail, crashes), two calls. A trigger, an answer with two calls and one of
  their results is four; mail or a second branch in between takes the place of
  one.
* records, mail: two records with a chat each (who delegates and who works), four
  messages and runs (a task, its answer, what the answer starts, and a post), two
  requests of two people, and one crash. Posts are repeated in a part of their
  own, where no record, chat or edge changes: five requests with one key that
  runs out twice, so that a post comes again while the first is under way, after
  the key was taken over and after its row was purged. Profiles: two names, three texts of
  which each loses a newline to the next when it is written and read, two rows,
  one mutation, one edit by hand, one restart, two processes, since a reconcile
  beside a mutation or another reconcile is the case in question. The seeded
  profile has the second name, so that a file edited by hand can come before it:
  then the case that ProfilesAgree excepts occurs, too. Skills: the
  same with three ids, so that a file can be adopted after two rows were made,
  and two mutations or edits. People and the processes of the libraries are
  interchangeable and nothing else depends on them, so the symmetry is sound for
  these invariants.
* edges, catalog: two connections of the same label or of two; servers `x`, `y` and
  `x_`, with a project or without; tools `z`, `y__z` and `_z`. So names join alike
  in every scope, because a project may be left out and because a server ends
  and a tool begins with `_`; all paths of up to a label, a project and a server.
  Gauges: two
  connections, two labels, a queue of two and two owed events, so that a queue
  overflows, and a state metrics does not know. Frames: three processes, three
  sessions of three requests, a buffer of two: a session can be two processes
  late and its buffer full. Prompts: five messages with windows from every
  source, results below, at and above each limit; answers with two calls of two
  tools and of one, landing in either order; the numbers are small and keep
  the order of the real ones. Streams: two calls of two fragments, a channel of
  one.
* loops, skills: two names, a text with two newlines in front and what becomes of
  it, two ids, two mutations, one host, one crash, two processes. Log: four events, batches of two
  and a queue of three, so that the queue is full with a batch under way.
  Clients: one that retries for ever, one that retries four times and one the
  hub refuses; the delay is longest from the third attempt. It checks liveness
  and uses no symmetry.

The bounds (`MaxCrashes`, `MaxFrames`, `MaxLosses`, `MaxMounts`, `MaxReports`,
`MaxEdits`, `MaxMsgs`, `MaxRuns`, `MaxOthers`, `MaxRecs`, `MaxChats`, `MaxReqs`, `MaxActs`,
`MaxWindows`, `MaxStops`, `MaxIds`, `MaxPIds`, `MaxPEdits`, `MaxHandEdits`, `MaxRestarts`,
`MaxOwed`, `MaxSess`, `LastId`, `MaxLen`) appear in guards only. Deadlock is
not an error in these runs: with all submissions made and ended, all frames
read, or all agents deleted, the system really is at rest; that it does not
stop earlier is what the liveness properties say.

Some properties name an exception, and each exception is a state the code can
reach and treats that way: `FinalStatusIsFinal` leaves out the rows of a deleted
agent, `GaugesFollow` a queue that pushed out its last event of this kind,
`Settles`, `AloneAgrees` and `ProfilesAgree` two files with one id (`Settles`
also a model without a row for the next file, `OutOfIds`), `ProfilesAgree` also,
for the default alone, a reconcile that took the flag from the file that had just
become the default, `TaskAnswered` a task that was itself cancelled, refused or
lost to a crash, one whose chats or records are gone, an answer whose own run was
cancelled, refused or lost while it waited (`finishQueued` drops it,
`manager.go:734`), and one whose delivery the store failed, which deliverReply
only logs (`switchboard.go:555`); `OneRunPerKey` speaks of one window of a key
(`IdempotencyWindow`, `entities.go:717`: ten minutes, as `spec.md:716` says and
`store/orchestrator_test.go:1057` tests), after which another post may take the
key; `CallsAsSent` leaves out an answer the token limit
cut, `AnswersAsListed` a name that reads both with and without a project and
names of which a label, project or server ends with `_`, and
`FitsOrFloored` a prompt that is already as small as `fitwindow.go` makes it;
`NoHoleInDraft` leaves out a thread that frames of two subscriptions may have
reached (`crossed`, set by a mount that finds an earlier subscription or its
frames, and by a subscription beside another). `CatchesUp` says that the draft
is the whole of the run in flight but for a front that the tab will not show
(`skipped`: what was published of a run whose start was evicted before the tab
asked, as `spec.md:1306` says); it leaves out a run whose ring exceeds
the budget, and in a crossed thread asks for the newest frame only. That the tab
keeps the numbers of the frames it drops in an overflow (`seqByRun`,
`streamAssembly.ts:228`), so that they would be duplicates if they came again, is
in the model and does no harm there: a tab that had frames of the run in flight
when its queue overflowed has with the queue more of that run than the budget, so
the run is evicted from its start or cannot be replayed.
What the code does there is listed under
[disagreements](#disagreements-between-code-and-documents).

## Fairness

* RunScheduler: weak fairness of `Start`, of each run's goroutine and of each
  call's. Go schedules runnable goroutines; a wait has a timer
  (`gate`, `toolAsk`); provider and dispatcher calls have deadlines. Nothing is
  assumed of submissions, cancellations, the wall timer, shutdown or crashes. A
  run that waits for a slot is not fair by itself: that it gets one depends on
  the hand-over from the run of another chat, which is what EveryRunEnds checks.
* ConsoleFeed: weak fairness of the reconnection (a timer with backoff), of the
  hub's handlers and forwarders, of the tab's message handler and of its restart
  timer. Connections are lost a bounded number of times; nobody has to publish.
* Tunnel: weak fairness of `run()`, of the goroutine of `evict()` and of the
  supervisor; settling, initialize, tools/list and the waiting in teardown
  have deadlines. Clients owe nothing.
* SkillLibrary: a request or reconcile that began goes on to its end, and the
  library keeps being read, because every turn and every listing starts a
  reconcile. Nobody has to edit anything.
* LogShipper: the pusher goes on (its ticker ticks, a post ends by its own
  timeout); strong fairness of taking the stop signal, which the `select` meets
  again and again beside the other cases; Close returns, by its budget at the
  latest. Loki may refuse every post.
* Reconnect: frames arrive, delays end, and the hub answers and evicts. Nothing
  makes a session last, a client stop or a socket break.

In MCLoops the fairness of a part counts only while that part is the one that
moves.

## Proofs

| Theorem | Module | For all |
|---|---|---|
| TypesHold: `Spec => []TypeInv` | RunSchedulerProofs | runs, chats, calls, slots, turns, faults |
| OneRunPerChatHolds: `Spec => []OneRunPerChat` | RunSchedulerProofs | the same |
| NoOrphanRowHolds: `Spec => []NoOrphanRow` | RunSchedulerProofs | the same |
| FinalStatusIsFinalHolds: `Spec => FinalStatusIsFinal` | RunSchedulerProofs | the same |
| SlotAccountingHolds: `Spec => []SlotAccounting` | RunSchedulerProofs | the same |
| NoIdleSlotHolds: `Spec => []NoIdleSlot` | RunSchedulerProofs | the same |
| NoUnapprovedCallHolds: `Spec => []NoUnapprovedCall` | ToolCallsProofs | calls, turns, people, tools, modes, budgets, edits |
| RowTellsTheTruthHolds: `Spec => []RowTellsTheTruth` | ToolCallsProofs | the same |
| ResultPerCallHolds: `Spec => ResultPerCall` | ToolCallsProofs | the same |
| LosslessHolds: `Spec => []LosslessOrOverflow` | StreamProofs | runs, subscriptions, frames, sizes, ring limits, budgets |
| EndsWithoutHoleHolds: `Spec => []EndsWithoutHole` | StreamProofs | the same |
| NoHoleInDraftHolds: `FSpec => []NoHoleInDraft` | StreamProofs | the same, and outboxes, losses, mounts |
| StreamTypesHold, FeedTypesHold | StreamProofs | the same |
| NewestHoldsLabelHolds: `Spec => []NewestHoldsLabel` | TunnelProofs | connections, reports |
| SessionIsOfThisProcessHolds: `Spec => []SessionIsOfThisProcess` | TunnelProofs | the same |
| TypesHold, NoEscalationHolds, NoOrphanHolds, NarrowingHolds | AgentTreeProofs | agents, fields, values, requests, edits |
| RunIsChainHolds: `Spec => []RunIsChain` | TranscriptProofs | messages, runs, other events, calls, writers |
| BranchRememberedHolds: `Spec => []BranchRemembered` | TranscriptProofs | the same |
| PromptIsPairedHolds: `Spec => []PromptIsPaired` | TranscriptProofs | the same |
| ResultsAreShownHolds: `Spec => []ResultsAreShown` | TranscriptProofs | the same |
| RepliesOnceHolds: `MSpec => []RepliesOnce` | RecordProofs | records, chats, messages, runs, people, keys |
| OneRunPerKeyHolds: `MSpec => []OneRunPerKey` | RecordProofs | the same |
| TaskAnsweredHolds: `MSpec => []TaskAnswered` | RecordProofs | the same |
| AloneAgreesHolds: `Spec => []AloneAgrees` | RecordProofs | names, texts and what is read back of them, hosts, requests, edits, restarts |
| ProfilesAgreeHolds: `PSpec => []ProfilesAgree` | RecordProofs | names, slugs, texts and what is read back of them, requests, edits, restarts |
| AnswersAreFreshHolds: `PipeSpec => []AnswersAreFresh` | EdgeProofs | buffers, processes, sessions, requests |
| GaugesFollowHolds: `TSpec => []GaugesFollow` | EdgeProofs | connections, labels, servers, states, queues |
| EndsOnceHolds: `MSpec => []EndsOnce` | EdgeProofs | calls, fragments, channels |
| CallsAsSentHolds: `MSpec => []CallsAsSent` | EdgeProofs | the same |
| ShipsOnceHolds: `SSpec => ShipsOnce` (refinement of EventLedger) | EdgeProofs | events, batch and queue sizes |
| NoneTwiceHolds: `SSpec => []NoneTwice` | EdgeProofs | the same |
| AnswersAsListedHolds: `CSpec => []AnswersAsListed` | EdgeProofs | connections, configurations, tools, paths |
| FitsOrFlooredHolds: `PromptSpec => []FitsOrFloored` | EdgeProofs | conversations, tools on offer, windows, limits |
| ResultsFollowCallsHolds: `PromptSpec => []ResultsFollowCalls` | EdgeProofs | the same |

EdgeProofs holds the proofs of six modules that share no names: it EXTENDS
SessionPipe, Topology, ModelStream, LogShipper, Catalog and Prompting.
RecordProofs in the same way EXTENDS ChatMail, SkillLibrary and ProfileLibrary.

Assumptions. SchedulerAssumption: the limits are naturals, positive where the
code makes them so, runs and calls are finite, and the names of "nothing" and of
the run's own goroutine are not those of runs, chats or calls.
GrantsAssumption: the wildcard is not a value. AgentTreeAssumption: the root
exists, its rows are a table (one row per agent and pattern), requests are sets
of rows. TunnelAssumption: "nothing" is neither a connection nor a state.
ToolCallsAssumption: a turn has finitely many calls, limits are naturals, kinds,
annotations and modes are those of the code, "nothing" is not a decision.
ShipperAssumption: batch and queue have room for something. StreamAssumption:
frames have a size, the limits of rings and queues are positive (`Options` fills
in defaults for what is not). FeedAssumption: an outbox has room for the hello,
and "no position" is not a position. TranscriptAssumption: its bounds are
naturals, a turn has finitely many calls, and "nothing" is not a call.
MailAssumption: the zero that stands for "no key" is not a key, and the bounds on
windows and chats are naturals. SkillAssumption:
skill names are numbers (files are visited in order), what people write is a
text, and so is what is read back of one; nothing is assumed of which.
ProfileAssumption: profile names are numbers and their slugs too (zero for none),
and the profile that the hub seeds has a name with a slug.
TopologyAssumption: finitely many servers, a queue with room, and metrics knows
the state a server begins in. ModelStreamAssumption: finitely many calls, counted
from 1, of at least one fragment each. CatalogAssumption: names are sequences of
characters, of which `_` is one; labels, projects and servers are not empty and
have no `__` in them, which `ValidateName` enforces; a project is none or one
name, a configuration declares known servers, and "no configuration" is not one. PromptAssumption: sizes are naturals, and a note
(`Marker`) is no longer than the `Allowance` that fitwindow.go leaves for it; the calls
of an answer come in the order of their places in it, as every provider's reader hands
them on (`openai.go:282` sorts them, `ollama.go:383` counts them, `anthropic.go:297`
ends one block after the other), and no two calls of one answer have the same id, which
the provider promises and the counted ids `call_0`, `call_1` keep. Naturals bound
whatever counts (`MaxTurns`, `MaxEdits`, ...), so a proof for all of them is a
proof without a bound.

The scheduler. `TypeInv` is `RunTypes`, `SemaphoreTypes` and `ChatTypes`. It is
not only shape: it contains `running <= MaxRun`, which needs that a slot handed
to a waiter leaves the count alone and that `RemoveFirst` keeps a queue a queue.
OneRunPerChat is not inductive: that `finish` promotes the right run depends on
what is in the queue. `ChatInv` adds that a chat's queue holds distinct runs of
that chat that wait in it, that an executing run is its chat's active run, and
that a chat without an active run has an empty queue.

The rows. `RowInv` says what the row of a run is by where its goroutine is:
unfinished while the run owes it a final status, final from then on, nothing
left of runs while the hub is down. A call can write a row, through `syncRun`
when a wait begins or ends, so it needs `CallsInTurn`: calls exist only while
their run waits for them in a turn. NoOrphanRow is a consequence, and
FinalStatusIsFinal is proved along every step from the same invariant.

The slots. `GoroutineInv` says of the semaphore: the queues hold distinct
waiters that are marked as queued, `running` is the number of owners (a run that
holds a slot, an `acquire` that was granted one), and none is free while somebody
queues (`NoIdleSlot`). Then `releaseLocked`, which hands over at most one slot,
keeps all of it (lemmas ReleaseHandsOver and ReleaseCounts), and so do
`acquire` and the give-up of a cancelled `acquire`, which returns what it was
granted in the meantime. Of a run it says that `waiters` counts the calls that
wait, that `acquiring` means exactly one call is taking a slot back, and
(`HoldInv`) that a run holds its slot from Begin to FinishRelease except while
its calls wait or take it back, or after it was cancelled: that is why `turn()`
never runs without one.

Tool calls. `ApprovedInv`: decisions in boxes, in flight and on entries are
never of a turn to come, a yes in a box of this turn is somebody's yes to that
entry, and a call past the gate either needed none or has it. `BudgetInv`: what
ran plus what is reserved but not yet run is at most the counter, which is how
concurrent calls cannot exceed it. `LogInv` and `ResultInv` say by the position
of a call whether its row and its message exist.

The stream. `StreamInv` describes what was published (`LogOk`: the frames of a
run are together and numbered from 1) and where the runs of the chat end in it
(`Laid`: one behind the other, the last at the end of the log, each ring the end
of its run). `QueueOk` says that a queue is a stretch of the log behind the
reader's position, up to the end while the subscription is open, or the notice
alone. Publish keeps it because Trimmed drops only from the front and what is
offered is what the log gets; a subscription starts with it because what is
replayed is a stretch that ends where the log ends: `BacklogIs` (the newer frames
of the run and all later runs, none of them evicted, are the log from Position on)
and `ActiveBacklogIs`. The folds of the module (Bytes, OfferAll, NewerThan,
InOrder) are handled by `FoldExists` and the lemmas named after them
(`NewerThanSteps`, `OfferAllSteps`, ...): a fold has a sequence of intermediate values,
and a claim about all of them follows from the absence of a least counterexample.

The feed. NoHoleInDraft needs to know of every frame on its way that it is the
one the draft waits for. `Flow` says that: what is between hub and tab is a
stretch of the log after the other, a notice between two of them (`DownInOrder`),
the subscription in force goes on where they end (`SubFollows`), and what comes
first continues every draft (`Joined`, in `DownJoins` and `SubJoins`: the draft
ends just before it, or the draft's run is over by then). That a tab resumes
where its drafts end needs that it asks for a position only when nothing else is
on its way (`UpAsks`), which is so because positions are sent only in answer to a
hello; and that a subscription without position may come only after a notice or
a reset, or when the hub closes (`NoneLeft`). All of it holds while `crossed` is
false, and none of it afterwards, which is why the exception is in the property.

The tunnel. `LabelInv` is the property with the shape of what it reads.
`SupInv` says of each stage of the supervisor which report it acts on, that a
session exists only at the stages that have one, and whose process it is when no
newer report waits.

Sessions. `FreshInv`: the stream to the hub is ordered by process, so a report
vouches for all that comes behind it (`ReportVouches`); a session keeps frames
only while it is open, none older than the process it was opened for
(`BufferIsFresh`), because the buffer is emptied with the session that a report
ends.

The tree. `Inv` is TypeOK, `Tree` (a parent was there before its
child; an agent's ancestors are its parent's and the parent), NoOrphan and NoEscalation.
NoEscalation rests on `DeriveNarrows`: what the derived rows permit, the
parent's rows permit. An intersection matches exactly what both patterns match
(IntersectMatches), so a permitted server is allowed by the parent; were it
denied by the parent, the deny would overlap the allow and its intersection
would be among the child's denies. NoOrphan needs `Tree`: deletion takes all
descendants, and InsertChild reads its parent in its own transaction.

The transcript. `Climbs` says what PathTo computes: from a root to the message,
one parent at a time. `Leads`: from every message whose branch is remembered, the
remembered children lead down to where the conversation last was, so Deepest
passes there; AppendTx and SetLeafTx write the children along one path, and
`StillLeads` is that this breaks no other. RunIsChain is `Chain`, with what a run
knows at each of its stages (`RunOk`): the leaf it appends to is its own last
message or its trigger.

What the model is shown. repairToolPairs makes a `Block` of each message: nothing,
or the message with one answer for each of its calls (`Answered` counts them: the
results kept answer different calls, and the errors are for the rest). FlattenSeq
joins blocks to paired entries one by one (`PairedConcat`, `BlocksPaired`), whatever
the conversation was, so PromptIsPaired needs of the reachable states no more than
their types. ResultsAreShown needs an invariant of its own. `Follows`: a result is
below a result or below a message with calls, and what a turn has loaded is the path
of some message. So, from the result of a newest call upwards, everything is a result
until the message with the calls (`AllTools`); the summary cuts the path above
that message (`SummarisedIsLine`); and the first result of a call in that stretch is
one that repairToolPairs keeps (`RepairShows`).

Delegation. `MailIds`: ids are given once, also to what a run has not brought
yet (`Mail` is the messages there are and those that runs will bring). `Answers`:
an answer belongs to a task that is over, and to no other answer. `PostIds` and
`KeyedRuns`: a key, in each of its windows, was won for one id, that of the run
that was or will be made for it, which is why a repeated post is told the same
run. `KeyRows` ties that to the row: while the window lasts the row names the id
that won it, and afterwards the key is free to be won again, whether the row is
still there or was purged. `TasksSettled` says of a task that is over why its
answer is there or missing, where an answer under way is a run that waits;
`LineInv` adds that a run that waits is in the line of its chat and one that acts
heads it, also while `StopRuns` takes runs out of lines (`RankOnce` and its
successors: what is left of a line is in order), so the run that is to bring the
answer really is in line.

The skill library. A reconcile counts as alone from the reading of the files on,
as long as nobody else changes rows or files; it is itself many steps, each of
which disturbs the others under way. `LibraryInv` is `LibraryTypes` (what each
request knows where it is, and that the rows are a table: no two with one name),
`AloneRight` and the property. AloneRight says of a reconcile in the middle
(`Undisturbed`) that its listing is still that of the files (`Listed`), that no
other row has the name of a file that carries the id of one (`Straight`), and
what it has done so far (`Indexed`): a file it is through with has a row that
says what it said, or shares its id with another such file, every row it has
marked has such a file, and every other row is as it was listed. `Visit` and
`Stamped` are that a file more keeps this, for all three things that may happen
to a file; `NameFree` that what could refuse the row, its name being taken, does
not happen to a reconcile that is alone; `Agreed` that at the end, once the rows
without a file are gone, each file has its row and each row its file, unless two
files share an id. A file that is stamped is written from what was read, which is
why AloneAgrees allows the row what the file said before.

The profile library. `ProfileInv` is `ProfileTypes`, `UnhinderedRight` and the
property. UnhinderedRight follows a reconcile that nobody else disturbs
(`prAlone`) from step to step. While it loops over the files (`InLoop`): its
listing is what is read back of the files (`SameFiles`), no row that is not a
file's own has the name of one (`Apart`, which is what `PCrossed` says is not
the case at the beginning), each file it is through with has a row that says
what it says and every row it has marked has such a file (`Followed`), and the
rows it has updated are those it will write again (`Updated`). While it writes
files each document it still has to write is what the index says of its row, and
the place it goes to is free or that of the file it replaces (`Rewriting`), so
that no other file is overwritten. Prompts differ from skills in that a file is
replaced in two steps, between which it is not there, and in the default: the
first flagged file is the same in the listing and after the reconcile, for a
file that is written again keeps its name and its flag, unless it is the one
that `prSettled = "unflagged"` reports.

The edges. Gauges: an event is owed, in the queue or was pushed out (`Noticed`),
or the watcher is in step (`InStep`): what it has counted and what it has still
to count add up to the registry, and when it does not count the gauges say it.
Streams: `Shape` says by the stage of the reader what has passed, is in the
channel and is still to send (nothing but text and calls before the end; one end,
at most one usage, nothing after it), `WholeAnswer` what each dialect
keeps of an answer and which calls have left so far.

Endpoints. What is wanted and what was picked are entries of the listing of the
path (`EntriesHold`), and as long as nothing happened to the server of the wanted
tool it still stands where it was (`Stands`), which is why its name cannot be
unknown. That a name tells the place is about where its first separator is: of
two parts in front of one name the shorter would, with the `__` behind it, put a
`_` at the end of the longer one or a `__` inside it (`NotShorter`), so parts that
`ValidateName` accepted and that do not end with `_` are the same, and so is what
is behind them (`JoinTells`). Two equal names of one scope therefore name the same
label, server and tool when both places have a project or neither has one
(`BehindTells`, `NamesTell`). The exceptions in the property are the cases these
lemmas leave.

Prompts. What FitOld leaves is the conversation with a set of its older results
cut, and as soon as it still does not fit, that set is all of them (`Recursion`,
`PassedOn` and `Climb` take a claim from one step of a recursive function to its
end). The last cut then replaces one summand of the characters used
(`UsedSwaps`): what the others use, the room that FitLatest gives and a note
are within the budget, unless the room was under LatestMin or several texts
shared it. Nothing else of a message changes by being cut (`ShrinkIs`).

ResultsFollowCalls needs of a conversation that it is `Answered`: behind every
answer come the results of its calls in some order (`HasResults`), and every
result stands behind the answer it belongs to. `Say`, `Note` and `Answer` keep this
(`StillAnswered`), and so does fitting to the window, which cuts texts only
(`FittedIsAnswered`). openaiMessages and ollamaMessages write one message for each
of the conversation, so there the rest is that Ollama's map of names holds, when a
result is reached, the name given by the answer right before it (`NameIs`), whatever
earlier turns gave the same id. For Anthropic, `InRounds` says what the list is
between two rounds: a user's message answers all the calls of the one before it,
once each in the order they landed (`Landing`), and then has texts. What is said between rounds and an answer without
calls keep it (`AppendTexts`, `AppendQuiet`); an answer with calls and its results
become one message each (`RoundIs`), where the blocks of the answer are sorted
stably by their places and the calls among them keep their order (`SortKeeps`);
the results keep that of their landing.

The log. Every step of the exporter is a step of the ledger or a stutter under
the mapping above, with the types and bounds of queue and batch as invariant.
NoneTwice is proved of the ledger (each event is in one place, once) and carried
over.

Only model-checked: all liveness (EveryRunEnds, CatchesUp, ServedOrFailed,
EvictedGoesAway, Settles, Accounted, EvictionsSlowDown), which is outside this
prover's reach.

## Disagreements between code and documents

Two are kept as runs in which TLC finds the counterexample.

* calls_question: a second yes to the gate of a `switchboard.user.ask` reaches
  the question behind it, which has no answers to read (`questions.go:164`).
  `spec.md:816` says that `POST .../approvals` can only skip a question.
* profile_default: an edit by hand that flags a prompt file as the default and
  also changes what it says moves the default to it for a moment only. The
  reconcile keeps the row as the update returned it, before the default is moved,
  and rewrites the file from that (`library_sync.go:208`), without the flag; the
  old default's file, still flagged, gets the default back in the next reconcile.
  The comment says that the flagged file wins (`library_sync.go:194`). Violated
  is `DefaultFollows`, which is ProfilesAgree without its exception.

Others were met while the modules were written. Each can be stated as a property
of the module named; where a definition of it is in the module, it is named too.

* ConsoleFeed: SubscribeActive offers a run's whole ring to a queue nobody reads
  yet, and closes it as a slow consumer when the ring is larger than the budget
  (`chatstream/hub.go:352,438`). The tab starts over and meets the same, for
  ever; `spec.md:1306` promises the whole reply. The feed run has such rings;
  CatchesUp leaves these runs out.
* ConsoleFeed: frames of two subscriptions can reach one thread, when it is left
  and reopened with a frame still on its way, or when the timer of an overflow
  subscribes again beside a reconnection. A newer frame of the one makes
  duplicates of the frames that the other still owes (`streamAssembly.ts:233`),
  and the draft has a hole; it is counted in `gaps` (`streamAssembly.ts:238`),
  which nothing reads. The comment of SubscribeActive and `spec.md:1277,1306`
  promise a draft without a hole. NoHoleInDraft leaves such threads out
  (`crossed`); without that conjunct TLC finds the hole.
* ConsoleFeed: a run whose start is evicted is not replayed to a tab that has no
  position; it shows nothing until the run's next frame, if there is one.
  CatchesUp leaves such runs out.
* Tunnel: `refreshTools` asks `current()` and sets the gauge of the label in two
  steps, so an evicted connection may set it last (`tunnel.go:797`; the comment
  at `tunnel.go:304`). A failed initialize overwrites a newer report with
  "failed", and the next session does not correct it (`tunnel.go:691`;
  `docs/PROTOCOL.md:118`).
* SessionPipe: AnswersAreFresh is what holds. The stronger statement, that a
  reply answers its own request, does not: ids begin at 1 in every session
  (`startAccepting`, `tunnel.go:594`), so when two restarts overtake a handshake,
  a reply of the process that runs may be for the session before.
* Reconnect: with `max_retries` at its default, 0, two clients evict each other
  for ever, only slowly. The hub accepts every hello whose label is in use, so
  the client's branch for a label refused before hello_ack is not reached.
* ToolCalls: a decision that arrives just after the timer is accepted (204)
  although the call is denied (`tools.go:517`; `service.go:49`). Providers
  without call IDs reuse `call_0`, `call_1` every turn (`ollama.go:378`,
  `openai.go:287`, `textcalls.go:97`), so a late decision can meet the next
  turn's call (`tools.go:510`; `spec.md:1063`). When the chat's preferences
  cannot be read, the gate falls back to the agent's mode (`tools.go:445`).
* AgentTree: a deny does not reach a descendant whose inherited allow is wider
  than the denied pattern (`sqlite_grants.go:52`; `spec.md:620`: "Narrowing
  propagates"; `NarrowingPropagates`). Two spawns count the children before
  either inserts (`service_impl.go:46`; `spec.md:788`). A narrowing between a
  spawn's read of the grants and its insert misses the child
  (`service_impl.go:120`; `spec.md:610`).
* Transcript: the turn that compresses the conversation still sends all of it,
  from the row it read before (`run.go:340`; `run.go:333`: "compress before the
  call"; `CompactionCounts`). Mail to an agent that is not woken is appended at
  once, also between a call and its results (`switchboard.go:361`, and
  `manager.go:499` when the budget refuses; `spec.md:711`). A person may move the
  leaf during a run, so the model is shown one branch and answers on another
  (`run.go:280`, `api/orchestrator.go:770,785`; `run.go:482`). Both sides of a
  bridge read the leaf and append in two transactions and may hide each other's
  message (`bridge.go:70`; `bridge.go:66`).
* RunScheduler: a run that Shutdown cancels at its lookup or while its trigger is
  appended is recorded as "error" (`run.go:190`; `manager.go:185`,
  `spec.md:285`). With two parallel waits a row may say "running" before the run
  has its slot back (`manager.go:309`; `spec.md:725`). Rows that
  `SoftDeleteAgent` made final are rewritten by their goroutines
  (`sqlite_agents.go:454`); FinalStatusIsFinal therefore leaves them out.
* ChatMail: a record may be left without a chat, when the chat it was made for is
  deleted between the two transactions or its creation fails (`RecordHasChat`;
  `spec.md:427`, `spec.md:298`). A run that ends while it is
  queued (`finishQueued`, `manager.go:734`), or that the budget refuses, never
  delivers an answer; an answer that is itself such a run is lost with it, and one
  whose delivery the store fails is lost with a line in the log
  (`switchboard.go:555`).
  A post that fails after its key is claimed burns the key: the repetition is
  told of a run that never was (`spec.md:716`).
* SkillLibrary, ProfileLibrary: reading a file takes one newline off the front of
  its body (`frontmatter.go:58`) and writing it puts none there
  (`frontmatter.go:138`), so a text that begins with two loses one each time. A
  reconcile that stamps an id writes what it read: file and index then differ by
  that newline until the next reconcile (`library_sync.go:8`: "the two never
  drift while the hub runs"). AloneAgrees and ProfilesAgree allow it.
* SkillLibrary: a rename that meets a reconcile may leave two directories with
  one id (`OneDirectory`); reconciles then choose one of them as they come.
* ProfileLibrary: there may be no default profile (`DefaultExists`;
  `spec.md:409`). A profile whose name has no slug, the slug "base", or the slug
  of another one is never written and is deleted by the next reconcile. A prompt
  written by hand that is adopted by name never gets an id stamped. An edit is
  lost when a reconcile runs between the update of the row and the rewriting of
  the files.
* Topology: GaugesFollow needs `~missed`: when the queue of the watcher drops its
  last event about connections, the gauges stay wrong until the next one
  (`events.go:5`). The gauge of a state that metrics does not list keeps its last
  value for ever (`metrics.go:146`).
* Catalog: listings are declared to change (`ListChanged`), but nothing in the
  program calls `ToolsChanged` (`server.go:160,310`). A name that can be read as
  "no project" or as "in a project" may be routed elsewhere after a client came
  back with other servers. Names may begin or end with a `_`, so the server `x_`
  with the tool `z` and the server `x` with the tool `_z` are both `x___z`
  (`registry.go:74`). listTools hides one of them (`server.go:226`), and
  ResolveTool calls the one that the map's iteration meets first
  (`registry.go:573`): another tool, and with a label that ends with `_` a tool on
  another machine. The comment at `protocol.go:61` and `spec.md:105` rely on the
  ban of `__` inside names to make them unambiguous. AnswersAsListed leaves out
  names with a part that ends with `_` (`Blurred`).
* ModelStream: an answer of an OpenAI host that is cut at the token limit
  delivers, and runs, half a call with its arguments as raw text
  (`llm/types.go:160` speaks of complete calls; `sse.go:200` wants it to fail in
  the tool); Anthropic's drops its calls. A probe answered with an HTTP error
  makes a host "not Ollama" for the life of the process (`ollama.go:129`).
  `[DONE]` without a finish reason is accepted (`openai.go:272`), and so it is by
  `EndMark`.
* LogShipper: a post that Loki took but whose reply is lost is counted as dropped
  (`loki.go:338`), so the count is of events not known to be shipped. `posted` is
  what is known to be.
* Prompting: a result for Ollama has the name of its tool and no id
  (`ollama.go:267`), and the results of a turn are in the order in which they
  landed (`run.go:511`, `run.go:648`). Two calls of one tool whose results land in
  reverse therefore reach the model as if crosswise; ResultsFollowCalls promises
  for Ollama no more than the name.
* Prompting: `fitToWindow` can make a prompt longer, since a text just over the
  limit is replaced by its beginning and a note (`fitwindow.go:16`). A latest
  result of several texts is given the room that is left once per text, and of
  a turn with several calls only the very last result is spared. `capBlocks`
  keeps at least 200 characters of each text, so "maxChars in total" is not exact
  (`toolcap.go:11`).

## What is not modelled

Inside the modelled parts:

* scheduler: hard deletion (which removes rows), failing row updates in
  `finish` and `syncRun` (only logged; with them a row stays as it is until the
  next boot), the agents' status column, usage statistics;
* tool calls: what a tool does, validation and coercion of arguments, calls over
  `/mcp/agent`, which have no run to wait in;
* feed: hub events on the same socket, pings, what else the frames carry;
* tunnel and client: the gauge of a server's tools, the rate of pings, the JSON
  views of the registry, the launching of a process, the scan for skills;
* tree: `DeleteGrant`, which nothing calls, export;
* transcript: clearing of a chat, drafts, titles;
* delegation: slots, budgets and turns (RunScheduler), the message tree
  (Transcript), bridges;
* libraries: unknown fields of the frontmatter, the rendering of the catalogue
  for a prompt;
* endpoints: an agent's own endpoint, whose grants are AgentTree's; events on a
  console's socket, closing of subscriptions;
* providers: discovery, the fake provider, pictures, token counts;
* log and metrics: counters and histograms, the format of what is pushed.

What a composition of modules would show beyond them is checked only where they
share state: ConsoleFeed over ChatStream. The others meet in what one assumes of
the other: Tunnel's supervisor in SessionPipe, RunScheduler's promotion in
ChatMail, Transcript's path in Prompting; each module models the part it uses.

Whole parts, with the reason: the wire protocol (types without state), the
built-in tools (pure functions and network requests), notes, todos and the
optimiser (an operation is one row), the rest of the store (connections,
migrations, queries without a rule of their own), the HTTP API (requests are
decoded and passed on), web push (nothing depends on it), configuration and
start-up (settings are the CONSTANTS), the console's views, and the harness
server, editor plugins, evals and packaging, which are programs of their own.

Five hazards of the list have no property. Three are disagreements above: the
count of children before the insert of a spawn, a replay larger than the budget,
and a late decision that meets the call of the next turn. A failing update of a
final row is only logged and left to the next boot. And the end of a dispatched
call is one step of ToolCalls, so the race of its result with cancellation is an
outcome there and not an interleaving.

## Plan

1. Abstract specifications, with the detailed ones shown to implement them: a
   counting semaphore for the scheduler's slots (SlotAccounting and NoIdleSlot
   are its two halves), a lossless channel with a visible end for ChatStream,
   one owner per label for Tunnel.
2. Composition: Tunnel's supervisor with SessionPipe's client in place of its
   reports, and ChatMail's runs with RunScheduler's slots.
3. The failing updates of `finish` and `syncRun`, with NoOrphanRow restated for
   the time after the next boot.
