# TLA+ for billyharness

billyharness is a Go agent harness: a gateway that keeps sessions, runs an agent loop
for them, records everything that happens in append-only JSONL files, and serves a
terminal UI, a Telegram bot and other clients over HTTP.  This directory models the part
of it where goroutines, processes, files and clients meet: the gateway's session
machinery, the agent loop, the restoring of files, the managed shells, the MCP catalog
and the Telegram adapter.  `docs/` says what that machinery promises; the modules here
say what the code does, and the runs and proofs say which promises follow.

Everything is checked with TLC (`tlc -config X.cfg MCModule`) and `tlapm` (`tlapm
RunThreadProofs.tla` and the other `*Proofs` modules).  `PROJECT.json` maps each
definition to the lines of Go it stands for, and lists the runs, the hazards and the
mutants: for every checked property a plausible bug in a mapped definition that the
property catches.

## The system

| Component | State | Operations | Interacts with |
|---|---|---|---|
| Run thread (`gateway/run_thread.go`) | transcript, `running`, cancel function, idle channel | `RunMessage`, `Cancel`, `CancelAndWait` | handlers call it; it calls the agent loop |
| Session input ledger (`gateway/session_inputs.go`) | `inputs.jsonl` | admit, promote, complete, mark ambiguous, quarantine | run and input handlers; session loading |
| Session events (`gateway/session_events.go`) | `activeRunID`, terminal run ids, run sequence, event hub | observe and record an event, abort, interrupt, publish | the runner's emissions, cancel requests, the shutdown |
| User input (`gateway/user_input.go`) | the pending question and its reply channel | ask, answer, reject, withdraw, restore | the `ask_user` tool, client requests, terminal events |
| Session store (`gateway/session_store.go`, `eventlog/`) | `history.jsonl`, `events.jsonl`, `manifest.json`, append state in memory | save, append an event, load | everything durable goes through it |
| Live run stream (`gateway/response.go`) | bounded channel, drop counter, writer goroutine | emit, gap hint, final drain | the runner's emissions; gateway client |
| Event following (`handleSessionEvents` in `gateway/gateway.go`) | cursor, hub subscription | replay, follow, leave | the store and the hub |
| Gateway client and TUI (`gatewayclient/`, `tui/gateway_session.go`) | last sequence number, gap count | decode, replay after a gap | live stream, event replay |
| Agent loop and tool attempts (`agent/`) | transcript of a session, the calls of an answer, rate buckets | rounds, parallel tools, compaction, pairing | provider, tools, hooks |
| Undo and redo (`gateway/gateway.go`, `checkpoint/`) | checkpoints of changed files, the events that tell of them | find the change, check for conflicts, restore, roll back | workspace, session events, tool attempts |
| Shell processes (`tools/shell_process.go`) | managed processes, output buffers | start, poll, kill, prune, close | tools; the registry of a gateway |
| MCP client and its mirror (`mcpclient/`, `tools/tools.go`) | the server's process and client, three copies of its tool list | connect, call, refresh, replace, close | turns, tool calls, the server's notifications |
| Telegram bot (`telegrambot/`) | update offset, pending input of a chat, the registered run | poll, admit, acknowledge, supersede, run, restart | gateway client, state file |
| Agent club and ingress (`agentclub/`, `ingress/`, `gateway/agentclub_*.go`) | triggers, proposals, delivery claims | ingest, approve, run | the run handlers; not modelled |

The rest (configuration, projections, rendering, memory notes, file tools, ...) is
sequential or pure; `PROJECT.json` lists it with the reason it is left out.

### How they interact

`POST /v1/sessions/{id}/run` is the spine.  The handler admits the request's input to
the ledger, does preflight work, promotes the input (which gives it a run number), and
calls `RunMessage`.  The run thread admits one run; the run is the agent loop, whose
events go through `observeRunEvent`, which deduplicates terminal events under the
session's mutex, then to the store, then to the hub, then to the live stream of the
request.  The loop asks the provider, runs the tools it is told to (in parallel where
they allow it) and records the files they change in checkpoints.  When the run ends, the
handler saves the transcript and completes the input.  Meanwhile other requests may
cancel or interrupt the run, answer its question, ask for its events, undo its changes,
send the same input again or close it; the client may go away; the process may die.  The
Telegram adapter is such a client, with a state file of its own and restarts of its own.
Managed shells and MCP servers outlive the run that started them: they belong to the
gateway's tool registry.

### What is hard about it

* Decisions under one mutex, effects under another: an event is classified under
  `Session.mu` and recorded under `sessionStore.mu`; a cancel function is copied under
  `runThread.mu` and called after the unlock; shells are counted in one critical section
  and registered in another; a tool list is read under the manager's mutex and mirrored
  under the registry's.
* JSONL record first, manifest second, both fallible, with a restart in between; files
  restored first, the event that tells of it second.
* Ids that must be used once (input ids, run numbers, event sequence numbers, call ids)
  although requests are retried, reordered and cut short.
* Bounded channels and buffers that drop, and readers that have to notice.
* Actors that nobody controls: the user's editor on the same files, processes that
  ignore SIGTERM or leave descendants, servers that change their tools or die.

### What makes each part correct

* Run thread: at most one run; a cancelled run leaves no trace in the transcript, and a
  turn that was answered is lost only by a cancellation of its own; no waiter is
  forgotten.
* Inputs: an id runs at most once, as admitted, under a number of its own, and its
  terminal record is final and, where the gateway wrote it, true.
* Events: a started run is closed exactly once; its records carry its number; an abort
  comes to an end; only disk errors silence a run.
* User input: a question is resolved once, can be answered while it is asked, and
  outlives neither its run nor its asker.
* Store: what was saved comes back; what was published keeps its number; what is written
  can be read.
* Stream and following: what a client shows is the log without holes, and what it misses
  it knows of.
* Agent loop: every request has each call followed by its result; each call gets its own
  result and one terminal event; tools that may not run together do not; a batch ends.
* Undo and redo: the log tells what is in the files; nobody's edit is overwritten; a
  session's own changes can be undone and redone in any legal sequence, as far as their
  checkpoints hold what has to be brought back.
* Shells: the cap bounds what lives; a reader gets each byte once or is told; what is
  killed ends.
* MCP: the copies of the list agree in the end, with the server's; no process is left
  behind; a call finds a client.
* Telegram: what is acknowledged is admitted and survives a restart; a superseded prompt
  does not run on; once no run waits for an answer, the poller goes on.

## The modules

| Module | Models | State and actions |
|---|---|---|
| `RunSlot` | what a session promises about its runs | the holder of the slot and the transcript; `Begin`, `End`, `Refuse` |
| `RunThread` | `run_thread.go` | the fields of `runThread` under their own names, one program counter per `RunMessage` call and per `Cancel`/`CancelAndWait` call; each action is one critical section, one channel operation or one return of the runner |
| `SessionInputs` | the ledger with the handlers around it | the replayed `inputs.jsonl`, a program counter per request; `Admit`, `Preflight`, `Promote`, `Begin`/`Busy`, `RunEnds`, `Save`, `Complete`, the client's `Close`, `Crash`.  The run thread is module `RunSlot`, instantiated |
| `SessionEvents` | `observeRunEvent`, `beginRunStatus`, `abortActiveRun`, `interruptActiveRunAndWait`, the emit closure of a run, the promotion that numbers it | the fields of `Session` that decide about events, the number each run was promoted with, the log as a sequence of typed records, what the lifecycle validator has observed, a program counter per run and per aborter |
| `UserInput` | `user_input.go` | `pendingInput`, the reply channels, a program counter per question and per client request, the session's run |
| `SessionStore` | `Save`, `AppendEvent`, loading | the three files, the append state in memory, the operation that is between its record and its manifest |
| `RunStream` | `streamEvents`, `decodeEvents`, `runGateway`'s recovery | the channel and counters of `streamEvents`, the writer, the wire, the client's cursor |
| `EventFollow` | `handleSessionEvents` with `follow`, `eventHub` | the log's length, the subscription, the follower's cursor |
| `AgentRun` | `runtime_loop.go`, `executeToolCalls`, `executeParallelToolBatch`, `tool_attempt.go`, `compaction.go`, `transcript_pairing.go` | the transcript as roles and call ids; the calls of an answer with their attempt, outcome, event and result; batches, workers and the rate bucket; what a model call may deliver |
| `UndoRedo` | `handleSessionUndo`, `handleSessionRedo`, the queries that choose the change, `checkpoint.restoreRecord` | the paths of a workspace, each with nothing, a file, a directory or something else; the directories with entries that no snapshot visits; the log of changes and reverts, a program counter per request, tools, the user's editor, failures and a restart |
| `ShellProcesses` | `shell_process.go` | the registry, each process with what is inside and outside its group, the output buffer with its cursors, kills and the registry's close |
| `McpCatalog` | `managedServer`, `Manager`, `stdioClient`, the registry's mirror | the server's client and status, the three copies of the list, a program counter per goroutine and the news it still has to carry |
| `TelegramBot` | `poller.go`, `runner.go`, `state_runtime.go`, `store.go` | the state file and its copy in memory, the gateway's ledger, the question a run waits with, the poller, a program counter per update |
| `RunThreadProofs`, `SessionInputsProofs`, `SessionEventsProofs`, `TelegramBotProofs` | theorems about the module they are named after | |
| `SessionFilesProofs` | theorems about what is on disk: `SessionStore` and `UndoRedo` | |
| `EventDeliveryProofs` | theorems about the two ways of the events: `EventFollow` and `RunStream` | |
| `AgentTurnProofs` | theorems about a turn and its questions: `UserInput` and `AgentRun` | |
| `ChildProcessProofs` | theorems about the processes the program starts: `ShellProcesses` and `McpCatalog` | |

A module of theorems extends the modules it is about, which therefore have no name in
common: where one has `Init`, `Next` and `Spec`, the other's are named for it
(`StreamInit`, `AgentNext`, `UndoSpec`, `catalogVars`).

`MC*` modules extend them for TLC and declare symmetry.  Operators after a comment
"Mutant" are the bugs that `PROJECT.json` substitutes; no specification uses them.

How they fit together.  `RunSlot` is the abstract thread: `RunThread` implements it, and
`SessionInputs` and `RunThread` both speak of its transcript.  `SessionInputs` uses it
in place of the thread and so composes the ledger, the handlers and the thread.
`SessionEvents` takes the step apart that `SessionInputs` has as one (a run begins when
it has the slot).  `TelegramBot` uses the ledger as `SessionInputs` shows it to be: an
id is admitted and run once.  `AgentRun` is the inside of `RunThread`'s runner,
`UserInput` the one tool that waits for a person, `UndoRedo` and `ShellProcesses` what
tools leave behind, `McpCatalog` where a run's external tools come from.  `RunStream`
and `EventFollow` are the two ways of the events that `SessionEvents` records in
`SessionStore`.

What the models leave out on purpose: the contents of messages (a turn is a prompt and
an answer, named by its call), request bodies up to the hash that compares them, event
payloads up to type, run and number, the texts and modes of files but for whether a
checkpoint keeps the text, the bytes of an output but for their number.  What the runner
may return is taken from `agent/runtime_loop.go`: an answer, a failure, a blocked or
failed prompt hook, a cancellation, which need not be that of the run's context: a
provider's own `RequestTimeout` ends a call with `context.DeadlineExceeded`, too.  In
`UserInput` a run ends only when none of its questions is open, because `ask_user` runs
on the run's own goroutine.  `RunStream` has one emitter at a time because
`EventEnricher` (`protocol/envelope.go`) emits under a mutex.  In `McpCatalog` a change
of the server's list exists from when its notification is read: before, no client can
tell.

## The runs

| Run | Question | Bounds |
|---|---|---|
| `RunThread_calls` | Rollback; an answered turn is lost only by a cancellation of its own run; refinement of `RunSlot`; cancelled runs end; no lost wakeup | 2 calls, 1 canceller, both input policies |
| `SessionInputs_requests` | At most once and as admitted; what the gateway calls completed is saved; terminal records are final | 3 requests, 2 ids, 2 bodies, 1 append that goes wrong in any way, 1 close, 1 restart |
| `SessionEvents_runs` | A run is silenced only by a fault of its own; closed once; numbered, and as promoted unless overtaken; an abort ends | 2 runs, 1 aborter, 1 failed append, 1 restart |
| `UserInput_questions` | One place per question; answerable; no asker outlives its cancelled run | 3 questions, 2 clients, 3 runs |
| `SessionStore_records` | Readable, nothing saved lost, no published number reused | 3 transcripts, 4 records per file, 2 restarts, any append may fail in any way |
| `RunStream_stalls` | No holes shown, nothing missed silently, the handler returns | channel of 1, 4 events of the run, 1 of others |
| `EventFollow_follow` | Once, in order, in the end | 5 events, channel of 1, cursor up to 2 |
| `AgentRun_turns` | Transcript paired and never refused; tools kept apart; each call its own result; a batch ends | 2 turns, 4 model calls, 2 rounds and 3 calls of tools, 3 ids, 2 workers, bucket of 1, compaction to 2 messages |
| `UndoRedo_restores` | The log tells the files; nothing foreign overwritten; own changes refused only for what is in them | 2 paths, one for files and one for a file or a directory, 1 text that is kept and 1 that is not, 2 requests at a time and 4 in all, 2 changes, 1 mishap |
| `ShellProcesses_cap` | How many live; what a reader misses; what is killed ends | 2 starts at a time, 3 in all, cap of 1, 1 killer, the close, 3 bytes, buffer of 2, reads of 1 |
| `McpCatalog_news` | No orphan; the copies agree; a call finds a client | 2 callers, 2 operations, 2 refreshes at a time, 2 processes, 2 changes and faults together |
| `TelegramBot_updates` | Acknowledged is admitted and kept; superseded does not run; the poller goes on once no run waits for an answer | 3 updates, 1 question, 1 failure, 1 late run, 1 restart |

Deadlock is checked except in `AgentRun`, `ShellProcesses`, `UndoRedo`, `McpCatalog` and
`TelegramBot`, which really stop when their bounded users have no more to ask.

Why these bounds are enough to be interesting.  Two `RunMessage` calls let one hold the
thread while the other queues, is refused, or takes the thread between the other's end
and its own look at the idle channel; one canceller that copies the cancel function of
the first can still call it during the second.  Three requests over two ids give both a
duplicate and a stranger, which is what promotion order and run numbers need.  Two runs
suffice for an abort to snapshot one and cancel the other, and for one to be promoted
first and start last.  Two questions of different runs suffice for a stale question to
meet a new one; the third shows that the session recovers.  Three transcripts let a
session go forth and come back to an earlier one, which is where a hash comparison might
skip a record.  A channel of one is full after one event.  Three calls give a batch of
two and a serial call after it, or two that share a bucket of one; two turns are what an
id that is used again, and a compaction of a turn that was cut, need.  Two changes are
the least that undo and redo can be interleaved with; the two paths have between them
everything that a restore may have to write, to remove or to refuse.  Two starts at a
time are the least that pass the cap.  With two changes and two refreshes the refreshes
can overtake each other; one fault lets a client die while another goroutine starts the
next, or a restart and a close meet. Three updates let a prompt be superseded by a
second while a third is polled, or a command and an answer meet a run that asks.
Symmetry is declared only where no liveness property is checked.

### Fairness

Goroutines that can take a step take it (weak fairness per goroutine): that is Go's
scheduler.  Nothing else is assumed to happen: no client has to send, answer, read or
leave; no timer of a wait has to fire, except the ticker of `EventFollow` and the drain
timers at the end of `streamEvents`, whose step has to happen one way or the other; a
runner has to return only once its context is cancelled (`agent` checks it between steps
and passes it to every call), and a run in `RunStream` has to end only once a terminal
event is in the log.  `QueueDrains` says what follows *if* runs end. Two assumptions go
further, each for one property: in `AgentRun` the tools of a batch return (`ToolsEnd`),
because they have a timeout or heed the run's context, `ask_user` but for one that
nobody answers in a run that nobody cancels; in `TelegramBot` a run of the gateway ends
once it waits for no answer, or once the adapter no longer waits for it
(`UpdatesAreConsumed`).  Nobody has to answer: `ask_user` has no timeout
(`gateway/user_input.go:60`), and a run that waits for ever does stop the poller.
`UpdatesAreConsumed` therefore has the premise that from some point on no run waits for
an answer; nor is the number of times an answer may be refused bounded.  In
`ShellProcesses` no process has to end by itself or heed SIGTERM: `TerminatedEnds` rests
on the registry's goroutines and on SIGKILL.

## What is proved

Eight modules of theorems, for every value of the constants that satisfies the
assumptions named.  Every proof goes the same way: an inductive invariant that contains
the property, one step for each action.

`RunThreadProofs` (any callers and cancellers, any policies; `Nil` is no caller):
`TypeCorrect`, `MutualExclusion`, `CancellationRollsBack`, `CancelAndWaitSettles`,
`AnswersStay` and `Refinement` (`Spec => ImplementsRunSlot`).  `OneRun` is inductive
with the types: `startRun` is the only way into the critical region and it tests
`running`.  `RolledBack` is not: it speaks of the transcript after `finishRun`, so the
invariant adds that a run between `startRun` and `finishRun` has a base copy equal to
the transcript, that what its runner returned extends that copy by its own turn, and
that a run which was cancelled before its runner returned is about to keep that copy
again.  A transcript without an entry of a caller that has not finished (`Fresh`) is
what makes the copy free of the caller's own turn.  `EndedMeansSettled` needs that only
a channel whose maker has left the critical region is ever closed (`OnlyEnded`).
`AnsweredIsKept` needs that a run's context ends only through its own caller or a
canceller that copied its own cancel function (`CancelsItsOwn`), and follows an answer
from the runner through the decision into the transcript (`Answering`), which no later
run shortens.  For the refinement the same invariant shows that `Finish` maps to
`RunSlot`'s `End` with one of its outcomes, `StartRun` to `Begin`, a refusal or a caller
that gives up to `Refuse`, and every other step to a stutter.

`SessionInputsProofs` (any requests, ids and bodies; the kinds of failing appends are
those of the model): `RunsOnce`, `RunNumbersDiffer`, `CompletedIsStored`,
`CompletedIsFinal`.  `LedgerInv` relates a request's program counter to the record of
its input: what has begun is no longer `admitted`, a promoted input has at most one
request that goes on with it, numbers are below the session's sequence.  `StoreInv` adds
that a request which is past its save has its turn in the store, unless it was cancelled
late; what a client has closed with the word completed (`claimed`) is set apart.

`SessionEventsProofs` (any runs and aborters; `Nil` is no run): `ActiveRunHoldsThread`,
`SilenceNeedsFault`, `OneNumberPerRun`, `StartedIsClosed`.  `ThreadInv` ties the holder
of the thread, the active run and the program counters together; `WriterInv` says that
of each run at most one goroutine is about to write a terminal event, and that a run's
start is observed before it works, which is what leaves the store nothing to reject, and
that each silenced run had a failed append of its own (`Silenced`); `NumberInv` that the
number in use is the highest, that late records carry their own run's, and that a
restart reads it back; `PromiseInv` that those on their way from promotion to start have
different promises and, as long as none has been overtaken, promises above the number in
use; `ClosedInv` that the log has at most one end of a run and that a run which is over
has one written or about to be.

`SessionFilesProofs`, of `SessionStore` (any transcripts, failures and windows):
`NumbersOnce`, `Readable`, `SavedIsKept`.  The invariants say what memory, files and
manifest know of each other between the two writes of an operation: `EventInv` that the
number in memory is never below the published one and that a readable log has at least
as many records as the published number says, `StoreInv` (`Whole`) that, as long as no
record has slipped past the numbering, each file is numbered without a hole and what is
loaded is its last record.

The same module, of `UndoRedo` (any paths and contents, finitely many requests, any
number of changes and mishaps; `ContentsAssumption`, `RequestsAssumption`):
`FilesAreAsTold`, `RestoreKeepsEdits`, `OwnUndoIsNeverRefused`.  That the files are what
the log tells is true only at rest; the invariant (`Tells`) says what they are
meanwhile: while a tool works, or a request is between its first write and its record,
each file is on one of the two sides of that change (`Partway`), and the others are as
told.  That only one is ever partway needs that, without a race, of two requests one has
not looked at a file yet (`Alone`), that what a request checked still holds when it
writes (`Fitting`), and that a run and a request do not meet unnoticed (`NoOverlap`).
For the undo that is never refused the invariant adds that, as long as nothing is
marked, the applied changes form a stack (`Stack`): each found the files as the one
below it left them, the files are now as the topmost left them, and what can be redone
lies above; that a request works on the change that is next in turn (`Chosen`); and that
a conflict it has met is in that change (`Conflicts`).  `HandlersInOrder` and `HasLast`
say what a request knows at each of its places.

`AgentTurnProofs`, of `UserInput` (any questions, clients and number of runs; `Nil` is
no question): `ResolvedOnce`, `StaysAnswerable`, `RefusalNeedsStale`.  None of the three
is inductive alone.  That a question which is registered is nowhere else needs that a
question nobody has asked is nowhere (`Known`).  That an invalid answer, which is
dropped when another question is pending, loses nobody's question needs that a session
asks one question at a time (`OneAsked`) and that the pending question is the one being
asked unless a stale one was put back (`PendingAsked`).

The same module, of `AgentRun` (any numbers of turns, model calls, rounds, calls and
ids, any `MaxParallelTools` and bucket, any limit of compaction): `AgentToolsApart`,
`AgentResultsAnswerCalls`, `AgentTranscriptPaired`, `ValidTranscriptsArePaired`,
`PairedTranscriptsAreValid`.  `ToolInv` says of each call of an answer where it is and
what it has got: a serial step is executed after what precedes it and before what
follows (`StepByStep`), the result channel holds what has been sent and not collected,
once (`Channel`), a call that is closed has its event and its own result (`Answered`),
and a step of several calls is a batch, with no more workers than it may have and no
more limited calls executing than the bucket holds (`Apart`).  `TurnInv` adds the
transcript: it is `Whole`, which means that the results of each assistant message follow
it, all of them and in order (`Complete`), and no id is asked for twice (`Distinct`),
but for the last assistant message while its tools are under way (`Underway`).
Compaction keeps a transcript whole because its cut never falls before a result
(`CompactedIsWhole`).  The last two theorems are about the pairing check itself, for a
sequence of any length: what it lets pass is paired, and what is paired it lets pass.
The one pass over the messages carries a state, and the proofs say what this state knows
of the prefix behind it (`ScanKnows`: the window of results behind each assistant
message, what is missing from it, and all ids seen) and what it awaits of a paired
sequence (`ScanGoes`).  Both are inductions over the message that the pass has reached.
They are proved without an induction theorem, from the least counterexample (`WFMin`,
which takes a set and no operator), as is that the recursive function `Scans` of the
model exists (`ScanExists`).  With compaction they give that a session whose model uses
no id twice is never stuck in front of the check.

`EventDeliveryProofs`, of `EventFollow` (any sizes): `FollowerSeesTheLog`.  The hub's
channel never decides what is emitted, only when, because the follower replays from its
own cursor; the invariant (`Cursors`) adds that the cursor lies between the request's
and the end of the log.

The same module, of `RunStream` (any sizes of the buffer and of the log):
`ShownIsContiguous`, `DoneHasSeenAll`.  `StreamInv` follows an event through the pipe
(the emitter, the channel, the writer's hand, the wire, the client): the numbers in the
pipe ascend (`PipeOrdered`) and are recorded; what the client shows is the log up to its
last number (`ShownInv`); and as long as the stream is not cut, nothing is counted as
dropped and no gap notice is on its way, each event of the run is somewhere in the pipe
(`NothingLost`), of which the client has shown what it has read (`ReadIsShown`).
`Handover` is about the end of the stream: the emitter, the writer and the client leave
in this order, so that a client which meets the end has an empty pipe before it.

`ChildProcessProofs`, of `ShellProcesses` (a finite, non-empty set of starters; sizes
are numbers): `LiveIsBounded`, `LiveIsListed`, `ReaderMissesNothing`.  The bound needs
that an id in flight is in nobody else's hands and has not exited (`OwnIds`, `Fresh`),
that every id in use has been given out (`RegistryOK`), and a lemma on the cardinality
of disjoint finite sets.  The reader's account (`Accounted`, of one process) needs that
the buffer is the last bytes of the output, without a hole, and is full once something
was dropped (`Held`).

The same module, of `McpCatalog` (any callers and refreshers, who are different
goroutines, any operations, changes and faults): `CallersHaveAClient`,
`NoProcessIsOrphaned`, `CopiesAgreeAtRest`.  `CatalogInv` is a conjunction of what the
goroutines hold.  `OneStarts`: under the start mutex at most one caller is between its
test of the client and the installation of the new one.  `Owned`: each connected client
is the installed one or in the hands of one caller that starts or discards it.
`NewsCarried`: if two of the three copies of the list differ, somebody is still to carry
the news, or an older snapshot has `overtaken` a newer.  `SpecsOfClient`: the manager's
list comes from the installed client, and in a ready catalog it has the last change that
was heard of, unless the catalog is `misled`.  `HoldsList` says what a goroutine that
has fetched a list has in hand.  Most steps move one goroutine; that the others keep
what they have (`OthersKeep`, `OthersStartedClient`) is proved once.

`TelegramBotProofs` (any numbers of updates, failures, late runs and restarts):
`SupersededNeverRuns`, `AcknowledgedIsKnown`, `AcknowledgedIsKept`.  The invariants say
that whoever is past its lock has the chat's mutex (`MutexOK`); that every update below
the offset is known to the gateway or was missed, and that neither the offset is ahead
of the poller nor the file of the offset (`AdmOK`); that at most one of the existing
prompts is not superseded, and none of them while a newer one is admitted (`OrderOK`);
and, as long as no late run has saved, that the one which waits is the pending input of
the file and no finished one lingers there (`KeptOK`).

`TypeCorrect`, the type invariant of the module, is a theorem for `RunThread`,
`SessionInputs`, `SessionEvents`, `SessionStore`, `UserInput`, `EventFollow`,
`ShellProcesses` and `TelegramBot`.  The invariants of the other four contain the types
that their proofs need (`StreamTypes`, `UndoTypes`, `CatalogTypes`, `AnswerTypes` with
`Typed`), which are weaker where the numbers of the runs are bounded.

With that every safety invariant and every action property of the runs is a theorem, as
is the refinement.  Only model-checked are the liveness properties (`CancelledRunEnds`,
`QueueDrains`, `AbortReturns`, `CancelledAskReturns`, `HandlerReturns`, `EventsArrive`,
`ToolsEnd`, `TerminatedEnds`, `UpdatesAreConsumed`), because fairness and `ENABLED` are
beyond the prover.

## Where the code surprises

The exceptions that the properties carry are behaviours of the code, found while
modelling it; in each case the property would fail without the exception.

* `gateway/session_store.go:672`: the history record is written before the manifest that
  numbers it.  After a crash between the two the next save gives its record the same
  number, and the session cannot be loaded any more: `replaySessionHistory` reports a
  sequence gap.  `docs/adr/0001-jsonl-event-log-source-of-truth.md:26` asks that replay
  validate contiguous numbers; the writer does not guarantee them (`slipped`).
* `gateway/session_store.go:464`: an append that fails after its bytes are written, for
  example in fsync, has its number used again by the next (`slipped`, too).
* `gateway/gateway.go:710`: of two requests with one input id, the one that fails its
  preflight or loses the promotion completes the input as `preflight_failed`, although
  the other's run is going on.
* `gateway/session_inputs.go:231` and `:458`: the complete endpoint takes the client's
  terminal status, and none means "completed": an input that never ran can be recorded
  as completed, with no turn saved (`claimed`).
* `gateway/session_inputs.go:349`: a torn line quarantines the ledger, and the gateway
  forgets every input id (`forgotten`).
* `gateway/run_thread.go:118`: a cancellation that comes after the runner has succeeded
  rolls the turn back although the input is recorded as completed (`late`).
* `gateway/run_thread.go:165`: `runInterrupted` takes every `DeadlineExceeded` for a
  cancellation.  Providers return it for their own `RequestTimeout` (`provider.go:290`,
  `codex_provider.go:167` and `:246` in `internal/provider`), so the prompt of a run
  that nobody cancelled is rolled back with it.
* `gateway/session_events.go:349`: an abort between `activeRunID` and the `run.started`
  record is refused by the log, and leaves a run that starts without an end (`early`).
* `gateway/session_events.go:284`: run numbers are given out at promotion but used at
  the start of a run, so a run that another has overtaken on the way is recorded under a
  higher number than the ledger has for its input (`overtaken` in `SessionEvents`).
* `gateway/user_input.go:149`: an invalid answer restores its question after the run has
  ended; the idle session keeps it and the next run's first question is refused.
* `gateway/response.go:90` and `gatewayclient/client.go:1170`: a gap hint carries a
  count, not numbers, and the recovery does not follow: it sees what is recorded by
  then.
* `agent/`: a provider that gives no call ids gets `call_<i>` in every answer; an id
  used again makes the pairing check refuse every later request of the session
  (`reused`). If the output ref of a success cannot be settled, the event says "failed"
  and the transcript keeps the success ("unsettled").
* `checkpoint/checkpoint.go:874` and `:913`: a change is never undone, or redone, if
  that would bring back an empty file (its content counts as one that was not kept), one
  over 256 KiB or a link, or remove a directory with entries that no checkpoint has,
  such as a `vendor` directory in it.
* `checkpoint/checkpoint.go:943`: a change that turns a file into a directory, or back,
  passes the check and fails when it is written, after the files before it.
* `gateway/gateway.go:1070`: nothing holds the files between the look at them and the
  writes; an edit or a tool's write in between is overwritten (`race`).  If the event of
  an undo fails after its line is written, or the rollback meets a conflict, the log and
  the files disagree (`unsure`, `stuck`).
* `tools/shell_process.go:399`: starts at the same time pass the cap of managed
  processes that `docs/architecture/security-model.md:444` states: the bound that holds
  is `LiveBound`.  A descendant that leaves the group keeps its place under the cap.
* `telegrambot/poller.go:30`: an update that could not be admitted is not acknowledged,
  but the next one of its batch is, and passes it;
  `docs/architecture/telegram-and-operator-surfaces.md:239` says that the poller can
  retry it (`missed`).  An interrupted run that stops after more than 5 s writes the old
  chat state over the newer pending input (`lates`).
* `telegrambot/poller.go:53` and `runner.go:72`: a command that takes the chat's mutex
  waits for it on the only poller goroutine.  If the run that holds it is asking the
  user, neither an answer nor `/cancel` is read any more; `/cancel` avoids the mutex,
  but not the queue behind it.  Only another client, or a restart, ends the wait.
* `telegrambot/poller.go:63`: an answer that the gateway refuses (over 2000 characters,
  `gateway/user_input.go:232`) is not acknowledged and is polled, and refused, again and
  again for as long as the question is pending.
* `mcpclient/server.go:135`: `ensureConnected` reads `s.client` after the unlock and may
  return nil, on which the call panics, if the client has gone or the server was closed.
* `mcpclient/server.go:246` and `:308`: a `tools/list_changed` that is read during the
  `prompts/list` of a start is lost, and of two refreshes the older list may be
  installed last; the catalog says "ready" in both cases (`misled`).
  `tools/tools.go:439`: an older snapshot may be mirrored over a newer one, and clears
  its stale mark (`overtaken`). `docs/architecture/tools-mcp-and-policy.md:199` says
  that notifications rebuild the catalog and clear stale tools: they do, but not always
  in the end.

## Not modelled

The models are about the concurrent and the durable core, some five thousand of the
repository's lines; most of the other eighty thousand render, parse, configure, format
or talk to one external service, one call at a time, and keep no state that two actors
share.

* Agent club, its routes and ingress: every operation reads and writes files under one
  store mutex, so that what could go wrong lies in single operations; the runs they
  trigger go through the handlers that `SessionInputs` models.
* Provider: one HTTP stream per call; what it may deliver is in `AgentRun`.
* Terminal UI but for its recovery from gaps, command line, projections, trace: they
  read the log.
* Of the MCP client: more than one server and the collisions of their names, prompts,
  the status listeners; of the Telegram bot: callback queries, rejected media, sessions
  created again, settings commands, more than one chat; of the store: legacy snapshots,
  exports, inspection routes.
* Half-written lines are torn, not written byte by byte; a reader of `events.jsonl` that
  meets one while it is written reports it and asks again.
* Panics of a runner; the lifecycle rules of turns, steps and attempts
  (`eventlog/lifecycle_rules.go`), of which `SessionEvents` has those of runs and
  `AgentRun` that a call id is requested once.

What could follow: the agent club's delivery claims with their retries; more than one
server in `McpCatalog` and more than one chat in `TelegramBot`; an abstract undo stack
that `UndoRedo` implements, which `Stack` nearly states.
