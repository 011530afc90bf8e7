# TLA+ models of data-assistant

data-assistant collects QQ chat messages from NapCat (a OneBot implementation)
over a reverse WebSocket, stores them with their images in PostgreSQL and on
disk, and hands every saved image over NATS JetStream to a second service,
which has it tagged by an HTTP service. This directory holds TLA+ models of
the parts whose correctness depends on the order in which things happen, TLC
configurations that check them on small instances, and proofs, checked by
TLAPS, that hold for every value of the constants.

Source paths below are relative to `src/` (the repository root).

## 1. Inventory

```
 NapCat --ws--> napcat/connection ----> napcat/handler ----> napcat/pipeline
   ^                  |  (URL refresh)       |                  |       |
   +------------------+<---------------------+            PostgreSQL  disk
                                                           |    |
                     outbox relay <-- nats_dispatches rows-+    | hot path
                          |                                     |
                          +------------> nats_publisher <-------+
                                              |
                                        NATS JetStream
                                              |
 processor: tagger_worker (callback) --> queue file / in-flight file
                    drain, backlog, auto-run --> run_tagger_once --> HTTP tagger
```

| component | state it keeps | operations | model |
|---|---|---|---|
| tagging queue (`processor_service/.../tagger_pipeline.py`) | queue file, in-flight file, batch in memory, audit log | enqueue, run_tagger_once, restore, requeue, auto-run | `TaggerQueue`, its promise `DurableWorklist` |
| tagger runner (same file) | locals of a request | one HTTP request for a batch; matches results by path, the rest by position | `TaggerBatch`; in `TaggerQueue` its outcomes |
| tagger worker (`tagger_worker.py`) | NATS connection and its liveness, subscription, drain task, shutdown event | callback with ack/nak, look-up of the file, drain, backlog, callbacks of the connection | `TaggerWorker`, `WorkerLifecycle`, `ImageFiles`; its coroutines on the queue in `TaggerQueue` |
| processor life cycle, health (`main.py`, `health.py`) | two tasks, stop event, exit code | start, signal, stop, health verdict | `WorkerLifecycle` |
| image storage (`chat_image/storage.py`), task contract (`contracts/chat_image_task.py`) | the image volume | path of a picture; what a task says of it | `ImageFiles` |
| event and image pipeline (`napcat/pipeline.py`) | image rows, files | persist_event, _process_image | `ImageHandoff`, its promise `ImageLedger` |
| persistence (`persistence/repository.py`) | PostgreSQL | inserts and updates of rows | the two row states in `ImageHandoff` |
| outbox relay (`chat_image/outbox_relay.py`) | its current batch | relay_once | `ImageHandoff` |
| NATS publisher (`nats_publisher.py`) | cached client, JetStream context, ensured streams, connect lock | connect, set up the stream, publish, close | `NatsPublisher`, its promise `TaskBus`; the outcome of a publish in `ImageHandoff` |
| action channel (`napcat/connection.py`) | global client, pending futures, sockets | connect, receive, call, close | `ActionChannel`, its promise `RequestReply` |
| event handler, URL refresh (`napcat/handler.py`) | none of its own | refresh chain | `ActionChannel`, `ImageHandoff` |
| OneBot parsing, configuration, telemetry, export, CLI, downloader, audit log | see `PROJECT.json` | | see section 8 |

Interactions: the pipeline calls the publisher directly (hot path) and leaves a
dispatch row the relay polls; both settle the same row. The receive loop of a
connection awaits the handler, which may call NapCat over the very connection
the loop reads. The NATS callback, the drain and the auto-run task share the
two queue files. The relay and the handlers of all connections share one
publisher. The two services share the stream and the image volume: a task says
which picture it is about, and the processor finds the file by itself.

What is hard here: awaits between a read and the write that relies on it
(hash look-up, outbox row, in-flight file); two writers of one row or file; a
crash or an exception between two writes; a confirmation that is lost; retries
that must neither stop early nor go on for ever; a loop waiting for itself; a
connection that is replaced while others use it; a process that is up and does
nothing; four keys (message id, hash, path, position) that have to name one picture.
`PROJECT.json` lists each hazard at its line.

What makes each component correct:

* queue: an acknowledged task is on disk until it is audited to an end; it is
  audited to an end eventually; work is repeated only because of a failure;
* handoff: a row says published only if the task is on the bus; only saved
  images are handed over; each saved image reaches the bus; equal bytes are
  saved once;
* channel: no call is left waiting, none is left registered; a call has one
  outcome, and a reply in time is not passed over; the newest
  connection serves; a handler gets back to its socket;
* publisher: success is reported only for what the stream has; an outage costs
  one connect, however many callers meet it; publishing recovers;
* worker: what JetStream may forget is in the queue file or done; a worker that
  is cut off is reported, and its process ends with a code that says so;
* pictures: an image's file is found, its tags are those of its own picture.

## 2. Modules

`Selections` - list comprehensions as a function without recursion;
`SelectionProofs` its lemmas.

`DurableWorklist` - the abstract promise of the queue: *held* paths and *due*
paths, and whatever is due is held.

`TaggerQueue` - the queue in detail. `TaggerQueueProofs` its theorems about
tasks, `TaggerRepeatsProofs` those about repeated work, `MCTaggerQueue` its
instance.

| state | code |
|---|---|
| `queue`, `inflight` | the two JSON files; `_save_queue` writes a temporary file and renames it, so a write is atomic |
| `pc`, `todo`, `tagged`, `requeue` | the locals of each `run_tagger_once` call and where it is |
| `backlog` | the worker is in `run_tagger_until_empty` rather than in the periodic drain |
| `owed`, `audited`, `closed`, `gaveUp` | history, read by properties only (`owed`: accepted, not audited to an end since) |

Actions follow the file operations of `run_tagger_once`: `Restore`,
`ClearRestored`, `FindEmpty`, `SaveInflight`, `SaveRest`, (await of the
tagger) `Answer`, one `Audit...` per item, `EndAudit`, `Requeue`, `Clear`.
`Enqueue` is the whole NATS callback after its checks, including the start of the
auto-run task. `Crash` and `Fault` (an OSError) may come between any two of them. The
lock is never held over an await, so a synchronous section is interrupted by
no coroutine: `LoopFree`. `Restore` puts the lost batch at the head of the
queue and leaves out paths the queue names already.

`ImageLedger` - what the logger's tables and the bus promise to their readers:
an image gets its status once, a task is told of a saved image only, a mark
*published* is of a task that was told, and may be withdrawn.

`ImageHandoff` - from a received image to a task on the bus; a step is one
await and the synchronous code after it. `row` and `dispatch` are the status
columns of the image's two rows, `created` the order of `created_at`, `aged`
the rows older than the relay's minimum age, `bus` what the stream stored
(de-duplicated by message id, hence a set). Handler actions are named for what
they await (`InsertImage`, `Download`, `Select`, `MarkSaved`, `AuditSaved`,
`InsertDispatch`, `Publish`, `Settle`, ...), relay actions `RelayFetch`,
`RelayPublish`, `RelayMark`. Each database operation has a disjunct that fails
with the statement applied or not; an exception the code does not catch ends
the event (`Abandon`). `ImageHandoffProofs` its theorems.

`RequestReply` - what `call_action` promises its callers: one outcome for each
call, by the reply to its own request, and a reply that is read while its call
waits completes it; one that is lost with its connection fails its call.

`ActionChannel` - connections with their receive loops, `OneBotActionClient`,
and the refresh chain. NapCat is external: it sends, answers in any order or
never, leaves, and need not take what is sent to it. `loop[c]` is where handler c is; `via`, `call`, `left` are
the locals of its chain. A call of `close()` is the operator `Close`, used by
replacement and by the handler's `finally`. A frame that arrives while the
handler is closing its socket counts as not sent: aiohttp's `close()` reads on
for the close frame and drops what comes before it. `Disconnect` is the
handler's `finally`, however the loop ended: with an exception that `on_event`
lets through, the frames behind the event are lost unread. `Send` is outside
the timeout of a call and has no fairness. `ActionChannelProofs` its theorems.

`TaskBus` - what the publisher promises its callers: success is said of a task
only when the stream has that task; failure says nothing, and the task may
arrive when its caller has gone on to another one.

`NatsPublisher` - the publisher in detail, and its refinement of `TaskBus`.
`NatsPublisherProofs` its theorems.

| state | code |
|---|---|
| `client`, `context`, `ensured` | `_nats_client`, `_jetstream_context`, `_ensured_streams` (one stream); a client is the number of its `nats.connect` |
| `ahead` | `_nats_connect_lock`: who is before whom |
| `pc`, `js`, `task`, `result` | where each call of `publish_tagger_task_with_result` is, the context it holds, the task it publishes, what it returned |
| `link`, `stream`, `stored` | NATS: each connection, the stream, the tasks it has got |
| `late`, `answered` | what is under way: tasks of ended calls, and answers to publishes that wait |
| `phase` | the end of `main`: the calls are cancelled, then `close_nats_publisher` runs |

A step is one await: `Begin` looks at the cached client, `LockTaken` looks
again under the lock, `Connected` replaces all three globals, `InfoAnswered`,
`InfoFails`, `Added`, `Updated` and `EnsureFails` are `_ensure_stream`,
`Confirmed` and `NotConfirmed` the publish, `Stores` the stream that takes its
task and answers. A task may be published again, and by both callers at once.
When a call ends without an answer, its task may be stored at any later time
(`ArrivesLate`), also while its caller publishes another one; an answer that
was under way to it finds nobody. A request to create the stream is applied at
once or never, and nobody but the publisher changes the stream: one that is
removed or reconfigured from outside would leave `_ensured_streams` wrong, and
is not modelled.

`WorkerLifecycle` - the processor's process: `_main` with the health task and
the worker task, signals, the worker's connection and its callbacks, the exit
code, and the container runtime that starts the process again. `worker`,
`health` and `main` say where each coroutine is. The callbacks of nats-py
are part of the step that changes the link.

`TaggerWorker` - extends it with the messages: JetStream (external) delivers,
redelivers after `ack_wait` and gives a message up after `max_deliver`;
`Take`, `Enqueue` and `Reply` are `_on_message`, with the exception of the
file look-up, after which a message gets no reply at all. `Process` wraps every step of
the process: when it ends, what it had received and not replied to is gone. The
queue file is `DurableWorklist` (`held`, `due`), so that the promise
`TaggerQueue` is shown to keep is the one the acknowledgement relies on.
A `trouble` is anything that goes wrong, from a signal to a lost reply.
`TaggerWorkerProofs` its theorems.

`ImageFiles` - the volume: the logger's file names with the second they were
saved in, and the processor's search by message id, seq and hash. A name is
everything of a path but the second, which may have passed when the file is
written; `Matches` says whose names a pattern finds. `TaggerBatch` - one request to the tagger and the matching of its
results, item by item. `ImageTagging` composes the two with the queue in
between: save, receive a task, take a batch, match, record tags; the
properties say that the four keys agree. `ImageTaggingProofs` its theorems.

An operator with an underscore in its name is a plausible bug in the operator
of the same name; no behaviour uses it. With it in place of the original, TLC
finds the listed property violated, so each property does depend on that code.

## 3. Runs

| run | question | result |
|---|---|---|
| `TaggerQueueDrain` | default set-up (no auto-run), one crash and one OSError anywhere: is a task ever lost, repeated without cause, or kept for ever? do the files implement `DurableWorklist`? | holds |
| `TaggerQueueAuto` | auto-run beside the drain, no crash: do the two coroutines lose or keep a task? | holds |
| `TaggerQueueAutoCrash` | the same with a crash | a task is lost (finding 1) |
| `ImageHandoffSafety` | two overlapping events, relay, a fault, a crash: is *published* the truth, are only saved images handed over? do handlers, relay and restarts implement `ImageLedger`? | holds |
| `ImageHandoffOneLink` | one connection, a fault, a crash, outages of NATS: is equal content saved once, does every recorded row reach the bus? and, unless there was a fault or a crash, does every saved image reach it, does every row conclude? | holds |
| `ImageHandoffCrash` | one crash: is a saved image still accounted for? | no (finding 2) |
| `ImageHandoffTwoLinks` | two connections: is equal content saved once? | no (finding 3) |
| `ActionChannelTwoLinks` | two connections that overlap, replace each other and leave: futures, global client, return to the socket; does the channel implement `RequestReply`? | holds |
| `ActionChannelPrompt` | one connection, a prompt NapCat: is a refresh answered? | never (finding 4) |
| `NatsPublisher` | two callers and two tasks on one cached connection that is lost once: is success the truth, does the publisher implement `TaskBus`, is one outage one connect, does every call return, does publishing recover? | holds |
| `TaggerWorker` | messages, connection and process with three troubles: is an acknowledged task ever lost, do /health and the exit code tell the truth, does a cut-off process end, is every message dealt with? | holds |
| `ImageTagging` | files that look alike or collide, any answer of the tagger: is the right file found, does every image get its own tags? | holds |

### Bounds and why they are enough

* Queue, drain: 2 paths, 3 entries, batches of 2, 2 attempts, 1 crash, 1
  OSError. A path can be queued again while it is in flight, a batch can be
  full and leave a rest, an item can fail and fail for good, and a crash can
  follow an OSError before the batch is recovered.
* Queue, auto-run: 2 entries. The loss of finding 1 needs two entries in
  different hands, and shows with two.
* Handoff: two events with one picture in common, the first with a second,
  different picture (`CatTwice`), so that an event has a next image to go to or to
  abandon and a twin to find. The relay takes one row at a time, so that rows
  wait behind the head of its batch. `MaxAttempts` = 0 is the default (no limit).
* Channel: two connections, chains of two calls, three calls and two events:
  one chain can be replaced between two calls, and a second handler can call over the
  first one's connection.

* Publisher: two callers and an outage, so that both can wait for the lock at
  once, and one can hold the context of a client that the other has replaced
  and that comes back after that; three connections are never used up
  (`OneClientPerOutage` allows two). Two tasks, so that one arrives late while
  its caller publishes the other. More outages are left to the proofs, which
  cover the four safety properties for any number of callers, tasks, outages
  and connections.
* Worker: one task and one message that does not decode, two deliveries, three
  troubles: enough for a lost link, a close and a crash in one behaviour, or
  for the last delivery of a task to fail after a crash.
* Pictures: two images without a message id, whose paths differ by the second
  or not at all, one with a task of each version; two seconds, three items in
  queue and batch together, so that an image can be queued again while it is
  in work, answers of every length up to the batch's and in any order.

`MaxEntries`, `MaxCrashes`, `MaxFaults`, `MaxEvents`, `MaxCalls`, `MaxClients`, `MaxOutages`,
`MaxTroubles`, `LastSecond`, `MaxItems` are bounds of the model
and have no counterpart in the code. In `CallRefused`, a chain that meets
`MaxCalls` skips its remaining calls as if it were not connected.

Deadlock is checked except where the system comes to an end: the channel's
connections are finite in number, the publisher is closed with the process, and
the images of `ImageTagging` are all saved and tagged at some time. In the
other models a system at rest can always take another step (the drain finds the
queue empty, the relay polls, a process is started again).

## 4. Fairness

asyncio serves ready callbacks first in, first out; a coroutine that can run
does (`WF` on each runner and handler).

* Queue: `SF` on `Restore` and `Answer`, because a coroutine waits for a loop that is
  busy and free by turns; the drain ticks for ever and finds the tagger
  healthy again and again; the HTTP call has a total timeout. Nothing is
  assumed about what the tagger answers.
* Handoff: database, HTTP and publish calls have timeouts; the relay polls;
  time passes (`Age`); `SF` on a confirmed `RelayPublish`: NATS may be away
  any number of times, and is there again and again.
* Channel: `WF` on handlers only, and not on their `Send`; `wait_for` has a
  timeout, but `_send_lock` and `send_json` are outside it. Nothing is assumed of
  NapCat: it need not answer, nor close, nor read. A NapCat that stays
  connected and stops reading until the send buffer is full holds the handler
  and every call on that connection, so `EventsConclude` names its assumption
  (`SendsConclude`): what is sent is taken in the end, or the link breaks.
* Publisher: `WF` on the steps of a call, each of which ends: `nats.connect`
  makes a bounded number of attempts, requests have timeouts. The relay calls
  again and again (its interval), and `SF` on its successful steps: NATS
  may fail the relay any number of times but not for ever. A lost connection
  need not come back, nor be closed.
* Worker: `WF` on each task of the process, on the callback, on the container
  runtime's restart and on JetStream's deliveries. Nothing is assumed of
  `nats.connect` or of a lost connection; `MessagesConclude` names the
  assumption it needs (`NatsReturns`).

## 5. Proofs

Assumptions are those named in the modules (batch size and attempts positive,
bounds natural numbers, every event with at least one image, `None` is not a
connection). The theorems about tasks in `TaggerQueueProofs` assume
`AutoRun = FALSE`, the default of the configuration; with auto-run they are
false (finding 1); so do those in `TaggerRepeatsProofs`: under auto-run
either runner restores the batch the other one has in work, and work is repeated without any failure. `TwoRunnersKeepTasks` is the exception: it covers auto-run,
and assumes `MaxCrashes = MaxFaults = 0` instead.

* `TaggerQueueProofs`: `TypeCorrect`; `OwedStaysOnDisk`;
  `QueueImplementsWorklist` (refinement with held = named by a file, due =
  owed); `PickIsRecordedFirst`. `OwedIsOnDisk` is not inductive: while a batch
  is in hand, its items are in memory and only the in-flight file names them.
  `TaskInv` adds, for each place the worker can be at, why the step it is about
  to make loses nothing: before the in-flight file is removed after a restore,
  the queue names all it names; before the queue is cut, the in-flight file is
  exactly the batch; while a batch is in hand, the in-flight file names what
  `todo` and `requeue` hold, and whatever is owed is in the queue or in one of
  these two; before the in-flight file is removed at the end, all that is owed
  is in the queue. `TwoRunnersKeepTasks` says how much is left of this with two
  runners: `InHandInv` drops the in-flight file, which either may remove, and
  keeps that what a runner took from the queue is in its own batch until it is
  audited or queued again.
* `TaggerRepeatsProofs`: `WorkIsRepeatedForCause`, `GivenUpIsFinal`. They need
  to know where each entry is, and what it has cost. `EntryInv`: an entry is
  in the queue or in the batch in hand, not in both, each time once, and it is
  known by one path; an entry named by the in-flight file may be in the queue
  as well, after a failure between two file operations. `LinesInv`: an item
  that is still to be audited has had no line that a crash, an OSError or one
  of its counted attempts does not account for (`Unspent`), and an item that
  only the in-flight file names has had one more at most (`Spent`). This is the point where
  attempts are lost: they are counted in memory, and the in-flight file has the
  item as it was; to be tried again from it, the item needs a failure, which pays
  for the attempt. `GivenUpIsFinal` follows: an entry that was given up has its
  closing line, and without a failure no item to be audited has one.
* `ImageHandoffProofs`: `HandoffTypeCorrect`, `PublishedIsTheTruth`,
  `OnlySavedImagesAreHandedOver`. `HandoffInv` adds to the two properties:
  images a handler has not come to are untouched (`AheadIsUntouched`), a
  handler past the save has a saved row and a file (`HandlersSaved`), whoever is about to
  mark a row with success knows of a stored task (`MarkersKnow`), and handler and relay
  work on rows that exist (`RowsExist`). Without the first, an insert or a
  save could hit an image that has a task already. Two more theorems have
  invariants of their own: `CalmRunsLoseNothing` (`NotForgotten`: as long as
  nothing has failed, a saved image that is neither on the bus nor in the
  outbox has a handler still on its way with it), and `OneLinkSavesOnce`, under the
  assumption `~Concurrent` (`OneByOne`: one handler works at a time, so that
  what its look for a duplicate found is still true when it saves).
  `HandoffImplementsLedger` (refinement: status = the image's row, told = the
  bus, marked = the rows that say published) adds `RowsOpen`: images whose
  insert is to come have no row, and a handler that is about to write a status
  finds its row pending. The rest of each step is `HandoffInv`: `HandlersSaved`
  and the saved rows of the outbox for `Tell`, `MarkersKnow` for `Mark`.
* `ActionChannelProofs`: `ChannelTypeCorrect`, `CallsAreRegistered`,
  `ReplacedClientsFailTheirCalls`, `NewestConnectionServes`, `OwnSocketIsDeaf`.
  `ChannelInv` adds: every awaited, unfinished call is registered
  (`Registered`), calls in flight have distinct numbers not used before
  (`EchoesAreFresh`), clients other than the global one are closed
  (`OthersAreClosed`), and a handler's call on its own connection is not answered
  while it waits (`OwnCallsUnanswered`).
  `ChannelKeepsItsPromise` (refinement: outcome = the future, requests and
  replies = what is on the wires) has an invariant of the wire, `WireInv`: a
  call that is not done has a handler that waits for it (`CallersWait`); its
  request or its reply, not both, is on the one connection whose client was
  called (`OnItsConnection`, `AskedOnce`, `RepliesOnce`); and a connection that
  is being closed has no reply left (`ClosingIsRead`). From the second and
  third: a reply that is read while its call waits is read by the client that has it
  registered, so `consume_action_response` finds it. And a reply that is lost
  unread with its connection is one to a call that `close()` fails, or that
  waits no more.
* `TaggerWorkerProofs`: `WorkerTypeCorrect`, `HealthTellsOfTheLink`,
  `ExitCodeTells`, `NoTaskBetween`, `RepeatsAreCaused`. `LivenessIsLink` says what
  `_NATS_LIVENESS` holds at each place of the worker, `StopIsExplained` that,
  until `_main` has seen a task end, a set stop event has a signal or a closed
  connection behind it. For
  `RepeatsNeedTroubles` the invariant is a count (`RepeatsInv`): every trouble
  pays for one thing only, a further copy of a message, a refusal that will
  bring one, or the end of the process that takes its copies with it.
* `NatsPublisherProofs`: `PublisherTypeCorrect`, `EnsuredStreamIsThere`,
  `OutageCostsOneClient`, `PublisherImplementsBus`. `LockInv` says that of
  two calls at the lock one is before the other, and none before the holder; `Budget` that whoever is
  about to connect has an outage to pay for it, for while one connects, the
  cached client is not up. For the refinement, `AnswersAreOwn`: an answer under
  way is to the publish its call waits for, whose task is stored.
* `ImageTaggingProofs`: `TaggingTypeCorrect`, `ImagesAreFound`,
  `ItemsGetTheirResults`, `TagsAreTheirs`. `FilesInv`: a saved image that was
  not overwritten has its picture in its file. `MatchInv`: `fallback_index` is
  the number of unnamed results before the item's position, so that matching by
  name and by position meet. `GoodInv`: an item in queue or batch names a file with
  the picture of its image, and a result in hand was computed from it.
* `SelectionProofs`: a selection is a list of the kept items, as long as there
  are positions kept, and in their order.

Only model-checked: liveness (`OwedIsSettled`, `RecordedReachesBus`,
`SavedReachesBus`, `RowsConclude`, `EventsConclude`, `CallsConclude`,
`PublishingRecovers`, `ProcessEnds`, `MessagesConclude`), which is out of
TLAPS's reach. Every invariant, action property and refinement of a passing run
is a theorem. The type invariants of `ActionChannel` and `ImageTagging` are
theorems that no run repeats. Where a theorem assumes `AutoRun = FALSE`,
`~Concurrent` or `MaxCrashes = MaxFaults = 0`, the run that checks its property
assumes it too, and findings 1 and 3 or the text above show why it is needed.

## 6. Findings

1. **Auto-run and drain share one in-flight file** (`tagger_pipeline.py`,
   `_clear_inflight` after the audit): the coroutine that ends first removes
   the record of the batch the other one has in memory; a crash then loses an
   acknowledged task. Only with `CHAT_IMAGE_TAGGER_AUTO_RUN`.
2. **The outbox row is not written with the save** (`napcat/pipeline.py`):
   they are two transactions, and a crash in between leaves a saved image
   that no one hands over, where the README says the handoff is guaranteed.
3. **De-duplication by hash looks before it writes**: two connections that
   deliver the same picture at once save it twice.
4. **A refresh waits for the loop it runs in**: the receive loop awaits the event
   handler and is the only reader of the answer. With one connection, each call
   of the chain waits out its timeout. `OwnSocketNeverAnswers` states it as an
   invariant of the code; `PromptPeerIsHeard` is what the docs promise.

Each is quoted with the line it contradicts in `PROJECT.json`.

## 7. Plan

1. `TaggerWorker` on `TaggerQueue` itself instead of `DurableWorklist`, so that the message
   behind finding 1 is tied to its acknowledgement.
2. `ImageHandoff` on `TaskBus` instead of its own `PublishEnds`, and with
   `TaggerWorker` behind the stream: from a received image to its outcome.
3. The tagger CLI as a second process in `TaggerQueue`.

## 8. Not modelled, and why

* Files of the queue that do not parse (moved away by the code): the models
  assume that the files hold what was written.
* Several processors on one volume, and the CLI: a second process may come between
  any read and write of the queue files, which multiplies the states of
  `TaggerQueue` (plan, 3).
* A stream that is removed or changed by somebody else than the publisher.
* `parse_event`, metadata, configuration: pure conversions; the models take
  their results as values.
* The HTTP downloader: bounded retries without shared state; its two outcomes
  are `DownloadEnds`.
* Core NATS without JetStream, in publisher and worker, and the early returns of
  `_run` when the configuration is invalid.
* A `nats.connect` that is cancelled may leave a connection nobody refers to;
  replaced connections of the publisher are never closed by the code, and stay in the
  model as links that no call uses any more.
* Files are never removed from the volume, by either service; the branch of
  `StartBatch` for a missing file is in the model and is not taken.
* Attempts, crashes and the drain in `ImageTagging`: `TaggerQueue` has them. In
  `TaggerWorker` the drain is `Tag`.
* Authentication and health routes, telemetry, export: no state the
  properties depend on.
* Values: image bytes are model values compared for equality (the hash), a
  path is an identity, an echo is a number, a task is its image.
