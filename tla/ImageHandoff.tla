---------------------------- MODULE ImageHandoff ----------------------------
(***************************************************************************)
(* The logger's way from a received image to a task on the bus:            *)
(* persist_event and _process_image (napcat/pipeline.py), the rows they    *)
(* write (persistence/repository.py), the publisher                        *)
(* (chat_image/nats_publisher.py) and the outbox relay                     *)
(* (chat_image/outbox_relay.py).                                           *)
(*                                                                         *)
(* A handler takes the images of one event in turn; a step is what one     *)
(* await does and the synchronous code after it.  Handlers of two events   *)
(* overlap only when two connections deliver them.  The stream is          *)
(* JetStream with de-duplication by Nats-Msg-Id, hence a set of tasks.     *)
(*                                                                         *)
(* A database call may fail, applied or not; a file operation may fail; a  *)
(* publish may fail, stored or not; the process may die anywhere and is    *)
(* restarted, and an event that was in work is then never seen again.      *)
(*                                                                         *)
(* An operator with an underscore in its name is a faulty variant of the   *)
(* operator that follows it; no behaviour of Spec uses one.                *)
(***************************************************************************)
EXTENDS Naturals, Sequences, FiniteSets, Selections

CONSTANTS
  Events,        \* message events, one handler run each
  ImagesIn,      \* ImagesIn[e]: how many images the event carries
  Content,       \* Content[i]: the bytes of image i, and so its sha256
  Concurrent,    \* events may be in work at the same time (two connections)
  RelayBatch,    \* CHAT_IMAGE_NATS_OUTBOX_BATCH_SIZE
  MaxAttempts,   \* CHAT_IMAGE_NATS_OUTBOX_MAX_ATTEMPTS, 0 for no limit
  MaxFaults,     \* bound: failing database and file operations
  MaxCrashes     \* bound: process deaths

ASSUME ImagesInAssumption == ImagesIn \in [Events -> Nat \ {0}]
ASSUME RelayAssumption == RelayBatch \in Nat \ {0} /\ MaxAttempts \in Nat
ASSUME HandoffBounds == MaxFaults \in Nat /\ MaxCrashes \in Nat

\* An image is the k-th of its event: onebot_message_images has
\* UNIQUE(event_id, seq).
Images == UNION {{<<e, k>> : k \in 1..ImagesIn[e]} : e \in Events}

VARIABLES
  row,           \* download_status of the image's row, "none" without a row
  file,          \* the images whose bytes were written to their save_path
  dispatch,      \* status of the image's onebot_nats_dispatches row
  attempts,      \* its attempt_count, counted up to MaxAttempts
  aged,          \* the dispatch rows older than outbox.min_age_sec
  created,       \* the dispatch rows in the order of created_at
  bus,           \* the images whose task the stream has stored
  pc,            \* where the handler of each event is
  pos,           \* which of the event's images it is at
  recorded,      \* dispatch_id is not None
  sent,          \* what the handler's publish returned
  relay,         \* where the outbox relay is
  relayRows,     \* the rows of its pass still to be sent; the first is in work
  relaySent,     \* what its publish returned
  faults, crashes

db       == <<row, dispatch, attempts, aged, created>>
handlers == <<pc, pos, recorded, sent>>
relaying == <<relay, relayRows, relaySent>>
handoffVars == <<row, file, dispatch, attempts, aged, created, bus, pc, pos,
                 recorded, sent, relay, relayRows, relaySent, faults, crashes>>

Current(e) == <<e, pos[e]>>

Resting == {"new", "done"}
Working == {"insert", "download", "select", "markDuplicate", "markFailed",
            "markSaved", "auditSaved", "auditOther", "dispatch", "publish", "settle"}

Init == /\ row = [i \in Images |-> "none"]
        /\ file = {}
        /\ dispatch = [i \in Images |-> "none"]
        /\ attempts = [i \in Images |-> 0]
        /\ aged = {}
        /\ created = <<>>
        /\ bus = {}
        /\ pc = [e \in Events |-> "new"]
        /\ pos = [e \in Events |-> 1]
        /\ recorded = [e \in Events |-> FALSE]
        /\ sent = [e \in Events |-> FALSE]
        /\ relay = "wait" /\ relayRows = <<>> /\ relaySent = FALSE
        /\ faults = 0 /\ crashes = 0

-----------------------------------------------------------------------------
(* Helpers *)

NoFault == UNCHANGED faults
AFault  == faults < MaxFaults /\ faults' = faults + 1

Goto(e, label) == pc' = [pc EXCEPT ![e] = label]

\* The for-loop of persist_event goes on to the next image.
NextLabel(e) == IF pos[e] < ImagesIn[e] THEN "insert" ELSE "done"
NextImage_PastEnd(e) == Goto(e, NextLabel(e)) /\ pos' = [pos EXCEPT ![e] = @ + 1]
NextImage(e) == /\ Goto(e, NextLabel(e))
                /\ pos' = [pos EXCEPT ![e] = IF @ < ImagesIn[e] THEN @ + 1 ELSE @]

\* An exception that _process_image does not catch reaches handle_raw_event,
\* which logs it: the images of the event that are left are not looked at.
Abandon(e) == Goto(e, "done") /\ UNCHANGED pos

-----------------------------------------------------------------------------
(* persist_event and _process_image *)

\* insert_event (insert_message only logs a failure).
StartEvent(e) ==
  /\ pc[e] = "new"
  /\ Concurrent \/ \A other \in Events : pc[other] \in Resting
  /\ \/ Goto(e, "insert") /\ NoFault
     \/ Goto(e, "done") /\ AFault
  /\ UNCHANGED <<db, file, bus, pos, recorded, sent, relaying, crashes>>

InsertImage(e) ==
  /\ pc[e] = "insert"
  /\ \/ /\ row' = [row EXCEPT ![Current(e)] = "pending"]
        /\ Goto(e, "download") /\ UNCHANGED pos
        /\ NoFault
     \/ /\ row' \in {row, [row EXCEPT ![Current(e)] = "pending"]}
        /\ NextImage(e)
        /\ AFault
  /\ UNCHANGED <<file, dispatch, attempts, aged, created, bus, recorded, sent,
                 relaying, crashes>>

\* The image has no URL, or cannot be had though an expired URL is refreshed
\* once, or its bytes are here.
AfterBadDownload_Forgotten == "auditOther"
AfterBadDownload == "markFailed"

\* download_image_with_retry, in a bounded number of attempts, returns or raises.
DownloadEnds == {"select", AfterBadDownload}

Download(e) ==
  /\ pc[e] = "download"
  /\ \E label \in DownloadEnds : Goto(e, label)
  /\ UNCHANGED <<db, file, bus, pos, recorded, sent, relaying, faults, crashes>>

\* SELECT ... WHERE hash_sha256=$1 AND download_status='saved'
SavedTwin_Ignored(i) == FALSE
SavedTwin(i) == \E j \in Images : row[j] = "saved" /\ Content[j] = Content[i]

\* The look-up is not guarded by a try; the write of the file follows it
\* without an await.
Select(e) ==
  /\ pc[e] = "select"
  /\ UNCHANGED <<db, bus, recorded, sent, relaying, crashes>>
  /\ \/ /\ SavedTwin(Current(e))
        /\ Goto(e, "markDuplicate")
        /\ UNCHANGED <<file, pos>> /\ NoFault
     \/ /\ ~SavedTwin(Current(e))
        /\ file' = file \union {Current(e)}
        /\ Goto(e, "markSaved")
        /\ UNCHANGED pos /\ NoFault
     \/ /\ ~SavedTwin(Current(e))
        /\ Goto(e, "markFailed")
        /\ UNCHANGED <<file, pos>> /\ AFault
     \/ /\ Abandon(e)
        /\ UNCHANGED file /\ AFault

\* update_image_download_duplicate and _mark_failed swallow a failing update;
\* the audit line follows in any case.
Conclude(e, label, status) ==
  /\ pc[e] = label
  /\ \/ row' = [row EXCEPT ![Current(e)] = status] /\ NoFault
     \/ row' \in {row, [row EXCEPT ![Current(e)] = status]} /\ AFault
  /\ Goto(e, "auditOther")
  /\ UNCHANGED <<file, dispatch, attempts, aged, created, bus, pos, recorded, sent,
                 relaying, crashes>>

MarkDuplicate(e) == Conclude(e, "markDuplicate", "duplicate")
MarkFailed(e)    == Conclude(e, "markFailed", "failed")

\* update_image_download_success; when it raises, the image is audited as
\* db_update_failed and not handed on, even if the row says saved by now.
AfterFailedSave_GoesOn == "auditSaved"
AfterFailedSave_SaysFailed == "markFailed"
AfterFailedSave == "auditOther"

MarkSaved(e) ==
  /\ pc[e] = "markSaved"
  /\ \/ row' = [row EXCEPT ![Current(e)] = "saved"] /\ Goto(e, "auditSaved") /\ NoFault
     \/ /\ row' \in {row, [row EXCEPT ![Current(e)] = "saved"]}
        /\ Goto(e, AfterFailedSave)
        /\ AFault
  /\ UNCHANGED <<file, dispatch, attempts, aged, created, bus, pos, recorded, sent,
                 relaying, crashes>>

\* append_json_line: an OSError is not caught in _process_image.
AuditSaved(e) ==
  /\ pc[e] = "auditSaved"
  /\ \/ Goto(e, "dispatch") /\ UNCHANGED pos /\ NoFault
     \/ Abandon(e) /\ AFault
  /\ UNCHANGED <<db, file, bus, recorded, sent, relaying, crashes>>

AuditOther(e) ==
  /\ pc[e] = "auditOther"
  /\ \/ NextImage(e) /\ NoFault
     \/ Abandon(e) /\ AFault
  /\ UNCHANGED <<db, file, bus, recorded, sent, relaying, crashes>>

\* insert_nats_dispatch(status="pending"): a failure is logged, and the task
\* is published without a row to settle.
InsertRow(i) == /\ dispatch' = [dispatch EXCEPT ![i] = "pending"]
                /\ created' = Append(created, i)

InsertDispatch_NoOutbox(e) ==
  /\ pc[e] = "dispatch" /\ recorded' = [recorded EXCEPT ![e] = FALSE] /\ Goto(e, "publish")
  /\ UNCHANGED <<db, file, bus, pos, sent, relaying, faults, crashes>>
InsertDispatch(e) ==
  /\ pc[e] = "dispatch"
  /\ \/ /\ InsertRow(Current(e))
        /\ recorded' = [recorded EXCEPT ![e] = TRUE]
        /\ NoFault
     \/ /\ InsertRow(Current(e)) \/ UNCHANGED <<dispatch, created>>
        /\ recorded' = [recorded EXCEPT ![e] = FALSE]
        /\ AFault
  /\ Goto(e, "publish")
  /\ UNCHANGED <<row, file, attempts, aged, bus, pos, sent, relaying, crashes>>

\* publish_tagger_task_with_result: (True, None) when the stream confirmed;
\* (False, error) on any exception, a lost confirmation among them.
PublishEnds(i, ok) == /\ bus' \in {bus, bus \union {i}}
                      /\ ok => i \in bus'

Publish(e) ==
  /\ pc[e] = "publish"
  /\ \E ok \in BOOLEAN : /\ PublishEnds(Current(e), ok)
                         /\ sent' = [sent EXCEPT ![e] = ok]
  /\ IF recorded[e] THEN Goto(e, "settle") /\ UNCHANGED pos
                    ELSE NextImage(e)
  /\ UNCHANGED <<db, file, recorded, relaying, faults, crashes>>

\* mark_nats_dispatch_published / mark_nats_dispatch_failed: an UPDATE by id,
\* whatever status the row has.
StatusAfter_Optimistic(ok) == "published"
StatusAfter(ok) == IF ok THEN "published" ELSE "failed"

CountedAttempt(i, ok) ==
  IF ok \/ attempts[i] = MaxAttempts THEN attempts
                                     ELSE [attempts EXCEPT ![i] = @ + 1]

MarkDispatch(i, ok) ==
  /\ dispatch' = [dispatch EXCEPT ![i] = StatusAfter(ok)]
  /\ attempts' = CountedAttempt(i, ok)

Settle(e) ==
  /\ pc[e] = "settle"
  /\ \/ MarkDispatch(Current(e), sent[e]) /\ NoFault
     \/ /\ MarkDispatch(Current(e), sent[e]) \/ UNCHANGED <<dispatch, attempts>>
        /\ AFault
  /\ NextImage(e)
  /\ UNCHANGED <<row, file, aged, created, bus, recorded, sent, relaying, crashes>>

-----------------------------------------------------------------------------
(* The outbox relay *)

\* Time passes: the row becomes older than min_age_sec.
Age(i) == /\ dispatch[i] # "none"
          /\ i \notin aged
          /\ aged' = aged \union {i}
          /\ UNCHANGED <<row, file, dispatch, attempts, created, bus, handlers,
                         relaying, faults, crashes>>

\* fetch_unpublished_nats_dispatches
Unpublished_FailedOnly(i)  == dispatch[i] = "failed"
Unpublished_PendingOnly(i) == dispatch[i] = "pending"
Unpublished(i) == dispatch[i] # "published"

Fetchable(i) == /\ Unpublished(i)
                /\ i \in aged
                /\ MaxAttempts = 0 \/ attempts[i] < MaxAttempts

\* ORDER BY created_at LIMIT batch_size
FirstOf(rows) == SubSeq(rows, 1, IF Len(rows) < RelayBatch THEN Len(rows) ELSE RelayBatch)
Picked == FirstOf(Selected(created, {n \in DOMAIN created : Fetchable(created[n])}))

\* No row, or a failing SELECT, and the relay waits for its next interval.
RelayFetch ==
  /\ relay = "wait"
  /\ relayRows' = Picked
  /\ relay' = IF relayRows' = <<>> THEN "wait" ELSE "publish"
  /\ UNCHANGED <<db, file, bus, handlers, relaySent, faults, crashes>>

RelayPublish(ok) ==
  /\ relay = "publish"
  /\ PublishEnds(Head(relayRows), ok)
  /\ relaySent' = ok
  /\ relay' = "mark"
  /\ UNCHANGED <<db, file, handlers, relayRows, faults, crashes>>

\* A failing UPDATE ends the pass; the rows left are fetched again later.
RelayMark ==
  /\ relay = "mark"
  /\ \/ /\ MarkDispatch(Head(relayRows), relaySent)
        /\ relayRows' = Tail(relayRows)
        /\ relay' = IF Tail(relayRows) = <<>> THEN "wait" ELSE "publish"
        /\ NoFault
     \/ /\ MarkDispatch(Head(relayRows), relaySent) \/ UNCHANGED <<dispatch, attempts>>
        /\ relayRows' = <<>> /\ relay' = "wait"
        /\ AFault
  /\ UNCHANGED <<row, file, aged, created, bus, handlers, relaySent, crashes>>

-----------------------------------------------------------------------------

\* The process dies and is started again: what was in work is forgotten.
Crash ==
  /\ crashes < MaxCrashes
  /\ crashes' = crashes + 1
  /\ pc' = [e \in Events |-> IF pc[e] \in Working THEN "done" ELSE pc[e]]
  /\ relay' = "wait" /\ relayRows' = <<>>
  /\ UNCHANGED <<db, file, bus, pos, recorded, sent, relaySent, faults>>

HandlerStep(e) ==
  \/ StartEvent(e) \/ InsertImage(e) \/ Download(e) \/ Select(e)
  \/ MarkDuplicate(e) \/ MarkFailed(e) \/ MarkSaved(e)
  \/ AuditSaved(e) \/ AuditOther(e)
  \/ InsertDispatch(e) \/ Publish(e) \/ Settle(e)

RelayStep == RelayFetch \/ (\E ok \in BOOLEAN : RelayPublish(ok)) \/ RelayMark

Next == \/ \E e \in Events : HandlerStep(e)
        \/ \E i \in Images : Age(i)
        \/ RelayStep
        \/ Crash

Spec == Init /\ [][Next]_handoffVars

\* Every await of a handler ends (the pool, the HTTP client and the publisher
\* have timeouts), the relay's interval comes round, time passes, and NATS,
\* however often it is away, is there again and again when the relay tries.
Fairness == /\ \A e \in Events : WF_handoffVars(HandlerStep(e))
            /\ \A i \in Images : WF_handoffVars(Age(i))
            /\ WF_handoffVars(RelayStep)
            /\ SF_handoffVars(RelayPublish(TRUE))

FairSpec == Spec /\ Fairness

-----------------------------------------------------------------------------
(* Properties *)

RowStatus      == {"none", "pending", "saved", "duplicate", "failed"}
DispatchStatus == {"none", "pending", "failed", "published"}

TypeOK == /\ row \in [Images -> RowStatus]
          /\ file \subseteq Images
          /\ dispatch \in [Images -> DispatchStatus]
          /\ attempts \in [Images -> 0..MaxAttempts]
          /\ aged \subseteq Images
          /\ created \in Seq(Images)
          /\ bus \subseteq Images
          /\ pc \in [Events -> Resting \union Working]
          /\ pos \in [Events -> Nat \ {0}] /\ \A e \in Events : pos[e] <= ImagesIn[e]
          /\ recorded \in [Events -> BOOLEAN]
          /\ sent \in [Events -> BOOLEAN]
          /\ relay \in {"wait", "publish", "mark"}
          /\ relayRows \in Seq(Images)
          /\ relay # "wait" => relayRows # <<>>
          /\ relaySent \in BOOLEAN
          /\ faults \in 0..MaxFaults
          /\ crashes \in 0..MaxCrashes

\* A dispatch row that says published is the truth, whoever wrote it, the
\* handler or the relay, and in whichever order: its task is on the bus.
PublishedIsOnBus == \A i \in Images : dispatch[i] = "published" => i \in bus

\* The processor never gets a task, and the relay never a row, for an image
\* that is not saved: the row says so and the file was written.
TasksAreOfSavedImages ==
  \A i \in Images : dispatch[i] # "none" \/ i \in bus =>
                      row[i] = "saved" /\ i \in file

\* Handlers, relay and restarts keep to the ledger: no status is written over,
\* no task is sent before its image is saved, and no row is marked as published
\* before its task is stored.
Ledger == INSTANCE ImageLedger WITH
            status <- row, told <- bus, marked <- {i \in Images : dispatch[i] = "published"}
ImplementsLedger == Ledger!LedgerSpec

\* De-duplication by hash: of images with the same bytes one is saved.
SavedOncePerContent ==
  \A i, j \in Images :
    row[i] = "saved" /\ row[j] = "saved" /\ Content[i] = Content[j] => i = j

\* A handler has yet to hand the image over.
BeingHandedOver(i) ==
  \E e \in Events : Current(e) = i /\ pc[e] \in {"auditSaved", "dispatch", "publish"}

\* A saved image reaches the bus, sooner or later: it is there, or the outbox
\* has its row, or its handler is on the way to both.
SavedIsAccountedFor ==
  \A i \in Images : row[i] = "saved" =>
    i \in bus \/ dispatch[i] # "none" \/ BeingHandedOver(i)

\* And it is, unless the process has died or its disk or database failed.
Calm == faults = 0 /\ crashes = 0
CalmLosesNothing == Calm => SavedIsAccountedFor

\* What the outbox has recorded reaches the bus, across crashes and outages.
RecordedReachesBus == \A i \in Images : dispatch[i] # "none" ~> i \in bus

\* As long as the process lives and its disk and database work, a saved image
\* reaches the bus however often NATS is away.
SavedReachesBus == \A i \in Images : row[i] = "saved" ~> i \in bus \/ ~Calm

\* And every image row gets its final status.
RowsConclude == \A i \in Images : row[i] = "pending" ~> row[i] # "pending" \/ ~Calm
=============================================================================
