----------------------------- MODULE TaggerQueue -----------------------------
(***************************************************************************)
(* The processor's file-backed tagging queue                               *)
(* (processor_service/service/chat_image/tagger_pipeline.py) and the       *)
(* coroutines that run it: the NATS callback that enqueues, the worker     *)
(* (backlog run at start-up, then the periodic drain of tagger_worker.py)  *)
(* and, when CHAT_IMAGE_TAGGER_AUTO_RUN is set, the auto-run task.         *)
(*                                                                         *)
(* run_tagger_once awaits only its runner (the HTTP call to the tagger);   *)
(* QUEUE_LOCK is never held across an await, so each of its two            *)
(* synchronous sections runs without another coroutine in between.  It     *)
(* can still be cut short between any two file operations, by a crash or   *)
(* by an OSError, so every file operation is a step of its own here and    *)
(* LoopFree says that no coroutine is inside such a section.               *)
(*                                                                         *)
(* _save_queue writes a temporary file and renames it, hence one write is  *)
(* atomic: `queue` and `inflight` are always whole lists.                  *)
(*                                                                         *)
(* An operator with an underscore in its name is a faulty variant of the   *)
(* operator that follows it; no behaviour of Spec uses one.                *)
(***************************************************************************)
EXTENDS Naturals, Sequences, FiniteSets, Selections

CONSTANTS
  Paths,         \* resolved image paths, the queue's only notion of identity
  BatchSize,     \* CHAT_IMAGE_TAGGER_BATCH_SIZE
  MaxAttempts,   \* CHAT_IMAGE_TAGGER_MAX_ATTEMPTS
  AutoRun,       \* CHAT_IMAGE_TAGGER_AUTO_RUN
  MaxEntries,    \* bound: queue entries created
  MaxCrashes,    \* bound: process deaths
  MaxFaults      \* bound: OSErrors while a batch is handled

ASSUME BatchSizeAssumption == BatchSize \in Nat \ {0}
ASSUME MaxAttemptsAssumption == MaxAttempts \in Nat \ {0}
ASSUME AutoRunAssumption == AutoRun \in BOOLEAN
ASSUME BoundsAssumption ==
         MaxEntries \in Nat /\ MaxCrashes \in Nat /\ MaxFaults \in Nat

VARIABLES
  queue,         \* the queue file
  inflight,      \* the in-flight file; <<>> stands for no file
  pc,            \* where each coroutine that runs batches is
  todo,          \* batch_items still to be audited, in the memory of each
  tagged,        \* paths of the batch that its runner reported as success
  requeue,       \* requeue_items
  backlog,       \* the worker is in run_tagger_until_empty, not in the drain
  entries,       \* entries created so far: an entry is known by its number
  crashes,       \* process deaths so far
  faults,        \* OSErrors so far
  owed,          \* history: paths accepted and not audited to an end since
  audited,       \* history: audit lines written for each entry
  closed,        \* history: closing lines (success or failed) of each entry
  gaveUp         \* history: entries audited as failed for good

files   == <<queue, inflight>>
memory  == <<todo, tagged, requeue>>
bounds  == <<entries, crashes, faults>>
history == <<owed, audited, closed, gaveUp>>
vars == <<queue, inflight, pc, todo, tagged, requeue, backlog,
          entries, crashes, faults, owed, audited, closed, gaveUp>>

Runners == {"worker"} \union (IF AutoRun THEN {"auto"} ELSE {})

EntryNumbers == 1..MaxEntries

\* A queue item: the path, the attempts already made (one is always left), and
\* the entry's number, which stands for enqueued_at and context: two entries
\* of one path differ in them.
Item == [path : Paths, attempts : 0..(MaxAttempts - 1), entry : EntryNumbers]

\* bound: the audit lines counted for one entry, one more than
\* RepeatsNeedFailures allows
MaxLines == MaxAttempts + MaxCrashes + MaxFaults + 1

-----------------------------------------------------------------------------
(* Lists of items *)

PathsOf(items) == {items[i].path : i \in DOMAIN items}

Least(a, b) == IF a <= b THEN a ELSE b

\* queue_items[: batch_size] and queue_items[batch_size :]
Batch(items) == SubSeq(items, 1, Least(BatchSize, Len(items)))
Rest_SkipsOne(items) == SubSeq(items, Least(BatchSize, Len(items)) + 2, Len(items))
Rest(items)  == SubSeq(items, Least(BatchSize, Len(items)) + 1, Len(items))

\* The items whose path is not in `except`, in their order.
Without(items, except) ==
  Selected(items, {i \in DOMAIN items : items[i].path \notin except})

-----------------------------------------------------------------------------
(* Coroutines *)

Outside == {"off", "idle", "await"}          \* not holding the event loop
Inside  == {"pick", "clearRestored", "saveInflight", "saveRest",
            "audit", "requeue", "clear"}

LoopFree == \A r \in Runners : pc[r] \in Outside

Goto(r, label) == pc' = [pc EXCEPT ![r] = label]

\* The auto-run task and the backlog run call run_tagger_once again at once,
\* the periodic drain only after drain_interval_sec.
Again(r) == r = "auto" \/ backlog

InitialPc == [r \in Runners |-> IF r = "worker" THEN "idle" ELSE "off"]

EmptyMemory == /\ todo = [r \in Runners |-> <<>>]
               /\ tagged = [r \in Runners |-> {}]
               /\ requeue = [r \in Runners |-> <<>>]

DropMemory(r) == /\ todo' = [todo EXCEPT ![r] = <<>>]
                 /\ tagged' = [tagged EXCEPT ![r] = {}]
                 /\ requeue' = [requeue EXCEPT ![r] = <<>>]

Init == /\ queue = <<>> /\ inflight = <<>>
        /\ pc = InitialPc
        /\ EmptyMemory
        /\ backlog \in BOOLEAN
        /\ entries = 0 /\ crashes = 0 /\ faults = 0
        /\ owed = {}
        /\ audited = [e \in EntryNumbers |-> 0]
        /\ closed = [e \in EntryNumbers |-> 0]
        /\ gaveUp = {}

-----------------------------------------------------------------------------
(* enqueue_tagger_task_payload and ensure_tagger_auto_run *)

StartAutoRun == IF AutoRun /\ pc["auto"] = "off" THEN Goto("auto", "idle")
                                                  ELSE UNCHANGED pc

\* The NATS callback hands over a task (new, or delivered again).  A path that
\* the queue file names already is a duplicate: the message is acknowledged on
\* the strength of the entry that is there.  The callback starts the auto-run
\* task in either case.
AlreadyQueued(p) == p \in PathsOf(queue)

Append0(p) == Append(queue, [path |-> p, attempts |-> 0, entry |-> entries + 1])

Enqueue(p) ==
  /\ LoopFree
  /\ \/ /\ AlreadyQueued(p)
        /\ UNCHANGED <<queue, entries>>
     \/ /\ ~AlreadyQueued(p)
        /\ entries < MaxEntries
        /\ queue' = Append0(p)
        /\ entries' = entries + 1
  /\ owed' = owed \union {p}
  /\ StartAutoRun
  /\ UNCHANGED <<inflight, memory, backlog, crashes, faults, audited, closed, gaveUp>>

-----------------------------------------------------------------------------
(* run_tagger_once: the section under QUEUE_LOCK *)

\* The call starts.  A drain tick finds the tagger healthy, or the loop of
\* the backlog run or the auto-run task comes round.
AtStart(r) == \/ pc[r] = "idle" /\ LoopFree
              \/ pc[r] = "pick"

\* _restore_inflight: what the in-flight file names and the queue does not
\* goes back to the front of the queue ...
Restored_Dropped == <<>>
Restored == Without(inflight, PathsOf(queue))

Restore(r) ==
  /\ AtStart(r)
  /\ queue' = Restored \o queue
  /\ Goto(r, "clearRestored")
  /\ UNCHANGED <<inflight, memory, backlog, bounds, history>>

\* ... and the file is removed.
ClearRestored(r) ==
  /\ pc[r] = "clearRestored"
  /\ inflight' = <<>>
  /\ Goto(r, "saveInflight")
  /\ UNCHANGED <<queue, memory, backlog, bounds, history>>

\* Nothing queued: picked = 0, which ends the auto-run task and the backlog run.
FindEmpty(r) ==
  /\ pc[r] = "saveInflight"
  /\ queue = <<>>
  /\ Goto(r, IF r = "auto" THEN "off" ELSE "idle")
  /\ backlog' = (backlog /\ r # "worker")
  /\ UNCHANGED <<files, memory, bounds, history>>

SaveInflight_Skipped(r) ==
  /\ pc[r] = "saveInflight" /\ queue # <<>> /\ Goto(r, "saveRest")
  /\ UNCHANGED <<files, memory, backlog, bounds, history>>
SaveInflight(r) ==
  /\ pc[r] = "saveInflight"
  /\ queue # <<>>
  /\ inflight' = Batch(queue)
  /\ Goto(r, "saveRest")
  /\ UNCHANGED <<queue, memory, backlog, bounds, history>>

SaveRest(r) ==
  /\ pc[r] = "saveRest"
  /\ todo' = [todo EXCEPT ![r] = Batch(queue)]
  /\ queue' = Rest(queue)
  /\ Goto(r, "await")
  /\ UNCHANGED <<inflight, tagged, requeue, backlog, bounds, history>>

-----------------------------------------------------------------------------
(* run_tagger_once: after `await runner_impl(...)` *)

\* The runner (_run_http_tagger_batch) leaves out files that are gone, asks the
\* tagger for the rest and matches its results by path; what has no result, or
\* a result that is malformed, counts as failed, and so does the whole batch
\* when the request fails: any part of the batch may come back tagged.
TaggedParts(items) == SUBSET PathsOf(items)

\* The runner answers or raises.
Answer(r) ==
  /\ pc[r] = "await"
  /\ LoopFree
  /\ \E ok \in TaggedParts(todo[r]) : tagged' = [tagged EXCEPT ![r] = ok]
  /\ Goto(r, "audit")
  /\ UNCHANGED <<files, todo, requeue, backlog, bounds, history>>

Count(counter, item) ==
  [counter EXCEPT ![item.entry] = Least(@ + 1, MaxLines)]

WroteAuditLine(item) == audited' = Count(audited, item)

\* A closing line: success, or failed for good.
WroteClosingLine(item) ==
  /\ WroteAuditLine(item)
  /\ closed' = Count(closed, item)
  /\ owed' = owed \ {item.path}

\* attempts < max_attempts, with attempts counting the one that just failed
MayRetry_OffByOne(item) == item.attempts + 1 <= MaxAttempts
MayRetry(item) == item.attempts + 1 < MaxAttempts

Retried_NotCounted(item) == item
Retried(item) == [item EXCEPT !.attempts = @ + 1]

NextItem(r) == /\ pc[r] = "audit"
               /\ todo[r] # <<>>
               /\ todo' = [todo EXCEPT ![r] = Tail(@)]
               /\ UNCHANGED <<files, pc, tagged, backlog, bounds>>

AuditSuccess(r) ==
  LET item == Head(todo[r]) IN
  /\ NextItem(r)
  /\ item.path \in tagged[r]
  /\ WroteClosingLine(item)
  /\ UNCHANGED <<requeue, gaveUp>>

AuditRetrying(r) ==
  LET item == Head(todo[r]) IN
  /\ NextItem(r)
  /\ item.path \notin tagged[r]
  /\ MayRetry(item)
  /\ requeue' = [requeue EXCEPT ![r] = Append(@, Retried(item))]
  /\ WroteAuditLine(item)
  /\ UNCHANGED <<owed, closed, gaveUp>>

AuditFailed(r) ==
  LET item == Head(todo[r]) IN
  /\ NextItem(r)
  /\ item.path \notin tagged[r]
  /\ ~MayRetry(item)
  /\ WroteClosingLine(item)
  /\ gaveUp' = gaveUp \union {item.entry}
  /\ UNCHANGED requeue

\* The for-loop is over; `if requeue_items`.
EndAudit(r) ==
  /\ pc[r] = "audit"
  /\ todo[r] = <<>>
  /\ Goto(r, IF requeue[r] = <<>> THEN "clear" ELSE "requeue")
  /\ UNCHANGED <<files, memory, backlog, bounds, history>>

Requeue_Overwrites(r) ==
  /\ pc[r] = "requeue" /\ queue' = requeue[r] /\ Goto(r, "clear")
  /\ UNCHANGED <<inflight, memory, backlog, bounds, history>>
Requeue(r) ==
  /\ pc[r] = "requeue"
  /\ queue' = requeue[r] \o queue
  /\ Goto(r, "clear")
  /\ UNCHANGED <<inflight, memory, backlog, bounds, history>>

\* _clear_inflight, then the call returns to whoever made it.
Clear_KeepsFile(r) ==
  /\ pc[r] = "clear" /\ DropMemory(r) /\ Goto(r, IF Again(r) THEN "pick" ELSE "idle")
  /\ UNCHANGED <<files, backlog, bounds, history>>
Clear(r) ==
  /\ pc[r] = "clear"
  /\ inflight' = <<>>
  /\ DropMemory(r)
  /\ Goto(r, IF Again(r) THEN "pick" ELSE "idle")
  /\ UNCHANGED <<queue, backlog, bounds, history>>

-----------------------------------------------------------------------------
(* What goes wrong *)

\* The process dies or is stopped (the worker's shutdown cancels the runner's
\* await, which run_tagger_once does not catch) and is started again.  The
\* files stay.  Start-up runs the backlog only if the tagger is healthy.
Reborn == /\ pc' = InitialPc
          /\ backlog' \in BOOLEAN
          /\ todo' = [r \in Runners |-> <<>>]
          /\ tagged' = [r \in Runners |-> {}]
          /\ requeue' = [r \in Runners |-> <<>>]

Crash == /\ crashes < MaxCrashes
         /\ crashes' = crashes + 1
         /\ Reborn
         /\ UNCHANGED <<files, entries, faults, history>>

\* An OSError at the file operation the coroutine is about to make: the call
\* is abandoned with its batch in memory.  The drain logs it and waits for its
\* next tick, the auto-run task ends, the backlog run takes the process down.
Fault(r) ==
  /\ faults < MaxFaults
  /\ faults' = faults + 1
  /\ pc[r] \in Inside
  /\ IF r = "worker" /\ backlog
     THEN Reborn
     ELSE /\ DropMemory(r)
          /\ Goto(r, IF r = "auto" THEN "off" ELSE "idle")
          /\ UNCHANGED backlog
  /\ UNCHANGED <<files, entries, crashes, history>>

-----------------------------------------------------------------------------

RunnerStep(r) ==
  \/ Restore(r) \/ ClearRestored(r) \/ FindEmpty(r) \/ SaveInflight(r) \/ SaveRest(r)
  \/ Answer(r)
  \/ AuditSuccess(r) \/ AuditRetrying(r) \/ AuditFailed(r) \/ EndAudit(r)
  \/ Requeue(r) \/ Clear(r)

Next == \/ \E p \in Paths : Enqueue(p)
        \/ \E r \in Runners : RunnerStep(r) \/ Fault(r)
        \/ Crash

Spec == Init /\ [][Next]_vars

\* What is ready runs: asyncio serves its ready callbacks first in, first out,
\* so a coroutine that waits for the loop to be free again and again gets it.
\* The drain ticks for ever and the health check it makes first succeeds again
\* and again; the HTTP call ends, for it has a total timeout.
Fairness == \A r \in Runners : /\ WF_vars(RunnerStep(r))
                              /\ SF_vars(Restore(r))
                              /\ SF_vars(Answer(r))

FairSpec == Spec /\ Fairness

-----------------------------------------------------------------------------
(* Properties *)

TypeOK == /\ queue \in Seq(Item)
          /\ inflight \in Seq(Item)
          /\ pc \in [Runners -> Outside \union Inside]
          /\ todo \in [Runners -> Seq(Item)]
          /\ tagged \in [Runners -> SUBSET Paths]
          /\ requeue \in [Runners -> Seq(Item)]
          /\ backlog \in BOOLEAN
          /\ entries \in 0..MaxEntries
          /\ crashes \in 0..MaxCrashes
          /\ faults \in 0..MaxFaults
          /\ owed \subseteq Paths
          /\ audited \in [EntryNumbers -> 0..MaxLines]
          /\ closed \in [EntryNumbers -> 0..MaxLines]
          /\ gaveUp \subseteq EntryNumbers

OnDisk == PathsOf(queue) \union PathsOf(inflight)
InMemory(r) == PathsOf(todo[r]) \union PathsOf(requeue[r])

\* A task whose message was acknowledged and that has no closing audit line
\* since is named by the queue file or the in-flight file at every instant,
\* so neither a crash nor an OSError between two file operations loses it
\* (_restore_inflight, _save_inflight before _save_queue, requeue before
\* _clear_inflight).
OwedIsOnDisk == owed \subseteq OnDisk

\* A task that is owed is on disk or in the batch of a living coroutine that
\* will requeue it or close it, whatever became of the in-flight file, which
\* under auto-run two coroutines write and remove.
OwedIsInHand == owed \subseteq OnDisk \union UNION {InMemory(r) : r \in Runners}

\* Work is repeated only because of a failure: an entry gets one closing line
\* and at most MaxAttempts audit lines, and one more of each for every crash
\* or OSError (at-least-once delivery to the tagger, never more).
RepeatsNeedFailures ==
  \A e \in EntryNumbers :
    /\ closed[e] <= 1 + crashes + faults
    /\ audited[e] <= MaxAttempts + crashes + faults

\* Between two runs of run_tagger_once a path leaves the queue file only for
\* the in-flight file: the record of a pick is written before the pick.
PickedAfterRecorded ==
  [][PathsOf(queue) \ PathsOf(queue') \subseteq PathsOf(inflight')]_vars

\* "failed" closes an entry: without a crash or an OSError, no audit line is
\* written for an entry that was given up.
GivenUpStaysGivenUp ==
  [][crashes' = 0 /\ faults' = 0 =>
       \A e \in gaveUp : audited'[e] = audited[e]]_vars

\* Every accepted task is audited to an end, across the crashes and faults
\* that happen: a failing head that goes back to the front of the queue runs
\* out of attempts and lets the others through.
OwedIsSettled == \A p \in Paths : p \in owed ~> p \notin owed

-----------------------------------------------------------------------------
(* The two files and the batch in memory implement a durable worklist. *)

Worklist == INSTANCE DurableWorklist WITH held <- OnDisk, due <- owed

ImplementsWorklist == Worklist!WorklistSpec
=============================================================================
