---------------------------- MODULE TaggerWorker ----------------------------
(***************************************************************************)
(* tagger_worker.py: how the processor takes tasks from JetStream and puts *)
(* them into its queue file, in a process that WorkerLifecycle ends and    *)
(* starts again.  JetStream keeps a message until it is acknowledged and   *)
(* delivers it at most max_deliver times; nats-py hands the messages it    *)
(* has received to _on_message one after the other.  The queue file is     *)
(* DurableWorklist, which TaggerQueue implements.                          *)
(***************************************************************************)
EXTENDS WorkerLifecycle, Sequences, FiniteSets

CONSTANTS
  Messages,      \* the messages of the stream
  Valid,         \* those among them that decode_task accepts
  MaxDeliver     \* the consumer's max_deliver

ASSUME WorkerAssumption == Valid \subseteq Messages /\ MaxDeliver \in Nat \ {0}

VARIABLES
  msg,           \* in the consumer: "ready", "out", "acked", "spent"
  tries,         \* deliveries so far
  inbox,         \* what nats-py has received and not yet handed over
  hand,          \* the messages in _on_message, one or none
  step,          \* "idle", "enqueue", "ack", "nak"
  held, due,     \* the queue file, see DurableWorklist
  settled        \* the messages whose image got its outcome

INSTANCE DurableWorklist WITH Paths <- Messages

client     == <<inbox, hand, step>>
messaging  == <<msg, tries, inbox, hand, step, held, due, settled>>
workerVars == <<stop, asked, natsClosed, liveness, link, worker, health, main, code,
                troubles, msg, tries, inbox, hand, step, held, due, settled>>

Init == /\ LifeInit
        /\ msg = [m \in Messages |-> "ready"]
        /\ tries = [m \in Messages |-> 0]
        /\ inbox = <<>> /\ hand = {} /\ step = "idle"
        /\ WorklistInit
        /\ settled = {}

-----------------------------------------------------------------------------
(* JetStream *)

UnchangedLife == UNCHANGED <<stop, asked, natsClosed, liveness, link, worker,
                             health, main, code>>

\* A message that comes back is delivered again or, after max_deliver
\* deliveries, never more.
Returned_OneMore(m) == [msg EXCEPT ![m] = IF tries[m] <= MaxDeliver THEN "ready" ELSE "spent"]
Returned(m) == [msg EXCEPT ![m] = IF tries[m] < MaxDeliver THEN "ready" ELSE "spent"]

\* The delivery may be lost on the way.
Deliver(m) ==
  /\ Alive /\ Subscribed /\ link = "up"
  /\ msg[m] = "ready"
  /\ msg' = [msg EXCEPT ![m] = "out"]
  /\ tries' = [tries EXCEPT ![m] = @ + 1]
  /\ \/ inbox' = Append(inbox, m) /\ NoTrouble
     \/ UNCHANGED inbox /\ Trouble
  /\ UnchangedLife /\ UNCHANGED <<hand, step, held, due, settled>>

\* ack_wait is over: expected when no copy is left with a worker, a trouble
\* when the worker is merely slow.
AckWaitRunsOut(m) ==
  /\ msg[m] = "out"
  /\ msg' = Returned(m)
  /\ IF m \in hand \/ \E i \in DOMAIN inbox : inbox[i] = m THEN Trouble ELSE NoTrouble
  /\ UnchangedLife /\ UNCHANGED <<tries, client, held, due, settled>>

-----------------------------------------------------------------------------
(* _on_message *)

\* What is sent for a message that cannot be decoded.
InvalidReply_Nak == "nak"
InvalidReply == "ack"

\* decode_task and _resolve_task_image_path, which at times finds no file, and
\* at times raises: it is not in the try, and the message gets no reply at all.
Take ==
  /\ Alive /\ hand = {} /\ inbox # <<>>
  /\ LET m == Head(inbox)
     IN \/ m \notin Valid /\ hand' = {m} /\ step' = InvalidReply /\ NoTrouble
        \/ m \in Valid /\ hand' = {m} /\ step' = "enqueue" /\ NoTrouble
        \/ m \in Valid /\ hand' = {m} /\ step' = "nak" /\ Trouble
        \/ m \in Valid /\ UNCHANGED <<hand, step>> /\ Trouble
  /\ inbox' = Tail(inbox)
  /\ UnchangedLife /\ UNCHANGED <<msg, tries, held, due, settled>>

\* enqueue_tagger_task_payload and the start of an automatic run; an exception
\* of either is a failure.
Enqueue_AnyHow(m) ==
  /\ Alive /\ m \in hand /\ step = "enqueue"
  /\ \/ Accept(m) /\ NoTrouble
     \/ UNCHANGED <<held, due>> /\ Trouble
  /\ step' = "ack"
  /\ UnchangedLife /\ UNCHANGED <<msg, tries, inbox, hand, settled>>
Enqueue(m) ==
  /\ Alive /\ m \in hand /\ step = "enqueue"
  /\ \/ Accept(m) /\ step' = "ack" /\ NoTrouble
     \/ (Accept(m) \/ UNCHANGED <<held, due>>) /\ step' = "nak" /\ Trouble
  /\ UnchangedLife /\ UNCHANGED <<msg, tries, inbox, hand, settled>>

\* _ack_or_nak_message: an exception is only logged.  A reply reaches JetStream
\* if the connection is up; if it is lost, when it is back or never.
Reply(m) ==
  /\ Alive /\ m \in hand /\ step \in {"ack", "nak"}
  /\ \/ /\ link \in {"up", "lost"}
        /\ msg' = IF step = "ack" THEN [msg EXCEPT ![m] = "acked"]
                  ELSE IF msg[m] = "out" THEN Returned(m) ELSE msg
        /\ NoTrouble
     \/ link # "up" /\ UNCHANGED msg /\ NoTrouble
     \/ link = "up" /\ UNCHANGED msg /\ Trouble
  /\ hand' = {} /\ step' = "idle"
  /\ UnchangedLife /\ UNCHANGED <<tries, inbox, held, due, settled>>

-----------------------------------------------------------------------------

\* The tagger gives an image its outcome, and the files forget it: TaggerQueue.
Tag == /\ \/ \E m \in Messages : Settle(m) /\ settled' = settled \union {m}
          \/ held' \in SUBSET held /\ Forget /\ UNCHANGED settled
       /\ UnchangedLife /\ UNCHANGED <<troubles, msg, tries, client>>

\* A process that ends takes with it what it has received and not replied to.
Process(steps) ==
  /\ steps
  /\ IF main' = "exited" THEN inbox' = <<>> /\ hand' = {} /\ step' = "idle"
                         ELSE UNCHANGED client
  /\ UNCHANGED <<msg, tries, held, due, settled>>

Handle == Take \/ \E m \in Messages : Enqueue(m) \/ Reply(m)

Next == \/ Process(LifeNext)
        \/ \E m \in Messages : Deliver(m) \/ AckWaitRunsOut(m)
        \/ Handle
        \/ Tag

Spec == Init /\ [][Next]_workerVars

\* The tasks of the process get their turn, awaits of the worker's set-up and
\* of its backlog end, docker starts the process again, and JetStream delivers
\* and redelivers.  Nothing is assumed of nats.connect or of a lost connection.
Fairness == /\ WF_workerVars(Process(HealthStep))
            /\ WF_workerVars(Process(WorkerStep))
            /\ WF_workerVars(Process(MainStep))
            /\ WF_workerVars(Process(Restart))
            /\ WF_workerVars(Handle)
            /\ \A m \in Messages : /\ WF_workerVars(Deliver(m))
                                  /\ WF_workerVars(AckWaitRunsOut(m))

FairSpec == Spec /\ Fairness

-----------------------------------------------------------------------------
(* Properties *)

\* Every variable has its type; no message is delivered too often.
TypeOK == /\ LifeTypeOK
          /\ msg \in [Messages -> {"ready", "out", "acked", "spent"}]
          /\ tries \in [Messages -> 0..MaxDeliver]
          /\ inbox \in Seq(Messages)
          /\ hand \subseteq Messages /\ (hand = {} <=> step = "idle")
          /\ step \in {"idle", "enqueue", "ack", "nak"}
          /\ held \subseteq Messages /\ due \subseteq held
          /\ settled \subseteq Messages

\* No task is lost between JetStream and the queue file: what JetStream may
\* forget is named by the file or has its outcome, through crashes, failing
\* writes, and replies and deliveries that are lost or late.
AckedIsTakenOver ==
  \A m \in Valid : msg[m] = "acked" => m \in held \union settled

\* Every delivery but the first has a cause: no message comes again that was
\* dealt with, one that can never be decoded included.
RepeatsNeedTroubles == \A m \in Messages : tries[m] <= 1 + troubles

\* The worker is not for ever kept from its work by NATS.
NatsReturns == []<>(worker # "connect" /\ link # "lost")

\* Every message is acknowledged in the end, by this process or one after it,
\* unless there were as many troubles as deliveries: no process is left
\* without its subscription, and none waits for NATS that is there.
MessagesConclude ==
  NatsReturns =>
    \A m \in Messages :
      <>(msg[m] = "acked" \/ (msg[m] = "spent" /\ troubles >= MaxDeliver))
=============================================================================
