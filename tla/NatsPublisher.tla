---------------------------- MODULE NatsPublisher ----------------------------
(***************************************************************************)
(* chat_image/nats_publisher.py of the logger: the connection, the         *)
(* JetStream context and the set of ensured streams are module globals     *)
(* that the outbox relay and the handlers of all connections share; a lock *)
(* guards the making of a connection and nothing else.                     *)
(*                                                                         *)
(* A step is what one await does and the synchronous code after it.  A     *)
(* connection is the number of its nats.connect; nats-py reconnects a lost *)
(* one by itself for some time and then closes it, and sends what was      *)
(* published meanwhile when it succeeds.  So a task may reach the stream   *)
(* when its call has long ended and its caller publishes another one; an   *)
(* answer is that to one publish.  Nobody else changes the stream.         *)
(*                                                                         *)
(* An operator with an underscore in its name is a faulty variant of the   *)
(* operator that follows it; no behaviour of Spec uses one.                *)
(***************************************************************************)
EXTENDS Naturals, FiniteSets

CONSTANTS
  Callers,       \* coroutines that call publish_tagger_task_with_result
  Relay,         \* the one among them that is the outbox relay
  Tasks, NoTask, \* what they publish, more than once if they have to
  MaxClients,    \* bound: connections made
  MaxOutages     \* bound: connections lost

ASSUME CallersAssumption == Relay \in Callers
ASSUME TasksAssumption == NoTask \notin Tasks /\ Tasks # {}
ASSUME PublisherBounds == MaxOutages \in Nat /\ MaxClients \in Nat

Clients == 1..MaxClients

VARIABLES
  client,        \* _nats_client, 0 for None
  context,       \* the connection _jetstream_context belongs to, 0 for None
  ensured,       \* the stream is in _ensured_streams
  ahead,         \* ahead[c]: the callers before c at _nats_connect_lock
  pc,            \* where each call is
  js,            \* the connection of the context the call holds
  task,          \* the task the call publishes
  result,        \* what the caller's last call returned
  link,          \* of each connection
  stream,        \* what NATS has: no stream, one configured otherwise, ours
  stored,        \* the tasks that the stream has got
  late,          \* the tasks of ended calls that may still get there
  answered,      \* the calls whose publish has its answer under way
  made,          \* connections made so far
  outages,       \* connections lost so far
  phase          \* "running", "stopping", "closed"

globals == <<client, context, ensured>>
call    == <<task, result>>
calls   == <<ahead, pc, js, task, result>>
traffic == <<stored, late, answered>>
nats    == <<link, stream, stored, late, answered>>
pubVars == <<client, context, ensured, ahead, pc, js, task, result, link, stream,
             stored, late, answered, made, outages, phase>>

AtLock == {"lock", "connect"}            \* holds the lock or waits for it
InWork == AtLock \union {"info", "update", "add", "publish"}

Init == /\ client = 0 /\ context = 0 /\ ensured = FALSE
        /\ ahead = [c \in Callers |-> {}]
        /\ pc = [c \in Callers |-> "idle"]
        /\ js = [c \in Callers |-> 0]
        /\ task = [c \in Callers |-> NoTask]
        /\ result = [c \in Callers |-> "none"]
        /\ link = [k \in Clients |-> "unused"]
        /\ stream \in {"absent", "other", "ours"}
        /\ stored = {} /\ late = {} /\ answered = {}
        /\ made = 0 /\ outages = 0
        /\ phase = "running"

-----------------------------------------------------------------------------
(* Helpers *)

\* _nats_client is not None and _nats_client.is_connected
Usable_Remembered == client # 0
Usable == client # 0 /\ link[client] = "up"

LockUsers == {c \in Callers : pc[c] \in AtLock}

\* asyncio.Lock is first come, first served.
Release(c) == ahead' = [d \in Callers |-> ahead[d] \ {c}]

Goto(c, label) == pc' = [pc EXCEPT ![c] = label]

\* The call ends, with (ok, error) or with an exception its try turns into it.
Return(c, answer) == /\ Goto(c, "idle")
                     /\ js' = [js EXCEPT ![c] = 0]
                     /\ task' = [task EXCEPT ![c] = NoTask]
                     /\ result' = [result EXCEPT ![c] = answer]

\* With a connection in hand, _get_or_create_jetstream and the look into
\* _ensured_streams follow without an await.
UseContext(c) == /\ context' = IF context = 0 THEN client ELSE context
                 /\ js' = [js EXCEPT ![c] = context']
                 /\ Goto(c, IF ensured THEN "publish" ELSE "info")
                 /\ UNCHANGED client

Proceed_EnsuredEarly(c) == UseContext(c) /\ ensured' = TRUE
Proceed(c) == UseContext(c) /\ UNCHANGED ensured

-----------------------------------------------------------------------------
(* _get_or_connect_nats *)

\* The relay and the handlers call again and again, also while the process
\* is being stopped.
Begin(c) ==
  /\ pc[c] = "idle"
  /\ phase # "closed"
  /\ \/ Usable /\ Proceed(c) /\ UNCHANGED ahead
     \/ /\ ~Usable
        /\ ahead' = [ahead EXCEPT ![c] = LockUsers]
        /\ Goto(c, IF LockUsers = {} THEN "connect" ELSE "lock")
        /\ UNCHANGED <<globals, js>>
  /\ \E t \in Tasks : task' = [task EXCEPT ![c] = t]
  /\ result' = [result EXCEPT ![c] = "none"]
  /\ UNCHANGED <<nats, made, outages, phase>>

\* The lock is ours: somebody may have connected meanwhile.
LockTaken_Unchecked(c) ==
  /\ pc[c] = "lock" /\ ahead[c] = {}
  /\ Goto(c, "connect")
  /\ UNCHANGED <<globals, ahead, js, call, nats, made, outages, phase>>
LockTaken(c) ==
  /\ pc[c] = "lock" /\ ahead[c] = {}
  /\ \/ Usable /\ Proceed(c) /\ Release(c)
     \/ ~Usable /\ Goto(c, "connect") /\ UNCHANGED <<globals, ahead, js>>
  /\ UNCHANGED <<call, nats, made, outages, phase>>

\* What the globals are after a successful nats.connect.
Adopt_NoContext(k) == client' = k /\ context' = 0 /\ ensured' = FALSE
Adopt(k) == client' = k /\ context' = k /\ ensured' = FALSE

Connected(c) ==
  /\ pc[c] = "connect"
  /\ made < MaxClients
  /\ made' = made + 1
  /\ link' = [link EXCEPT ![made'] = "up"]
  /\ Adopt(made')
  /\ js' = [js EXCEPT ![c] = context']
  /\ Goto(c, "info")
  /\ Release(c)
  /\ UNCHANGED <<call, stream, traffic, outages, phase>>

NotConnected_Locked(c) ==
  /\ pc[c] = "connect"
  /\ Return(c, "failed")
  /\ UNCHANGED <<globals, ahead, nats, made, outages, phase>>
NotConnected(c) ==
  /\ pc[c] = "connect"
  /\ Return(c, "failed")
  /\ Release(c)
  /\ UNCHANGED <<globals, nats, made, outages, phase>>

-----------------------------------------------------------------------------
(* _ensure_stream: any exception of stream_info is taken for a missing     *)
(* stream.  The key goes into the set the module has by then.              *)

Up(c) == link[js[c]] = "up"

Ensured(c) == ensured' = TRUE /\ Goto(c, "publish")

InfoAnswered(c) ==
  /\ pc[c] = "info" /\ Up(c)
  /\ \/ stream = "absent" /\ Goto(c, "add") /\ UNCHANGED ensured
     \/ stream = "other" /\ Goto(c, "update") /\ UNCHANGED ensured
     \/ stream = "ours" /\ Ensured(c)
  /\ UNCHANGED <<client, context, ahead, js, call, nats, made, outages, phase>>

InfoFails(c) ==
  /\ pc[c] = "info"
  /\ Goto(c, "add")
  /\ UNCHANGED <<globals, ahead, js, call, nats, made, outages, phase>>

\* add_stream succeeds as well when the same stream is there already.
Added(c) ==
  /\ pc[c] = "add" /\ Up(c) /\ stream # "other"
  /\ stream' = "ours"
  /\ Ensured(c)
  /\ UNCHANGED <<client, context, ahead, js, call, link, traffic, made, outages, phase>>

Updated(c) ==
  /\ pc[c] = "update" /\ Up(c)
  /\ stream' = "ours"
  /\ Ensured(c)
  /\ UNCHANGED <<client, context, ahead, js, call, link, traffic, made, outages, phase>>

\* Refused, or the answer is lost: the stream is as it was or as asked for.
EnsureFails(c) ==
  /\ pc[c] \in {"add", "update"}
  /\ \/ UNCHANGED stream
     \/ Up(c) /\ (pc[c] = "update" \/ stream # "other") /\ stream' = "ours"
  /\ Return(c, "failed")
  /\ UNCHANGED <<globals, ahead, link, traffic, made, outages, phase>>

-----------------------------------------------------------------------------
(* js.publish *)

\* The stream takes the task of a call, or has it already, and answers.
Stores(c) ==
  /\ pc[c] = "publish" /\ Up(c) /\ c \notin answered
  /\ stream # "absent"
  /\ stored' = stored \union {task[c]}
  /\ answered' = answered \union {c}
  /\ UNCHANGED <<globals, calls, link, stream, late, made, outages, phase>>

Confirmed_Unasked(c) ==
  /\ pc[c] = "publish" /\ Up(c)
  /\ Return(c, "ok")
  /\ answered' = answered \ {c}
  /\ UNCHANGED <<globals, ahead, link, stream, stored, late, made, outages, phase>>
Confirmed(c) ==
  /\ pc[c] = "publish" /\ Up(c) /\ c \in answered
  /\ Return(c, "ok")
  /\ answered' = answered \ {c}
  /\ UNCHANGED <<globals, ahead, link, stream, stored, late, made, outages, phase>>

\* The call ends, the task is under way or in the buffer of its connection, or
\* was refused; an answer that comes finds nobody.
Abandoned(c) == /\ late' \in {late, late \union {task[c]}}
                /\ answered' = answered \ {c}

\* No answer in time, or an error.
NotConfirmed(c) ==
  /\ pc[c] = "publish"
  /\ Abandoned(c)
  /\ Return(c, "failed")
  /\ UNCHANGED <<globals, ahead, link, stream, stored, made, outages, phase>>

\* A task arrives after its call.
ArrivesLate(t) ==
  /\ t \in late /\ stream # "absent"
  /\ stored' = stored \union {t} /\ late' = late \ {t}
  /\ UNCHANGED <<globals, calls, link, stream, answered, made, outages, phase>>

-----------------------------------------------------------------------------
(* nats-py: the life of a connection *)

\* The answers on their way are lost with it.
Lose(k) == /\ link[k] = "up" /\ outages < MaxOutages
           /\ outages' = outages + 1
           /\ link' = [link EXCEPT ![k] = "lost"]
           /\ answered' = {c \in answered : js[c] # k}
           /\ UNCHANGED <<globals, calls, stream, stored, late, made, phase>>

\* Reconnected, or the attempts are used up.
ReconnectEnds(k) == /\ link[k] = "lost"
                    /\ \E state \in {"up", "closed"} : link' = [link EXCEPT ![k] = state]
                    /\ UNCHANGED <<globals, calls, stream, traffic, made, outages, phase>>

-----------------------------------------------------------------------------
(* The end of logger_service.main: run_server has cleaned up its handlers  *)
(* and the relay task is cancelled before close_nats_publisher runs.       *)

Stop == /\ phase = "running"
        /\ phase' = "stopping"
        /\ UNCHANGED <<globals, calls, nats, made, outages>>

\* A cancelled call leaves the lock, as holder or as waiter.
Cancel(c) == /\ phase = "stopping" /\ pc[c] # "gone"
             /\ Goto(c, "gone")
             /\ js' = [js EXCEPT ![c] = 0]
             /\ task' = [task EXCEPT ![c] = NoTask]
             /\ Release(c)
             /\ IF pc[c] = "publish" THEN Abandoned(c) ELSE UNCHANGED <<late, answered>>
             /\ UNCHANGED <<globals, result, link, stream, stored, made, outages, phase>>

\* A connected client is drained, which closes it; a lost one is dropped.
Close == /\ phase = "stopping"
         /\ \A c \in Callers : pc[c] = "gone"
         /\ phase' = "closed"
         /\ client' = 0 /\ context' = 0 /\ ensured' = FALSE
         /\ link' = IF Usable THEN [link EXCEPT ![client] = "closed"] ELSE link
         /\ UNCHANGED <<calls, stream, traffic, made, outages>>

-----------------------------------------------------------------------------

CallStep(c) == \/ LockTaken(c) \/ Connected(c) \/ NotConnected(c)
               \/ InfoAnswered(c) \/ InfoFails(c)
               \/ Added(c) \/ Updated(c) \/ EnsureFails(c)
               \/ Confirmed(c) \/ NotConfirmed(c)

Next == \/ \E c \in Callers : Begin(c) \/ CallStep(c) \/ Stores(c) \/ Cancel(c)
        \/ \E t \in Tasks : ArrivesLate(t)
        \/ \E k \in Clients : Lose(k) \/ ReconnectEnds(k)
        \/ Stop \/ Close

Spec == Init /\ [][Next]_pubVars

\* Every await of a call ends: a connect after a bounded number of attempts,
\* a request at its timeout.  The relay's interval comes round as long as it
\* has rows, and NATS, however often it is away, answers the relay again and
\* again.  A stopped process cancels its tasks.  Nothing is assumed of a lost
\* connection coming back.
Fairness == /\ \A c \in Callers : WF_pubVars(CallStep(c)) /\ WF_pubVars(Cancel(c))
            /\ WF_pubVars(Begin(Relay))
            /\ SF_pubVars(Connected(Relay))
            /\ SF_pubVars(InfoAnswered(Relay))
            /\ SF_pubVars(Added(Relay) \/ Updated(Relay))
            /\ SF_pubVars(Stores(Relay)) /\ SF_pubVars(Confirmed(Relay))

FairSpec == Spec /\ Fairness

-----------------------------------------------------------------------------
(* Properties *)

\* Every variable has its type, and a call in work has a task and, when it
\* sends, a connection.
TypeOK == /\ client \in Clients \union {0}
          /\ context \in Clients \union {0}
          /\ ensured \in BOOLEAN
          /\ ahead \in [Callers -> SUBSET Callers]
          /\ pc \in [Callers -> InWork \union {"idle", "gone"}]
          /\ js \in [Callers -> Clients \union {0}]
          /\ \A c \in Callers : pc[c] \in InWork \ AtLock => js[c] # 0
          /\ task \in [Callers -> Tasks \union {NoTask}]
          /\ \A c \in Callers : pc[c] \in InWork <=> task[c] # NoTask
          /\ result \in [Callers -> {"none", "ok", "failed"}]
          /\ link \in [Clients -> {"unused", "up", "lost", "closed"}]
          /\ stream \in {"absent", "other", "ours"}
          /\ stored \subseteq Tasks /\ late \subseteq Tasks
          /\ answered \subseteq Callers
          /\ made \in 0..MaxClients
          /\ outages \in 0..MaxOutages
          /\ phase \in {"running", "stopping", "closed"}

\* What is remembered as ensured is true, and no task is sent to a stream
\* that is not there: also for the calls that found the key which another
\* call, on a connection replaced since, has added.
EnsuredIsTrue == ensured \/ (\E c \in Callers : pc[c] = "publish") => stream = "ours"

\* However many calls find the connection down at once, each outage makes
\* them connect once: the waiters at the lock look again before they do.
OneClientPerOutage == made <= 1 + outages

\* (True, None) is said of a task only when the stream has that task: not when
\* it has an earlier one of the caller, late, or the answer to another publish.
Bus == INSTANCE TaskBus WITH answer <- result
ImplementsTaskBus == Bus!BusSpec

\* Every call returns, wherever NATS fails and whoever holds the lock, which
\* no call holds on to when it raises.
CallsConclude == \A c \in Callers : pc[c] \in InWork ~> pc[c] \notin InWork

\* A lost connection does not have to come back for tasks to be published
\* again: as long as the process runs, the relay gets one through.
PublishingRecovers == phase = "running" ~> phase # "running" \/ result[Relay] = "ok"
=============================================================================
