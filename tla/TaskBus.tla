------------------------------- MODULE TaskBus -------------------------------
(***************************************************************************)
(* What publish_tagger_task_with_result promises to its callers, the image *)
(* pipeline and the outbox relay: (True, None) is said of a task only when *)
(* the stream has it.  (False, error) says nothing: the task may be stored *)
(* already, or be stored later, when its caller has gone on to another.    *)
(* ImageHandoff builds on this answer (PublishEnds); NatsPublisher         *)
(* implements it.                                                          *)
(***************************************************************************)
CONSTANTS
  Callers,               \* each has one task in work at a time
  Tasks, NoTask

VARIABLES
  stored,                \* the tasks in the stream
  task,                  \* what each caller has in work
  answer                 \* what it was told last, "none" while it waits

busVars == <<stored, task, answer>>

BusInit == /\ stored = {}
           /\ task = [c \in Callers |-> NoTask]
           /\ answer = [c \in Callers |-> "none"]

\* A caller has a task published, a new one or one that failed.
Submit(c, t) == /\ task[c] = NoTask
                /\ task' = [task EXCEPT ![c] = t]
                /\ answer' = [answer EXCEPT ![c] = "none"]
                /\ UNCHANGED stored

\* The stream stores a task, whether or not its caller still waits.
Arrive(t) == stored' = stored \union {t} /\ UNCHANGED <<task, answer>>

Report(c, result) == /\ task[c] # NoTask
                     /\ result = "ok" => task[c] \in stored
                     /\ task' = [task EXCEPT ![c] = NoTask]
                     /\ answer' = [answer EXCEPT ![c] = result]
                     /\ UNCHANGED stored

\* The caller is cancelled and is told nothing.
Abandon(c) == /\ task[c] # NoTask
              /\ task' = [task EXCEPT ![c] = NoTask]
              /\ UNCHANGED <<stored, answer>>

BusNext == \/ \E t \in Tasks : Arrive(t)
           \/ \E c \in Callers : \/ \E t \in Tasks : Submit(c, t)
                                \/ Report(c, "ok") \/ Report(c, "failed")
                                \/ Abandon(c)

BusSpec == BusInit /\ [][BusNext]_busVars
=============================================================================
