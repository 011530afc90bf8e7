--------------------------- MODULE WorkerLifecycle ---------------------------
(***************************************************************************)
(* The processor's process: main (main.py) runs a health server and the    *)
(* tagger worker (_run of tagger_worker.py) as two tasks that share a stop *)
(* event; the worker lives on one NATS connection whose callbacks tell the *)
(* health server and, when the connection is closed for good, stop the     *)
(* process with a code of its own.  The container runtime starts it again. *)
(*                                                                         *)
(* A step is what one await does and the synchronous code after it; the    *)
(* callbacks of the connection are part of the step that changes it.       *)
(* TaggerWorker composes this module with the messages the worker takes.   *)
(*                                                                         *)
(* An operator with an underscore in its name is a faulty variant of the   *)
(* operator that follows it; no behaviour of Spec uses one.                *)
(***************************************************************************)
EXTENDS Naturals

CONSTANT MaxTroubles     \* bound: signals, failures, crashes, lost links

ASSUME TroublesAssumption == MaxTroubles \in Nat

VARIABLES
  stop,          \* stop_event, the worker's shutdown_event
  asked,         \* a signal has asked the process to stop
  natsClosed,    \* the worker's event of that name
  liveness,      \* _NATS_LIVENESS: required and connected
  link,          \* the worker's connection; "lost" while nats-py reconnects
  worker,        \* where the worker task is
  health,        \* where the health task is
  main,          \* where _main is; "exited" once the process has ended
  code,          \* the exit code, once it is decided
  troubles

lifeVars == <<stop, asked, natsClosed, liveness, link, worker, health, main,
              code, troubles>>

NotRequired == [required |-> FALSE, connected |-> FALSE]

\* A new process.
Fresh == /\ stop' = FALSE /\ asked' = FALSE /\ natsClosed' = FALSE
         /\ liveness' = NotRequired
         /\ link' = "none"
         /\ worker' = "connect" /\ health' = "starting" /\ main' = "wait"
         /\ code' = 0

LifeInit == /\ stop = FALSE /\ asked = FALSE /\ natsClosed = FALSE
            /\ liveness = NotRequired
            /\ link = "none"
            /\ worker = "connect" /\ health = "starting" /\ main = "wait"
            /\ code = 0
            /\ troubles = 0

-----------------------------------------------------------------------------
(* Helpers *)

Alive == main # "exited"
WorkerDone == worker \in {"returned", "raised"}
HealthDone == health \in {"ended", "failed"}
Subscribed == worker \in {"backlog", "serve"}

Trouble   == troubles < MaxTroubles /\ troubles' = troubles + 1
NoTrouble == UNCHANGED troubles

\* set_nats_connected
Connected(c) == liveness' = [liveness EXCEPT !.connected = c]

\* worker_is_healthy, what /health answers with 200 or 503
Healthy == liveness.required => liveness.connected

\* _request_shutdown, for SIGINT and SIGTERM
Signal == /\ Alive /\ ~stop
          /\ stop' = TRUE /\ asked' = TRUE
          /\ Trouble
          /\ UNCHANGED <<natsClosed, liveness, link, worker, health, main, code>>

-----------------------------------------------------------------------------
(* run_health_server *)

HealthStep ==
  /\ Alive
  /\ \/ health = "starting" /\ health' = "serving" /\ NoTrouble
     \/ health = "starting" /\ health' = "failed" /\ Trouble
     \/ health = "serving" /\ stop /\ health' = "ended" /\ NoTrouble
  /\ UNCHANGED <<stop, asked, natsClosed, liveness, link, worker, main, code>>

-----------------------------------------------------------------------------
(* The connection: _make_nats_lifecycle_callbacks *)

LinkLost == /\ Alive /\ link = "up"
            /\ link' = "lost"
            /\ Connected(FALSE)
            /\ Trouble
            /\ UNCHANGED <<stop, asked, natsClosed, worker, health, main, code>>

OnReconnected_Untold == UNCHANGED liveness
OnReconnected == Connected(TRUE)

LinkBack == /\ Alive /\ link = "lost"
            /\ link' = "up"
            /\ OnReconnected
            /\ NoTrouble
            /\ UNCHANGED <<stop, asked, natsClosed, worker, health, main, code>>

OnClosed_Unnoticed == Connected(FALSE) /\ UNCHANGED <<stop, natsClosed>>
OnClosed_CodeLost  == Connected(FALSE) /\ stop' = TRUE /\ UNCHANGED natsClosed
OnClosed == /\ Connected(FALSE)
            /\ IF stop THEN UNCHANGED <<stop, natsClosed>>
                       ELSE stop' = TRUE /\ natsClosed' = TRUE

\* nats-py gives the connection up, whatever max_reconnect_attempts says.
LinkClosed == /\ Alive /\ link = "lost"
              /\ link' = "closed"
              /\ OnClosed
              /\ Trouble
              /\ UNCHANGED <<asked, worker, health, main, code>>

-----------------------------------------------------------------------------
(* _run *)

\* max_reconnect_attempts=-1: nats.connect returns when NATS is there; it does
\* not look at the stop event.
WorkerConnects ==
  /\ Alive /\ worker = "connect"
  /\ worker' = "setup"
  /\ link' = "up"
  /\ liveness' = [required |-> TRUE, connected |-> TRUE]
  /\ UNCHANGED <<stop, asked, natsClosed, health, main, code, troubles>>

\* The stream is reconciled and the consumer is subscribed.
WorkerSubscribes ==
  /\ Alive /\ worker = "setup" /\ link = "up"
  /\ worker' = "backlog"
  /\ UNCHANGED <<stop, asked, natsClosed, liveness, link, health, main, code, troubles>>

\* An exception leaves _run; the connection is not closed.
WorkerRaises ==
  /\ Alive
  /\ \/ worker \in {"connect", "setup", "backlog"} /\ Trouble
     \/ worker = "setup" /\ link # "up" /\ NoTrouble
  /\ worker' = "raised"
  /\ UNCHANGED <<stop, asked, natsClosed, liveness, link, health, main, code>>

\* run_tagger_until_empty is through, or was skipped; it does not look at the
\* stop event either.
WorkerServes ==
  /\ Alive /\ worker = "backlog"
  /\ worker' = "serve"
  /\ UNCHANGED <<stop, asked, natsClosed, liveness, link, health, main, code, troubles>>

\* The stop event: the drain task is cancelled first.
WorkerStops ==
  /\ Alive /\ worker = "serve" /\ stop
  /\ worker' = "closing"
  /\ UNCHANGED <<stop, asked, natsClosed, liveness, link, health, main, code, troubles>>

\* nc.drain closes a connection that is up, or raises; its closed callback
\* comes after the stop event.
WorkerReturns ==
  /\ Alive /\ worker = "closing"
  /\ link' \in IF link = "up" THEN {"up", "closed"} ELSE {link}
  /\ liveness' = NotRequired
  /\ worker' = "returned"
  /\ UNCHANGED <<stop, asked, natsClosed, health, main, code, troubles>>

ReturnCode == IF natsClosed THEN 1 ELSE 0

-----------------------------------------------------------------------------
(* _main *)

\* `return worker_task.result()`, or its exception
WorkerResult == code' = IF worker = "raised" THEN 1 ELSE ReturnCode

\* asyncio.wait(FIRST_COMPLETED) wakes up.
MainWakes ==
  /\ main = "wait"
  /\ \/ /\ WorkerDone
        /\ WorkerResult
        /\ main' = "settle" /\ stop' = TRUE
     \/ /\ ~WorkerDone /\ health = "failed"
        /\ code' = 1
        /\ main' = "settle" /\ stop' = TRUE
     \/ /\ ~WorkerDone /\ health = "ended"
        /\ main' = "join" /\ stop' = TRUE
        /\ UNCHANGED code
  /\ UNCHANGED <<asked, natsClosed, liveness, link, worker, health, troubles>>

\* `return await worker_task`, which nothing bounds.
MainJoins ==
  /\ main = "join" /\ WorkerDone
  /\ WorkerResult
  /\ main' = "settle"
  /\ UNCHANGED <<stop, asked, natsClosed, liveness, link, worker, health, troubles>>

\* _wait_for_shutdown: ten seconds after the stop event a task is cancelled.
\* Where the worker waits for the event, it is cancelled in closing at worst.
Overdue_Awaited == FALSE
Overdue == main = "settle" /\ ~WorkerDone

WorkerCancelled ==
  /\ Overdue /\ HealthDone
  /\ worker' = "raised"
  /\ UNCHANGED <<stop, asked, natsClosed, liveness, link, health, main, code, troubles>>

HealthCancelled ==
  /\ main = "settle" /\ ~HealthDone
  /\ health' = "ended"
  /\ UNCHANGED <<stop, asked, natsClosed, liveness, link, worker, main, code, troubles>>

Exit ==
  /\ main = "settle" /\ WorkerDone /\ HealthDone
  /\ main' = "exited"
  /\ UNCHANGED <<stop, asked, natsClosed, liveness, link, worker, health, code, troubles>>

-----------------------------------------------------------------------------
(* Around the process *)

\* Killed, out of memory, power.
Crash == /\ Alive
         /\ main' = "exited" /\ code' = 137
         /\ Trouble
         /\ UNCHANGED <<stop, asked, natsClosed, liveness, link, worker, health>>

\* docker-compose.yml: restart: unless-stopped
Restart == ~Alive /\ Fresh /\ NoTrouble

LinkStep   == LinkLost \/ LinkBack \/ LinkClosed
WorkerStep == \/ WorkerSubscribes \/ WorkerRaises \/ WorkerServes
              \/ WorkerStops \/ WorkerReturns \/ WorkerCancelled
MainStep   == MainWakes \/ MainJoins \/ HealthCancelled \/ Exit

LifeNext == \/ Signal \/ HealthStep \/ LinkStep
            \/ WorkerConnects \/ WorkerStep \/ MainStep
            \/ Crash \/ Restart

-----------------------------------------------------------------------------
(* Properties *)

\* Every variable has its type.
LifeTypeOK ==
  /\ stop \in BOOLEAN /\ asked \in BOOLEAN /\ natsClosed \in BOOLEAN
  /\ liveness \in [required : BOOLEAN, connected : BOOLEAN]
  /\ link \in {"none", "up", "lost", "closed"}
  /\ worker \in {"connect", "setup", "backlog", "serve", "closing", "returned",
                 "raised"}
  /\ health \in {"starting", "serving", "ended", "failed"}
  /\ main \in {"wait", "join", "settle", "exited"}
  /\ code \in {0, 1, 137}
  /\ troubles \in 0..MaxTroubles

\* "The worker can never end up silently alive-but-disconnected": from the
\* moment it is connected until it returns, /health says what the
\* connection is, through every reconnection.
SilentWorkerIsReported ==
  Alive /\ worker \in {"setup", "backlog", "serve", "closing"}
    => (Healthy <=> link = "up")

\* The process exits with 0 only if it was asked to stop; when its connection
\* is closed under it, or a task of it fails, the exit code says so, whichever
\* of its two tasks main sees end first.
ZeroMeansAsked == ~Alive /\ code = 0 => asked

\* A process whose connection is closed for good ends, also while its worker
\* is still being set up; so does one whose health server fails, for the wait
\* for the worker is bounded there; and one that is asked to stop, unless the
\* worker has yet to reach NATS.
MustEnd == \/ link = "closed"
           \/ Alive /\ health = "failed"
           \/ Alive /\ stop /\ worker # "connect"
ProcessEnds == MustEnd ~> ~Alive
=============================================================================
