------------------------- MODULE TaggerWorkerProofs -------------------------
(***************************************************************************)
(* Theorems about TaggerWorker for every value of its constants, and their *)
(* proofs.                                                                 *)
(***************************************************************************)
EXTENDS TaggerWorker, SequenceTheorems, TLAPS

\* One message at a time is in _on_message.
AloneInHand == \A a, b \in hand : a = b

\* A message that is spent is not ready again.
ReadyIsOwedATry == \A m \in Messages : msg[m] = "ready" => tries[m] < MaxDeliver

WorkerType == TypeOK /\ AloneInHand /\ ReadyIsOwedATry

-----------------------------------------------------------------------------
(* Type correctness *)

\* The parts of LifeTypeOK, which need different provers.
FlagsType    == stop \in BOOLEAN /\ asked \in BOOLEAN /\ natsClosed \in BOOLEAN
LivenessType == liveness \in [required : BOOLEAN, connected : BOOLEAN]
LabelsType   ==
  /\ link \in {"none", "up", "lost", "closed"}
  /\ worker \in {"connect", "setup", "backlog", "serve", "closing", "returned",
                 "raised"}
  /\ health \in {"starting", "serving", "ended", "failed"}
  /\ main \in {"wait", "join", "settle", "exited"}
  /\ code \in {0, 1, 137}
TroublesType == troubles \in 0..MaxTroubles

LEMMA LifeTypeParts ==
  LifeTypeOK <=> FlagsType /\ LivenessType /\ LabelsType /\ TroublesType
BY Zenon DEF LifeTypeOK, FlagsType, LivenessType, LabelsType, TroublesType

LEMMA LifeTypePartsNext ==
  LifeTypeOK' <=> FlagsType' /\ LivenessType' /\ LabelsType' /\ TroublesType'
BY Zenon DEF LifeTypeOK, FlagsType, LivenessType, LabelsType, TroublesType

LEMMA InitType == Init => WorkerType
<1> SUFFICES ASSUME Init
             PROVE  WorkerType
  OBVIOUS
<1>1. LabelsType /\ TroublesType
  BY TroublesAssumption DEF Init, LifeInit, LabelsType, TroublesType
<1>2. FlagsType
  BY Zenon DEF Init, LifeInit, FlagsType
<1>3. LivenessType
  BY DEF Init, LifeInit, NotRequired, LivenessType
<1>4. LifeTypeOK
  BY <1>1, <1>2, <1>3, LifeTypeParts
<1>5. inbox \in Seq(Messages)
  BY EmptySeq DEF Init
<1>6. /\ msg \in [Messages -> {"ready", "out", "acked", "spent"}]
      /\ tries \in [Messages -> 0..MaxDeliver]
      /\ ReadyIsOwedATry
  BY WorkerAssumption DEF Init, ReadyIsOwedATry
<1>7. AloneInHand /\ hand \subseteq Messages /\ (hand = {} <=> step = "idle")
      /\ step \in {"idle", "enqueue", "ack", "nak"}
      /\ held \subseteq Messages /\ due \subseteq held /\ settled \subseteq Messages
  BY DEF Init, WorklistInit, AloneInHand
<1> QED BY <1>4, <1>5, <1>6, <1>7 DEF WorkerType, TypeOK

\* Whatever the process does is either a trouble or not.
LEMMA TroublesOfLife == LifeNext => Trouble \/ NoTrouble
BY Zenon
   DEF NoTrouble, LifeNext, Signal, HealthStep, Crash, Restart, Fresh, LinkStep, LinkLost,
       LinkBack, LinkClosed, WorkerConnects, WorkerStep, WorkerSubscribes, WorkerRaises,
       WorkerServes, WorkerStops, WorkerReturns, WorkerCancelled, MainStep, MainWakes,
       MainJoins, HealthCancelled, Exit

LEMMA TroublesStep == TroublesType /\ (Trouble \/ NoTrouble) => TroublesType'
BY TroublesAssumption DEF TroublesType, Trouble, NoTrouble

LEMMA FlagsStep == FlagsType /\ LifeNext => FlagsType'
BY Zenon
   DEF FlagsType, LifeNext, Signal, HealthStep, Crash, Restart, Fresh, LinkStep, LinkLost,
       LinkBack, LinkClosed, OnClosed, WorkerConnects, WorkerStep, WorkerSubscribes,
       WorkerRaises, WorkerServes, WorkerStops, WorkerReturns, WorkerCancelled, MainStep,
       MainWakes, MainJoins, HealthCancelled, Exit

LEMMA LabelsStep == LabelsType /\ LifeNext => LabelsType'
<1>1. LabelsType /\ (Signal \/ HealthStep \/ Crash \/ Restart) => LabelsType'
  BY DEF LabelsType, Signal, HealthStep, Crash, Restart, Fresh
<1>2. LabelsType /\ LinkStep => LabelsType'
  BY DEF LabelsType, LinkStep, LinkLost, LinkBack, LinkClosed
<1>3. LabelsType /\ (WorkerConnects \/ WorkerStep) => LabelsType'
  BY DEF LabelsType, WorkerConnects, WorkerStep, WorkerSubscribes, WorkerRaises,
         WorkerServes, WorkerStops, WorkerReturns, WorkerCancelled
<1>4. LabelsType /\ MainStep => LabelsType'
  BY DEF LabelsType, MainStep, MainWakes, MainJoins, WorkerResult, ReturnCode,
         HealthCancelled, Exit
<1> QED BY <1>1, <1>2, <1>3, <1>4 DEF LifeNext

LEMMA LivenessStep == LivenessType /\ LifeNext => LivenessType'
<1>1. LivenessType /\ LinkStep => LivenessType'
  BY DEF LivenessType, LinkStep, LinkLost, LinkBack, LinkClosed, OnReconnected, OnClosed,
         Connected
<1>2. LivenessType /\ WorkerConnects => LivenessType'
  BY DEF LivenessType, WorkerConnects
<1>3. LivenessType /\ (WorkerReturns \/ Restart) => LivenessType'
  <2>1. NotRequired \in [required : BOOLEAN, connected : BOOLEAN]
    BY DEF NotRequired
  <2>2. WorkerReturns \/ Restart => liveness' = NotRequired
    BY DEF WorkerReturns, Restart, Fresh
  <2> QED BY <2>1, <2>2 DEF LivenessType
<1>4. LifeNext => LinkStep \/ WorkerConnects \/ WorkerReturns \/ Restart
                  \/ UNCHANGED liveness
  BY Zenon DEF LifeNext, Signal, HealthStep, Crash, WorkerStep, WorkerSubscribes,
               WorkerRaises, WorkerServes, WorkerStops, WorkerCancelled, MainStep,
               MainWakes, MainJoins, HealthCancelled, Exit
<1> QED BY <1>1, <1>2, <1>3, <1>4 DEF LivenessType

LEMMA LifeStepType == LifeTypeOK /\ LifeNext => LifeTypeOK'
BY LifeTypeParts, LifeTypePartsNext, FlagsStep, LivenessStep, LabelsStep, TroublesOfLife,
   TroublesStep

\* A message that comes back is ready only if it has a delivery left.
LEMMA ReturnedType ==
  ASSUME WorkerType, NEW m \in Messages
  PROVE  /\ Returned(m) \in [Messages -> {"ready", "out", "acked", "spent"}]
         /\ \A n \in Messages : Returned(m)[n] = "ready" => tries[n] < MaxDeliver
BY DEF WorkerType, TypeOK, ReadyIsOwedATry, Returned

LEMMA NextType == WorkerType /\ [Next]_workerVars => WorkerType'
<1> SUFFICES ASSUME WorkerType, [Next]_workerVars
             PROVE  WorkerType'
  OBVIOUS
<1> USE TroublesAssumption, WorkerAssumption
    DEF WorkerType, AloneInHand, ReadyIsOwedATry, Trouble, NoTrouble
<1>1. ASSUME UnchangedLife, Trouble \/ NoTrouble
      PROVE  LifeTypeOK'
  <2>1. TroublesType'
    BY <1>1, TroublesStep, LifeTypeParts DEF TypeOK
  <2>2. FlagsType'
    BY <1>1, LifeTypeParts, Zenon DEF UnchangedLife, TypeOK, FlagsType
  <2>3. LivenessType' /\ LabelsType'
    BY <1>1, LifeTypeParts DEF UnchangedLife, TypeOK, LivenessType, LabelsType
  <2> QED BY <2>1, <2>2, <2>3, LifeTypePartsNext
<1>3. ASSUME Process(LifeNext)
      PROVE  WorkerType'
  <2>1. LifeTypeOK'
    BY <1>3, LifeStepType DEF Process, TypeOK
  <2>2. inbox' \in Seq(Messages) /\ hand' \in {hand, {}} /\ (hand' = {} <=> step' = "idle")
        /\ step' \in {step, "idle"}
    BY <1>3, EmptySeq DEF Process, client, TypeOK
  <2> QED BY <1>3, <2>1, <2>2 DEF Process, TypeOK
<1>4. ASSUME NEW m \in Messages, Deliver(m)
      PROVE  WorkerType'
  <2>1. Append(inbox, m) \in Seq(Messages)
    BY AppendProperties DEF TypeOK
  <2>2. UnchangedLife /\ (Trouble \/ NoTrouble) /\ inbox' \in Seq(Messages)
    BY <1>4, <2>1 DEF Deliver, TypeOK
  <2>3. /\ msg' \in [Messages -> {"ready", "out", "acked", "spent"}]
        /\ tries' \in [Messages -> 0..MaxDeliver]
        /\ \A n \in Messages : msg'[n] = "ready" => tries'[n] < MaxDeliver
    BY <1>4 DEF Deliver, TypeOK
  <2> QED BY <1>1, <1>4, <2>2, <2>3 DEF Deliver, TypeOK
<1>5. ASSUME NEW m \in Messages, AckWaitRunsOut(m)
      PROVE  WorkerType'
  BY <1>1, <1>5, ReturnedType DEF AckWaitRunsOut, client, TypeOK
<1>6. ASSUME Take
      PROVE  WorkerType'
  <2>1. Head(inbox) \in Messages /\ Tail(inbox) \in Seq(Messages)
    BY <1>6, HeadTailProperties DEF Take, TypeOK
  <2> QED BY <1>1, <1>6, <2>1 DEF Take, InvalidReply, TypeOK
<1>7. ASSUME NEW m \in Messages, Enqueue(m)
      PROVE  WorkerType'
  BY <1>1, <1>7 DEF Enqueue, Accept, TypeOK
<1>8. ASSUME NEW m \in Messages, Reply(m)
      PROVE  WorkerType'
  BY <1>1, <1>8, ReturnedType DEF Reply, TypeOK
<1>9. ASSUME Tag
      PROVE  WorkerType'
  BY <1>1, <1>9 DEF Tag, Settle, Forget, client, TypeOK, LifeTypeOK
<1>10. CASE UNCHANGED workerVars
  BY <1>10 DEF workerVars, TypeOK, LifeTypeOK
<1> QED BY <1>3, <1>4, <1>5, <1>6, <1>7, <1>8, <1>9, <1>10 DEF Next, Handle

\* Every variable keeps its type, and no message is delivered too often.
THEOREM WorkerTypeCorrect == Spec => []TypeOK
<1>1. WorkerType => TypeOK
  BY DEF WorkerType
<1> QED BY <1>1, InitType, NextType, PTL DEF Spec

-----------------------------------------------------------------------------
(* Health and exit code *)

\* From the moment main listens to its tasks, a stop event that is set was set
\* by a signal or by the closed callback, and who sees it set knows.
StopIsExplained ==
  /\ main \in {"wait", "join"} /\ stop => asked \/ natsClosed
  /\ main \in {"join", "settle"} => stop
  /\ main = "wait" /\ health = "ended" => stop
  /\ worker \in {"closing", "returned"} => stop
  /\ main \in {"settle", "exited"} /\ code = 0 => asked

\* What the health server reads is what the connection is.
LivenessIsLink ==
  Alive /\ worker \in {"setup", "backlog", "serve", "closing"} =>
    /\ liveness.required
    /\ liveness.connected <=> link = "up"

LEMMA StopStep ==
  ASSUME FlagsType, LabelsType, StopIsExplained, LifeNext
  PROVE  StopIsExplained'
<1> USE DEF FlagsType, LabelsType, StopIsExplained, Alive, WorkerDone, HealthDone
<1>1. ASSUME Signal \/ HealthStep
      PROVE  StopIsExplained'
  BY <1>1 DEF Signal, HealthStep
<1>5. ASSUME Crash \/ Restart
      PROVE  StopIsExplained'
  BY <1>5 DEF Crash, Restart, Fresh
<1>2. ASSUME LinkStep
      PROVE  StopIsExplained'
  <2>1. /\ \/ UNCHANGED <<stop, natsClosed>>
           \/ stop' = TRUE /\ natsClosed' = TRUE
        /\ UNCHANGED <<asked, worker, health, main, code>>
    BY <1>2, Zenon DEF LinkStep, LinkLost, LinkBack, LinkClosed, OnClosed
  <2> QED BY <2>1
<1>3. ASSUME WorkerConnects \/ WorkerStep
      PROVE  StopIsExplained'
  BY <1>3 DEF WorkerConnects, WorkerStep, WorkerSubscribes, WorkerRaises, WorkerServes,
              WorkerStops, WorkerReturns, WorkerCancelled, Overdue
<1>4. ASSUME MainStep
      PROVE  StopIsExplained'
  BY <1>4 DEF MainStep, MainWakes, MainJoins, WorkerResult, ReturnCode, HealthCancelled, Exit
<1> QED BY <1>1, <1>2, <1>3, <1>4, <1>5 DEF LifeNext

LEMMA LivenessLinkStep ==
  ASSUME LivenessType, LabelsType, LivenessIsLink, LifeNext
  PROVE  LivenessIsLink'
<1> USE DEF LivenessType, LabelsType, LivenessIsLink, Alive
<1>1. ASSUME Signal \/ HealthStep \/ Crash \/ Restart
      PROVE  LivenessIsLink'
  BY <1>1 DEF Signal, HealthStep, Crash, Restart, Fresh
<1>2. ASSUME LinkStep
      PROVE  LivenessIsLink'
  BY <1>2 DEF LinkStep, LinkLost, LinkBack, LinkClosed, OnClosed, OnReconnected, Connected
<1>3. ASSUME WorkerConnects \/ WorkerStep
      PROVE  LivenessIsLink'
  BY <1>3 DEF WorkerConnects, WorkerStep, WorkerSubscribes, WorkerRaises, WorkerServes,
              WorkerStops, WorkerReturns, WorkerCancelled, Overdue
<1>4. ASSUME MainStep
      PROVE  LivenessIsLink'
  BY <1>4 DEF MainStep, MainWakes, MainJoins, HealthCancelled, Exit
<1> QED BY <1>1, <1>2, <1>3, <1>4 DEF LifeNext

\* What the messages do leaves the process as it is.
LEMMA MessagesLeaveLife ==
  ASSUME Tag \/ Handle \/ \E m \in Messages : Deliver(m) \/ AckWaitRunsOut(m)
  PROVE  UnchangedLife
BY Zenon DEF Tag, Handle, Take, Enqueue, Reply, Deliver, AckWaitRunsOut

LEMMA NextStopIsExplained ==
  ASSUME WorkerType, StopIsExplained, LivenessIsLink, [Next]_workerVars
  PROVE  StopIsExplained' /\ LivenessIsLink'
<1>1. FlagsType /\ LivenessType /\ LabelsType
  BY LifeTypeParts DEF WorkerType, TypeOK
<1>2. CASE Process(LifeNext)
  BY <1>1, <1>2, StopStep, LivenessLinkStep DEF Process
<1>3. CASE ~Process(LifeNext)
  <2>1. UnchangedLife
    BY <1>3, MessagesLeaveLife DEF Next, workerVars, UnchangedLife
  <2> QED BY <2>1 DEF UnchangedLife, StopIsExplained, LivenessIsLink, Alive
<1> QED BY <1>2, <1>3

LEMMA InitStopIsExplained == Init => StopIsExplained /\ LivenessIsLink
BY DEF Init, LifeInit, StopIsExplained, LivenessIsLink, NotRequired

\* /health tells the truth about the connection, from the first connect to the
\* return of the worker.
THEOREM HealthTellsOfTheLink == Spec => []SilentWorkerIsReported
<1>1. LivenessIsLink => SilentWorkerIsReported
  BY DEF LivenessIsLink, SilentWorkerIsReported, Healthy
<1> QED BY <1>1, InitStopIsExplained, NextStopIsExplained, InitType, NextType, PTL DEF Spec

\* Whatever ends first, and in whatever state the rest is, a process that was
\* not asked to stop does not exit with 0.
THEOREM ExitCodeTells == Spec => []ZeroMeansAsked
<1>1. LabelsType /\ StopIsExplained => ZeroMeansAsked
  BY DEF StopIsExplained, ZeroMeansAsked, Alive, LabelsType
<1>2. WorkerType => LabelsType
  BY LifeTypeParts DEF WorkerType, TypeOK
<1> QED BY <1>1, <1>2, InitStopIsExplained, NextStopIsExplained, InitType, NextType, PTL
        DEF Spec

-----------------------------------------------------------------------------
(* Acknowledgement *)

\* Before a task is acknowledged the queue file holds it or its image is done.
TakenOver ==
  \A m \in Valid : msg[m] = "acked" \/ (m \in hand /\ step = "ack") => m \in due \union settled

LEMMA NextTakenOver ==
  ASSUME WorkerType, TakenOver, [Next]_workerVars
  PROVE  TakenOver'
<1> USE WorkerAssumption DEF WorkerType, TypeOK, AloneInHand, TakenOver
<1>1. ASSUME Process(LifeNext)
      PROVE  TakenOver'
  BY <1>1 DEF Process, client
<1>2. ASSUME NEW m \in Messages, Deliver(m)
      PROVE  TakenOver'
  BY <1>2 DEF Deliver
<1>3. ASSUME NEW m \in Messages, AckWaitRunsOut(m)
      PROVE  TakenOver'
  BY <1>3 DEF AckWaitRunsOut, Returned, client
<1>4. ASSUME Take
      PROVE  TakenOver'
  BY <1>4 DEF Take
<1>5. ASSUME NEW m \in Messages, Enqueue(m)
      PROVE  TakenOver'
  BY <1>5 DEF Enqueue, Accept
<1>6. ASSUME NEW m \in Messages, Reply(m)
      PROVE  TakenOver'
  BY <1>6 DEF Reply, Returned
<1>7. ASSUME Tag
      PROVE  TakenOver'
  BY <1>7 DEF Tag, Settle, Forget, client
<1>8. CASE UNCHANGED workerVars
  BY <1>8 DEF workerVars
<1> QED BY <1>1, <1>2, <1>3, <1>4, <1>5, <1>6, <1>7, <1>8 DEF Next, Handle

\* No task is between JetStream, that has forgotten it, and the queue file,
\* that has it not yet.
THEOREM NoTaskBetween == Spec => []AckedIsTakenOver
<1>1. WorkerType /\ TakenOver => AckedIsTakenOver
  BY DEF WorkerType, TypeOK, TakenOver, AckedIsTakenOver
<1>2. Init => TakenOver
  BY WorkerAssumption DEF Init, TakenOver
<1> QED BY <1>1, <1>2, NextTakenOver, InitType, NextType, PTL DEF Spec

-----------------------------------------------------------------------------
(* Redelivery: every trouble pays for one delivery of each message.  A      *)
(* trouble that has yet to bring a message back is kept in one of three     *)
(* places: the message is on its way back, or is about to be refused, or    *)
(* the process is about to end with the copies it has.                      *)

Copied(m) == m \in hand \/ \E i \in DOMAIN inbox : inbox[i] = m

Comes(m)   == msg[m] = "ready" \/ (msg[m] = "out" /\ (~Copied(m) \/ link # "up"))
Refused(m) == m \in hand /\ step = "nak"
Doomed     == /\ Alive /\ link # "closed"
              /\ \/ stop \/ worker = "raised" \/ health = "failed"
                 \/ worker = "setup" /\ link # "up"

One(b) == IF b THEN 1 ELSE 0

Accounted ==
  \A m \in Messages :
    tries[m] + One(Comes(m)) + One(Refused(m)) + One(Doomed) <= 1 + troubles

\* A process has copies only once it is subscribed, and a connection only once
\* it is connected.
LifeSoFar ==
  /\ ~Alive \/ worker \in {"connect", "setup"} => inbox = <<>> /\ hand = {}
  /\ Alive /\ worker = "connect" => link = "none"

RepeatsInv == WorkerType /\ StopIsExplained /\ LivenessIsLink /\ LifeSoFar /\ Accounted

LEMMA NextLifeSoFar ==
  ASSUME WorkerType, LifeSoFar, [Next]_workerVars
  PROVE  LifeSoFar'
<1> USE DEF LifeSoFar, Alive
<1>0. LabelsType
  BY LifeTypeParts DEF WorkerType, TypeOK
<1>1. ASSUME Process(LifeNext)
      PROVE  LifeSoFar'
  <2>1. CASE Signal \/ HealthStep \/ MainStep \/ LinkStep
    <3>1. UNCHANGED worker /\ (main' # "exited" => main # "exited")
          /\ (link' # link => link # "none")
      BY <2>1, Zenon
         DEF Signal, HealthStep, MainStep, MainWakes, MainJoins, HealthCancelled, Exit,
             LinkStep, LinkLost, LinkBack, LinkClosed
    <3> QED BY <1>0, <1>1, <3>1 DEF Process, client, LabelsType
  <2>2. CASE WorkerConnects \/ WorkerStep
    BY <1>0, <1>1, <2>2
       DEF Process, client, WorkerConnects, WorkerStep, WorkerSubscribes, WorkerRaises,
           WorkerServes, WorkerStops, WorkerReturns, WorkerCancelled, Overdue, LabelsType
  <2>3. CASE Crash \/ Restart
    BY <1>1, <2>3 DEF Process, client, Crash, Restart, Fresh
  <2> QED BY <1>1, <2>1, <2>2, <2>3 DEF Process, LifeNext
<1>2. ASSUME NEW m \in Messages, Deliver(m)
      PROVE  LifeSoFar'
  BY <1>2 DEF Deliver, UnchangedLife, Subscribed
<1>3. ASSUME NEW m \in Messages, AckWaitRunsOut(m)
      PROVE  LifeSoFar'
  BY <1>3 DEF AckWaitRunsOut, UnchangedLife, client
<1>4. ASSUME Take
      PROVE  LifeSoFar'
  BY <1>4 DEF Take, UnchangedLife
<1>5. ASSUME NEW m \in Messages, Enqueue(m) \/ Reply(m)
      PROVE  LifeSoFar'
  BY <1>5 DEF Enqueue, Reply, UnchangedLife
<1>6. ASSUME Tag
      PROVE  LifeSoFar'
  BY <1>6 DEF Tag, UnchangedLife, client
<1>7. CASE UNCHANGED workerVars
  BY <1>7 DEF workerVars
<1> QED BY <1>1, <1>2, <1>3, <1>4, <1>5, <1>6, <1>7 DEF Next, Handle

\* What a step of the process does to the troubles that are kept.
Spends ==
  \/ main' = "exited" /\ link' = link /\ (Trouble \/ (NoTrouble /\ (Doomed \/ link = "closed")))
  \/ /\ main' # "exited"
     /\ \/ (Doomed' => Doomed) /\ (link = "up" => link' = "up")
        \/ (Doomed' => Doomed) /\ (main = "exited" \/ Trouble)
        \/ (link = "up" => link' = "up") /\ Trouble
        \/ Doomed /\ ~Doomed'
        \/ worker = "setup" /\ Trouble

LEMMA LifeSpends ==
  ASSUME FlagsType, LabelsType, StopIsExplained, LifeSoFar, LifeNext
  PROVE  Spends
<1> USE DEF FlagsType, LabelsType, Spends, Doomed, Alive
<1>1. ASSUME Signal \/ HealthStep
      PROVE  Spends
  BY <1>1 DEF Signal, HealthStep
<1>2. ASSUME LinkLost \/ LinkBack
      PROVE  Spends
  BY <1>2 DEF LinkLost, LinkBack
<1>3. ASSUME LinkClosed
      PROVE  Spends
  BY <1>3 DEF LinkClosed
<1>4. ASSUME WorkerConnects
      PROVE  Spends
  BY <1>4 DEF WorkerConnects, LifeSoFar
<1>5. ASSUME WorkerSubscribes \/ WorkerRaises \/ WorkerServes \/ WorkerStops
      PROVE  Spends
  BY <1>5 DEF WorkerSubscribes, WorkerRaises, WorkerServes, WorkerStops
<1>6. ASSUME WorkerReturns \/ WorkerCancelled
      PROVE  Spends
  BY <1>6 DEF WorkerReturns, WorkerCancelled, Overdue, StopIsExplained
<1>7. ASSUME MainWakes \/ MainJoins \/ HealthCancelled
      PROVE  Spends
  BY <1>7 DEF MainWakes, MainJoins, HealthCancelled, HealthDone, WorkerDone, StopIsExplained
<1>8. ASSUME Exit
      PROVE  Spends
  BY <1>8 DEF Exit, StopIsExplained, NoTrouble
<1>9. ASSUME Crash \/ Restart
      PROVE  Spends
  BY <1>9 DEF Crash, Restart, Fresh
<1> QED BY <1>1, <1>2, <1>3, <1>4, <1>5, <1>6, <1>7, <1>8, <1>9
        DEF LifeNext, LinkStep, WorkerStep, MainStep

LEMMA LifeAccounted ==
  ASSUME RepeatsInv, Process(LifeNext)
  PROVE  Accounted'
<1>1. Spends /\ (Trouble \/ NoTrouble)
  BY LifeTypeParts, LifeSpends, TroublesOfLife DEF RepeatsInv, WorkerType, TypeOK, Process
<1>2. troubles \in Nat /\ (Trouble => troubles' = troubles + 1) /\ (NoTrouble => troubles' = troubles)
  BY DEF RepeatsInv, WorkerType, TypeOK, LifeTypeOK, Trouble, NoTrouble
<1>3. UNCHANGED <<msg, tries>>
  BY DEF Process
<1> SUFFICES ASSUME NEW m \in Messages
             PROVE  tries[m] + One(Comes(m)') + One(Refused(m)') + One(Doomed') <= 1 + troubles'
  BY <1>3 DEF Accounted, One
<1>4. /\ tries[m] \in Nat
      /\ tries[m] + One(Comes(m)) + One(Refused(m)) + One(Doomed) <= 1 + troubles
  BY DEF RepeatsInv, WorkerType, TypeOK, Accounted
<1>5. CASE main' = "exited"
  <2>1. ~Refused(m)' /\ ~Doomed'
    BY <1>5 DEF Process, Refused, Doomed, Alive
  <2>2. Comes(m)' => Comes(m) \/ link = "up"
    BY <1>1, <1>3, <1>5 DEF Spends, Comes
  <2> QED BY <1>1, <1>2, <1>4, <1>5, <2>1, <2>2 DEF Spends, One
<1>6. CASE main' # "exited"
  <2>1. UNCHANGED <<inbox, hand, step>>
    BY <1>6 DEF Process, client
  <2>2. Refused(m)' <=> Refused(m)
    BY <2>1 DEF Refused
  <2>3. Comes(m)' => \/ Comes(m)
                     \/ link = "up" /\ link' # "up" /\ Copied(m)
    BY <1>3, <2>1 DEF Comes, Copied
  <2>4. Copied(m) => main # "exited" /\ worker # "setup"
    BY DEF RepeatsInv, LifeSoFar, Copied, Alive
  <2> QED BY <1>1, <1>2, <1>4, <1>6, <2>2, <2>3, <2>4 DEF Spends, One
<1> QED BY <1>5, <1>6

LEMMA MessagesAccounted ==
  ASSUME RepeatsInv, UnchangedLife, NEW n \in Messages,
         Handle \/ \E m \in Messages : Deliver(m) \/ AckWaitRunsOut(m)
  PROVE  tries'[n] + One(Comes(n)') + One(Refused(n)') + One(Doomed) <= 1 + troubles'
<1>1. /\ tries[n] \in Nat /\ troubles \in Nat
      /\ tries[n] + One(Comes(n)) + One(Refused(n)) + One(Doomed) <= 1 + troubles
  BY DEF RepeatsInv, WorkerType, TypeOK, LifeTypeOK, Accounted
<1>2. UNCHANGED <<link, main>> /\ inbox \in Seq(Messages)
  BY DEF UnchangedLife, RepeatsInv, WorkerType, TypeOK
<1>3. ASSUME NEW m \in Messages, Deliver(m)
      PROVE  tries'[n] + One(Comes(n)') + One(Refused(n)') + One(Doomed) <= 1 + troubles'
  <2>1. Refused(n)' <=> Refused(n)
    BY <1>3 DEF Deliver, Refused
  <2>2. ASSUME inbox' = Append(inbox, m)
        PROVE  (Copied(n) \/ n = m) => Copied(n)'
    <3>1. /\ Append(inbox, m)[Len(inbox) + 1] = m
          /\ DOMAIN Append(inbox, m) = 1..(Len(inbox) + 1)
          /\ DOMAIN inbox = 1..Len(inbox) /\ Len(inbox) \in Nat
          /\ \A i \in 1..Len(inbox) : Append(inbox, m)[i] = inbox[i]
      BY <1>2, AppendProperties, LenProperties
    <3>2. UNCHANGED hand
      BY <1>3 DEF Deliver
    <3>3. CASE n = m
      <4>1. Len(inbox) + 1 \in DOMAIN inbox' /\ inbox'[Len(inbox) + 1] = n
        BY <2>2, <3>1, <3>3
      <4> QED BY <4>1 DEF Copied
    <3>4. CASE n \in hand
      BY <3>2, <3>4 DEF Copied
    <3>5. ASSUME NEW i \in DOMAIN inbox, inbox[i] = n
          PROVE  Copied(n)'
      <4>1. i \in DOMAIN inbox' /\ inbox'[i] = n
        BY <2>2, <3>1, <3>5
      <4> QED BY <4>1 DEF Copied
    <3> QED BY <3>3, <3>4, <3>5 DEF Copied
  <2>3. UNCHANGED inbox => (Copied(n) => Copied(n)')
    BY <1>3 DEF Copied, Deliver
  <2>4. CASE n = m
    <3>1. Comes(n) /\ tries'[n] = tries[n] + 1
      BY <1>3, <2>4 DEF Deliver, Comes, RepeatsInv, WorkerType, TypeOK
    <3>2. \/ ~Comes(n)' /\ troubles' = troubles
          \/ troubles' = troubles + 1
      BY <1>2, <1>3, <2>2, <2>4 DEF Deliver, Comes, NoTrouble, Trouble, RepeatsInv, WorkerType, TypeOK
    <3> QED BY <1>1, <2>1, <3>1, <3>2 DEF One
  <2>5. CASE n # m
    <3>1. (Comes(n)' => Comes(n)) /\ tries'[n] = tries[n]
      BY <1>2, <1>3, <2>2, <2>3, <2>5 DEF Deliver, Comes, RepeatsInv, WorkerType, TypeOK
    <3>2. troubles' = troubles \/ troubles' = troubles + 1
      BY <1>3 DEF Deliver, NoTrouble, Trouble
    <3> QED BY <1>1, <2>1, <3>1, <3>2 DEF One
  <2> QED BY <2>4, <2>5
<1>4. ASSUME NEW m \in Messages, AckWaitRunsOut(m)
      PROVE  tries'[n] + One(Comes(n)') + One(Refused(n)') + One(Doomed) <= 1 + troubles'
  <2>1. (Refused(n)' <=> Refused(n)) /\ (Copied(n)' <=> Copied(n)) /\ tries' = tries
    BY <1>4 DEF AckWaitRunsOut, client, Refused, Copied
  <2>2. \/ (Comes(n)' => Comes(n)) /\ troubles' = troubles
        \/ troubles' = troubles + 1
    BY <1>2, <1>4, <2>1
       DEF AckWaitRunsOut, Returned, Comes, Copied, NoTrouble, Trouble, RepeatsInv, WorkerType, TypeOK
  <2> QED BY <1>1, <2>1, <2>2 DEF One
<1>5. ASSUME Take
      PROVE  tries'[n] + One(Comes(n)') + One(Refused(n)') + One(Doomed) <= 1 + troubles'
  <2>1. hand' # {} => (Copied(n) => Copied(n)')
    <3>1. /\ Len(Tail(inbox)) = Len(inbox) - 1 /\ Tail(inbox) \in Seq(Messages)
          /\ \A i \in 1..Len(Tail(inbox)) : Tail(inbox)[i] = inbox[i + 1]
          /\ Head(inbox) = inbox[1]
      BY <1>2, <1>5, HeadTailProperties DEF Take
    <3>2. DOMAIN Tail(inbox) = 1..Len(Tail(inbox)) /\ DOMAIN inbox = 1..Len(inbox)
          /\ Len(inbox) \in Nat
      BY <1>2, <3>1, LenProperties
    <3>3. ASSUME NEW i \in DOMAIN inbox, i # 1
          PROVE  i - 1 \in DOMAIN Tail(inbox) /\ Tail(inbox)[i - 1] = inbox[i]
      BY <3>1, <3>2, <3>3
    <3>4. hand' # {} => Head(inbox) \in hand'
      BY <1>5 DEF Take
    <3> QED BY <1>5, <3>1, <3>3, <3>4 DEF Copied, Take
  <2>2. CASE hand' # {}
    <3>1. (Comes(n)' => Comes(n)) /\ tries' = tries
      BY <1>2, <1>5, <2>1, <2>2 DEF Take, Comes
    <3>2. (~Refused(n)' /\ troubles' = troubles) \/ troubles' = troubles + 1
      BY <1>5 DEF Take, Refused, InvalidReply, NoTrouble, Trouble
    <3> QED BY <1>1, <3>1, <3>2 DEF One
  <2>3. CASE hand' = {}
    <3>1. ~Refused(n)' /\ tries' = tries /\ troubles' = troubles + 1
      BY <1>5, <2>3 DEF Take, Refused, Trouble
    <3> QED BY <1>1, <3>1 DEF One
  <2> QED BY <2>2, <2>3
<1>6. ASSUME NEW m \in Messages, Enqueue(m)
      PROVE  tries'[n] + One(Comes(n)') + One(Refused(n)') + One(Doomed) <= 1 + troubles'
  <2>1. (Comes(n)' => Comes(n)) /\ tries' = tries
    BY <1>2, <1>6 DEF Enqueue, Comes, Copied
  <2>2. (~Refused(n)' /\ troubles' = troubles) \/ troubles' = troubles + 1
    BY <1>6 DEF Enqueue, Refused, NoTrouble, Trouble
  <2> QED BY <1>1, <2>1, <2>2 DEF One
<1>7. ASSUME NEW m \in Messages, Reply(m)
      PROVE  tries'[n] + One(Comes(n)') + One(Refused(n)') + One(Doomed) <= 1 + troubles'
  <2>1. ~Refused(n)' /\ tries' = tries /\ hand = {m} /\ UNCHANGED inbox
    BY <1>7 DEF Reply, Refused, RepeatsInv, WorkerType, AloneInHand
  <2>2. CASE n # m
    <3>1. Comes(n)' => Comes(n)
      BY <1>2, <1>7, <2>1, <2>2 DEF Reply, Returned, Comes, Copied, RepeatsInv, WorkerType, TypeOK
    <3>2. troubles' = troubles \/ troubles' = troubles + 1
      BY <1>7 DEF Reply, NoTrouble, Trouble
    <3> QED BY <1>1, <2>1, <3>1, <3>2 DEF One
  <2>3. CASE n = m
    <3>1. CASE msg' = [msg EXCEPT ![m] = "acked"] /\ NoTrouble
      <4>1. ~Comes(n)'
        BY <2>3, <3>1 DEF Comes, RepeatsInv, WorkerType, TypeOK
      <4> QED BY <1>1, <2>1, <3>1, <4>1 DEF One, NoTrouble
    <3>2. CASE step = "nak" /\ NoTrouble
      <4>1. Refused(n)
        BY <2>1, <2>3, <3>2 DEF Refused
      <4> QED BY <1>1, <2>1, <3>2, <4>1 DEF One, NoTrouble
    <3>3. CASE link # "up" /\ UNCHANGED msg /\ NoTrouble
      <4>1. Comes(n)' => Comes(n)
        BY <1>2, <3>3 DEF Comes
      <4> QED BY <1>1, <2>1, <3>3, <4>1 DEF One, NoTrouble
    <3>4. CASE Trouble
      BY <1>1, <2>1, <3>4 DEF One, Trouble
    <3> QED BY <1>7, <3>1, <3>2, <3>3, <3>4 DEF Reply
  <2> QED BY <2>2, <2>3
<1> QED BY <1>3, <1>4, <1>5, <1>6, <1>7 DEF Handle

LEMMA NextAccounted ==
  ASSUME RepeatsInv, [Next]_workerVars
  PROVE  Accounted'
<1>1. CASE Process(LifeNext)
  BY <1>1, LifeAccounted
<1>2. CASE Handle \/ \E m \in Messages : Deliver(m) \/ AckWaitRunsOut(m)
  <2>1. UnchangedLife
    BY <1>2, MessagesLeaveLife
  <2>2. Doomed' <=> Doomed
    BY <2>1 DEF UnchangedLife, Doomed, Alive
  <2> QED BY <1>2, <2>1, <2>2, MessagesAccounted DEF Accounted, One
<1>3. CASE Tag \/ UNCHANGED workerVars
  <2>1. UnchangedLife
    BY <1>3, MessagesLeaveLife DEF workerVars, UnchangedLife
  <2>2. UNCHANGED <<troubles, msg, tries, inbox, hand, step>>
    BY <1>3 DEF Tag, client, workerVars
  <2>3. Doomed' <=> Doomed
    BY <2>1 DEF UnchangedLife, Doomed, Alive
  <2> QED BY <2>1, <2>2, <2>3
          DEF RepeatsInv, Accounted, Comes, Refused, Copied, UnchangedLife
<1> QED BY <1>1, <1>2, <1>3 DEF Next

\* Each delivery of a message but the first was made necessary by a trouble of
\* its own, for any number of messages and deliveries.
THEOREM RepeatsAreCaused == Spec => []RepeatsNeedTroubles
<1>1. Init => RepeatsInv
  <2>1. Init => LifeSoFar /\ Accounted
    BY DEF Init, LifeInit, LifeSoFar, Accounted, Comes, Refused, Doomed, One, Alive
  <2> QED BY <2>1, InitType, InitStopIsExplained DEF RepeatsInv
<1>2. RepeatsInv /\ [Next]_workerVars => RepeatsInv'
  BY NextType, NextStopIsExplained, NextLifeSoFar, NextAccounted DEF RepeatsInv
<1>3. RepeatsInv => RepeatsNeedTroubles
  BY DEF RepeatsInv, WorkerType, TypeOK, LifeTypeOK, Accounted, One, RepeatsNeedTroubles
<1> QED BY <1>1, <1>2, <1>3, PTL DEF Spec
=============================================================================
