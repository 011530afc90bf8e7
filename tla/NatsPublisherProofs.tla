------------------------- MODULE NatsPublisherProofs -------------------------
(***************************************************************************)
(* Proofs about NatsPublisher, for any set of callers and any bounds.      *)
(*                                                                         *)
(* That each outage costs one connection rests on LockInv, which says that *)
(* the callers at the lock stand in a queue and the one that connects is   *)
(* at its head, and on Budget, which says for every place where a call may *)
(* decide to connect that an outage has paid for it already.               *)
(***************************************************************************)
EXTENDS NatsPublisher, TLAPS

USE CallersAssumption, TasksAssumption, PublisherBounds
    DEF AtLock, InWork, Clients, call, traffic

-----------------------------------------------------------------------------
(* Types *)

LEMMA InitType == Init => TypeOK
<1> SUFFICES ASSUME Init
             PROVE  TypeOK
  OBVIOUS
<1>1. /\ stored \subseteq Tasks /\ late \subseteq Tasks /\ answered \subseteq Callers
      /\ task \in [Callers -> Tasks \union {NoTask}]
      /\ \A c \in Callers : pc[c] \notin InWork /\ task[c] = NoTask
  BY DEF Init
<1>2. made \in 0..MaxClients /\ outages \in 0..MaxOutages
  BY DEF Init
<1>3. /\ client \in Clients \union {0} /\ context \in Clients \union {0}
      /\ ensured \in BOOLEAN /\ ahead \in [Callers -> SUBSET Callers]
  BY Zenon DEF Init
<1> QED BY <1>1, <1>2, <1>3 DEF Init, TypeOK

\* Going on with a connection in hand keeps the types.
LEMMA ProceedType ==
  ASSUME TypeOK, NEW c \in Callers, Usable, Proceed(c)
  PROVE  /\ client' \in Clients \union {0}
         /\ context' \in Clients /\ ensured' \in BOOLEAN
         /\ pc' \in [Callers -> InWork \union {"idle", "gone"}]
         /\ js' \in [Callers -> Clients \union {0}]
         /\ js'[c] # 0 /\ pc'[c] \in {"publish", "info"}
         /\ \A d \in Callers \ {c} : pc'[d] = pc[d] /\ js'[d] = js[d]
BY Zenon DEF Usable, Proceed, UseContext, Goto, TypeOK

LEMMA BeginType ==
  ASSUME TypeOK, NEW c \in Callers, Begin(c)
  PROVE  TypeOK'
<1>1. /\ result' \in [Callers -> {"none", "ok", "failed"}]
      /\ task' \in [Callers -> Tasks \union {NoTask}] /\ task'[c] # NoTask
      /\ \A d \in Callers \ {c} : task'[d] = task[d]
      /\ UNCHANGED <<link, stream, stored, late, answered, made, outages, phase>>
  BY DEF Begin, nats, TypeOK
<1>2. CASE Usable /\ Proceed(c) /\ UNCHANGED ahead
  BY <1>1, <1>2, ProceedType DEF TypeOK
<1>3. CASE ~Usable /\ UNCHANGED <<globals, js>>
           /\ ahead' = [ahead EXCEPT ![c] = LockUsers]
           /\ Goto(c, IF LockUsers = {} THEN "connect" ELSE "lock")
  BY <1>1, <1>3 DEF globals, Goto, LockUsers, TypeOK
<1> QED BY <1>2, <1>3 DEF Begin

\* So does going on to the next request with the context in hand.
LEMMA LabelType ==
  ASSUME TypeOK, NEW c \in Callers, pc[c] \in InWork \ AtLock,
         NEW l \in InWork \ AtLock, Goto(c, l), UNCHANGED js
  PROVE  /\ pc' \in [Callers -> InWork \union {"idle", "gone"}]
         /\ js' \in [Callers -> Clients \union {0}]
         /\ \A d \in Callers : pc'[d] \in InWork \ AtLock => js'[d] # 0
         /\ \A d \in Callers : pc'[d] \in InWork <=> pc[d] \in InWork
BY Zenon DEF Goto, TypeOK

\* And so does the end of a call.
LEMMA ReturnType ==
  ASSUME TypeOK, NEW c \in Callers, NEW answer \in {"ok", "failed"}, Return(c, answer)
  PROVE  /\ pc' \in [Callers -> InWork \union {"idle", "gone"}]
         /\ js' \in [Callers -> Clients \union {0}]
         /\ \A d \in Callers : pc'[d] \in InWork \ AtLock => js'[d] # 0
         /\ result' \in [Callers -> {"none", "ok", "failed"}]
         /\ task' \in [Callers -> Tasks \union {NoTask}]
         /\ \A d \in Callers : pc'[d] \in InWork <=> task'[d] # NoTask
<1>1. "idle" \notin InWork
  BY DEF InWork, AtLock
<1> QED BY <1>1 DEF Return, Goto, TypeOK

LEMMA CallType ==
  ASSUME TypeOK, NEW c \in Callers, CallStep(c) \/ Cancel(c)
  PROVE  TypeOK'
<1>1. CASE LockTaken(c)
  <2>1. CASE Usable /\ Proceed(c) /\ Release(c)
    <3>1. /\ client' \in Clients \union {0} /\ context' \in Clients /\ ensured' \in BOOLEAN
          /\ pc' \in [Callers -> InWork \union {"idle", "gone"}]
          /\ js' \in [Callers -> Clients \union {0}]
          /\ js'[c] # 0 /\ pc'[c] \in {"publish", "info"}
          /\ \A d \in Callers \ {c} : pc'[d] = pc[d] /\ js'[d] = js[d]
      BY <2>1, ProceedType
    <3>2. UNCHANGED <<call, nats, made, outages, phase>> /\ pc[c] = "lock"
      BY <1>1 DEF LockTaken
    <3>3. \A d \in Callers : pc'[d] \in InWork <=> pc[d] \in InWork
      BY <3>1, <3>2
    <3>4. ahead' \in [Callers -> SUBSET Callers]
      BY <2>1 DEF Release, TypeOK
    <3> QED BY <3>1, <3>2, <3>3, <3>4 DEF nats, TypeOK
  <2>2. CASE ~Usable /\ Goto(c, "connect") /\ UNCHANGED <<globals, ahead, js>>
    BY <1>1, <2>2 DEF LockTaken, Goto, globals, nats, TypeOK
  <2> QED BY <1>1, <2>1, <2>2 DEF LockTaken
<1>2. CASE Connected(c)
  <2>1. made' \in 0..MaxClients /\ made' \in Clients /\ made' # 0
    BY <1>2 DEF Connected, TypeOK
  <2>2. client' = made' /\ context' = made' /\ ensured' \in BOOLEAN
    BY <1>2, Zenon DEF Connected, Adopt
  <2> QED BY <1>2, <2>1, <2>2 DEF Connected, Goto, Release, TypeOK
<1>a. "info" \in InWork \ AtLock /\ "add" \in InWork \ AtLock
      /\ "update" \in InWork \ AtLock /\ "publish" \in InWork \ AtLock
  BY DEF InWork, AtLock
<1>3. CASE NotConnected(c)
  <2>1. Return(c, "failed") /\ Release(c) /\ UNCHANGED <<globals, nats, made, outages, phase>>
    BY <1>3, Zenon DEF NotConnected
  <2> QED BY <2>1, ReturnType DEF Release, globals, nats, TypeOK
<1>4. CASE InfoAnswered(c)
  <2>1. \E l \in {"add", "update", "publish"} : Goto(c, l)
    BY <1>4 DEF InfoAnswered, Ensured
  <2>2. UNCHANGED <<client, context, ahead, js, call, nats, made, outages, phase>>
    BY <1>4 DEF InfoAnswered
  <2>3. ensured' \in BOOLEAN /\ pc[c] = "info"
    BY <1>4 DEF InfoAnswered, Ensured, TypeOK
  <2> QED BY <1>a, <2>1, <2>2, <2>3, LabelType DEF nats, TypeOK
<1>5. CASE InfoFails(c)
  BY <1>5, <1>a, LabelType DEF InfoFails, globals, nats, TypeOK
<1>6. CASE Added(c) \/ Updated(c)
  <2>1. Goto(c, "publish") /\ ensured' \in BOOLEAN /\ stream' = "ours"
        /\ pc[c] \in {"add", "update"}
    BY <1>6 DEF Added, Updated, Ensured
  <2>2. UNCHANGED <<client, context, ahead, js, call, link, traffic, made, outages, phase>>
    BY <1>6 DEF Added, Updated
  <2> QED BY <1>a, <2>1, <2>2, LabelType DEF TypeOK
<1>7. CASE EnsureFails(c)
  <2>1. Return(c, "failed") /\ stream' \in {stream, "ours"}
    BY <1>7 DEF EnsureFails
  <2>2. UNCHANGED <<globals, ahead, link, traffic, made, outages, phase>>
    BY <1>7 DEF EnsureFails
  <2> QED BY <2>1, <2>2, ReturnType DEF globals, TypeOK
<1>8. CASE Confirmed(c)
  <2>1. Return(c, "ok") /\ answered' \subseteq Callers
    BY <1>8 DEF Confirmed, TypeOK
  <2>2. UNCHANGED <<globals, ahead, link, stream, stored, late, made, outages, phase>>
    BY <1>8 DEF Confirmed
  <2> QED BY <2>1, <2>2, ReturnType DEF globals, TypeOK
<1>9. CASE NotConfirmed(c)
  <2>1. late' \subseteq Tasks /\ answered' \subseteq Callers
    BY <1>9 DEF NotConfirmed, Abandoned, TypeOK
  <2>2. Return(c, "failed")
    BY <1>9 DEF NotConfirmed
  <2>3. UNCHANGED <<globals, ahead, link, stream, stored, made, outages, phase>>
    BY <1>9 DEF NotConfirmed
  <2> QED BY <2>1, <2>2, <2>3, ReturnType DEF globals, TypeOK
<1>10. CASE Cancel(c)
  <2>1. late' \subseteq Tasks /\ answered' \subseteq Callers
    BY <1>10 DEF Cancel, Abandoned, TypeOK
  <2> QED BY <1>10, <2>1 DEF Cancel, Goto, Release, globals, TypeOK
<1> QED BY <1>1, <1>2, <1>3, <1>4, <1>5, <1>6, <1>7, <1>8, <1>9, <1>10 DEF CallStep

LEMMA NextType == TypeOK /\ [Next]_pubVars => TypeOK'
<1> SUFFICES ASSUME TypeOK, [Next]_pubVars
             PROVE  TypeOK'
  OBVIOUS
<1>1. ASSUME NEW c \in Callers, Begin(c) \/ CallStep(c) \/ Cancel(c)
      PROVE  TypeOK'
  BY <1>1, BeginType, CallType
<1>2. ASSUME NEW k \in Clients, Lose(k) \/ ReconnectEnds(k)
      PROVE  TypeOK'
  <2>1. link' \in [Clients -> {"unused", "up", "lost", "closed"}] /\ answered' \subseteq Callers
    BY <1>2 DEF Lose, ReconnectEnds, TypeOK
  <2>2. outages' \in 0..MaxOutages
    BY <1>2 DEF Lose, ReconnectEnds, TypeOK
  <2> QED BY <1>2, <2>1, <2>2 DEF Lose, ReconnectEnds, globals, calls, TypeOK
<1>3. ASSUME NEW c \in Callers, Stores(c)
      PROVE  TypeOK'
  <2>1. task[c] \in Tasks
    BY <1>3 DEF Stores, TypeOK
  <2> QED BY <1>3, <2>1 DEF Stores, globals, calls, TypeOK
<1>6. ASSUME NEW t \in Tasks, ArrivesLate(t)
      PROVE  TypeOK'
  BY <1>6 DEF ArrivesLate, globals, calls, TypeOK
<1>4. CASE Stop \/ Close
  BY <1>4 DEF Stop, Close, globals, calls, nats, TypeOK
<1>5. CASE UNCHANGED pubVars
  BY <1>5 DEF pubVars, TypeOK
<1> QED BY <1>1, <1>2, <1>3, <1>4, <1>5, <1>6 DEF Next

\* Every variable keeps its type, and a call in work has a task and, when it
\* sends, a connection.
THEOREM PublisherTypeCorrect == Spec => []TypeOK
BY InitType, NextType, PTL DEF Spec
-----------------------------------------------------------------------------
(* The ensured stream *)

\* A step that leaves these alone keeps what is known of the stream.
LEMMA StreamStays ==
  ASSUME EnsuredIsTrue, stream' = stream \/ stream' = "ours",
         ensured' => ensured \/ stream' = "ours",
         \A c \in Callers : pc'[c] = "publish" =>
            pc[c] = "publish" \/ ensured \/ stream' = "ours"
  PROVE  EnsuredIsTrue'
BY Zenon DEF EnsuredIsTrue

LEMMA NextEnsured == TypeOK /\ EnsuredIsTrue /\ [Next]_pubVars => EnsuredIsTrue'
<1> SUFFICES ASSUME TypeOK, EnsuredIsTrue, [Next]_pubVars
             PROVE  EnsuredIsTrue'
  OBVIOUS
<1> USE StreamStays
<1>1. ASSUME NEW c \in Callers, Begin(c)
      PROVE  EnsuredIsTrue'
  BY <1>1 DEF Begin, Proceed, UseContext, Goto, globals, nats, TypeOK
<1>2. ASSUME NEW c \in Callers, LockTaken(c)
      PROVE  EnsuredIsTrue'
  BY <1>2 DEF LockTaken, Proceed, UseContext, Goto, globals, nats, TypeOK
<1>3. ASSUME NEW c \in Callers, Connected(c) \/ NotConnected(c) \/ InfoFails(c)
      PROVE  EnsuredIsTrue'
  BY <1>3 DEF Connected, Adopt, NotConnected, InfoFails, Return, Goto, globals, nats, TypeOK
<1>4. ASSUME NEW c \in Callers, InfoAnswered(c) \/ Added(c) \/ Updated(c)
      PROVE  EnsuredIsTrue'
  BY <1>4 DEF InfoAnswered, Added, Updated, Ensured, Goto, nats, TypeOK
<1>5. ASSUME NEW c \in Callers, EnsureFails(c) \/ Confirmed(c) \/ NotConfirmed(c)
      PROVE  EnsuredIsTrue'
  BY <1>5 DEF EnsureFails, Confirmed, NotConfirmed, Return, Goto, globals, TypeOK
<1>6. ASSUME NEW c \in Callers, Cancel(c)
      PROVE  EnsuredIsTrue'
  BY <1>6 DEF Cancel, Goto, globals, nats, TypeOK
<1>7. ASSUME NEW k \in Clients, Lose(k) \/ ReconnectEnds(k)
      PROVE  EnsuredIsTrue'
  BY <1>7 DEF Lose, ReconnectEnds, globals, calls
<1>8. CASE Stop \/ Close \/ UNCHANGED pubVars
  BY <1>8 DEF Stop, Close, globals, calls, nats, pubVars
<1>9. CASE (\E c \in Callers : Stores(c)) \/ (\E t \in Tasks : ArrivesLate(t))
  BY <1>9 DEF Stores, ArrivesLate, globals, calls
<1> QED BY <1>1, <1>2, <1>3, <1>4, <1>5, <1>6, <1>7, <1>8, <1>9 DEF Next, CallStep

\* The key in _ensured_streams is never a lie, however many calls share it and
\* however often the connection is replaced under them.
THEOREM EnsuredStreamIsThere == Spec => []EnsuredIsTrue
<1>1. Init => EnsuredIsTrue
  BY DEF Init, EnsuredIsTrue
<1> QED BY <1>1, InitType, NextType, NextEnsured, PTL DEF Spec

-----------------------------------------------------------------------------
(* One connection for each outage *)

\* Of two calls at the lock one is before the other, and nobody is before the
\* one that holds it; when all is closed there is no call.
LockInv ==
  /\ \A c, d \in Callers :
       c # d /\ pc[c] \in AtLock /\ pc[d] \in AtLock => c \in ahead[d] \/ d \in ahead[c]
  /\ \A c \in Callers : pc[c] = "connect" => ahead[c] = {}
  /\ phase = "closed" => \A c \in Callers : pc[c] = "gone"

\* A call connects, or will find that it has to, only when an outage has not
\* had its connection yet.
Budget ==
  /\ made <= 1 + outages
  /\ phase # "closed" => client = made
  /\ \A c \in Callers : pc[c] = "connect" => made <= outages
  /\ client # 0 /\ link[client] # "up" => made <= outages

\* A call leaves the lock, if it was there, and lets the next one in.
LEMMA LockLeft ==
  ASSUME TypeOK, LockInv, NEW c \in Callers, Release(c), UNCHANGED phase,
         pc'[c] \notin AtLock, phase = "closed" => pc'[c] = "gone",
         \A d \in Callers \ {c} : pc'[d] = pc[d]
  PROVE  LockInv'
<1>1. \A d \in Callers : ahead'[d] = ahead[d] \ {c}
  BY DEF Release
<1> QED BY <1>1 DEF LockInv

\* A step that changes nobody's place keeps the queue.
LEMMA LockStays ==
  ASSUME TypeOK, LockInv, UNCHANGED ahead,
         \A c \in Callers : pc'[c] = pc[c] \/ pc'[c] \notin AtLock,
         phase' = "closed" => \A c \in Callers : pc'[c] = "gone"
  PROVE  LockInv'
BY DEF LockInv

LEMMA NextLock == TypeOK /\ LockInv /\ [Next]_pubVars => LockInv'
<1> SUFFICES ASSUME TypeOK, LockInv, [Next]_pubVars
             PROVE  LockInv'
  OBVIOUS
<1>1. ASSUME NEW c \in Callers, Begin(c)
      PROVE  LockInv'
  <2>1. phase # "closed" /\ UNCHANGED phase /\ pc[c] = "idle"
    BY <1>1 DEF Begin
  <2>2. CASE Usable /\ Proceed(c) /\ UNCHANGED ahead
    BY <2>1, <2>2, LockStays DEF Proceed, UseContext, Goto, TypeOK
  <2>3. CASE /\ ahead' = [ahead EXCEPT ![c] = LockUsers]
             /\ Goto(c, IF LockUsers = {} THEN "connect" ELSE "lock")
    <3>1. /\ ahead'[c] = LockUsers /\ \A d \in Callers \ {c} : ahead'[d] = ahead[d]
          /\ pc'[c] = "connect" => LockUsers = {}
          /\ \A d \in Callers \ {c} : pc'[d] = pc[d]
      BY <2>3 DEF Goto, TypeOK
    <3> QED BY <2>1, <3>1 DEF LockInv, LockUsers
  <2> QED BY <1>1, <2>2, <2>3 DEF Begin
<1>2. ASSUME NEW c \in Callers, LockTaken(c)
      PROVE  LockInv'
  <2>1. UNCHANGED phase /\ phase # "closed"
    BY <1>2 DEF LockTaken, LockInv
  <2>2. CASE Usable /\ Proceed(c) /\ Release(c)
    BY <2>1, <2>2, LockLeft DEF Proceed, UseContext, Goto, TypeOK
  <2>3. CASE ~Usable /\ Goto(c, "connect") /\ UNCHANGED <<globals, ahead, js>>
    BY <1>2, <2>1, <2>3 DEF LockTaken, Goto, LockInv, TypeOK
  <2> QED BY <1>2, <2>2, <2>3 DEF LockTaken
<1>3. ASSUME NEW c \in Callers, Connected(c) \/ NotConnected(c)
      PROVE  LockInv'
  <2>1. UNCHANGED phase /\ phase # "closed" /\ Release(c)
    BY <1>3 DEF Connected, NotConnected, LockInv
  <2>2. pc'[c] \notin AtLock /\ \A d \in Callers \ {c} : pc'[d] = pc[d]
    BY <1>3 DEF Connected, NotConnected, Return, Goto, TypeOK
  <2> QED BY <2>1, <2>2, LockLeft
<1>4. ASSUME NEW c \in Callers,
             \/ InfoAnswered(c) \/ InfoFails(c) \/ Added(c) \/ Updated(c)
             \/ EnsureFails(c) \/ Confirmed(c) \/ NotConfirmed(c)
      PROVE  LockInv'
  <2>1. UNCHANGED <<ahead, phase>> /\ phase # "closed"
    BY <1>4 DEF InfoAnswered, InfoFails, Added, Updated, EnsureFails, Confirmed,
                NotConfirmed, globals, LockInv
  <2>2. pc'[c] \notin AtLock /\ \A d \in Callers \ {c} : pc'[d] = pc[d]
    BY <1>4 DEF InfoAnswered, InfoFails, Added, Updated, EnsureFails, Confirmed,
                NotConfirmed, Ensured, Return, Goto, TypeOK
  <2> QED BY <2>1, <2>2, LockStays
<1>5. ASSUME NEW c \in Callers, Cancel(c)
      PROVE  LockInv'
  BY <1>5, LockLeft DEF Cancel, Goto, TypeOK
<1>6. ASSUME NEW k \in Clients, Lose(k) \/ ReconnectEnds(k)
      PROVE  LockInv'
  BY <1>6, LockStays DEF Lose, ReconnectEnds, calls, LockInv
<1>7. CASE Stop \/ Close \/ UNCHANGED pubVars
  BY <1>7, LockStays DEF Stop, Close, calls, pubVars, LockInv
<1>8. CASE (\E c \in Callers : Stores(c)) \/ (\E t \in Tasks : ArrivesLate(t))
  BY <1>8, LockStays DEF Stores, ArrivesLate, calls, LockInv
<1> QED BY <1>1, <1>2, <1>3, <1>4, <1>5, <1>6, <1>7, <1>8 DEF Next, CallStep

\* Who finds the connection unusable finds an outage that is not paid for.
LEMMA UnusableIsOwed ==
  ASSUME TypeOK, Budget, ~Usable, phase # "closed"
  PROVE  made <= outages
BY DEF Usable, Budget, TypeOK

\* A step that connects nothing, loses nothing and decides nothing.
LEMMA BudgetStays ==
  ASSUME TypeOK, Budget, UNCHANGED <<client, link, made, outages, phase>>,
         \A c \in Callers : pc'[c] = "connect" => pc[c] = "connect" \/ made <= outages
  PROVE  Budget'
BY DEF Budget, TypeOK

LEMMA NextBudget == TypeOK /\ LockInv /\ Budget /\ [Next]_pubVars => Budget'
<1> SUFFICES ASSUME TypeOK, LockInv, Budget, [Next]_pubVars
             PROVE  Budget'
  OBVIOUS
<1>1. ASSUME NEW c \in Callers, Begin(c)
      PROVE  Budget'
  <2>1. UNCHANGED <<client, link, made, outages, phase>> /\ phase # "closed"
    BY <1>1 DEF Begin, Proceed, UseContext, globals, nats
  <2>2. CASE Usable /\ Proceed(c)
    BY <2>1, <2>2, BudgetStays DEF Proceed, UseContext, Goto, TypeOK
  <2>3. CASE ~Usable /\ \E label \in {"connect", "lock"} : Goto(c, label)
    BY <2>1, <2>3, UnusableIsOwed, BudgetStays DEF Goto, TypeOK
  <2> QED BY <1>1, <2>2, <2>3 DEF Begin
<1>2. ASSUME NEW c \in Callers, LockTaken(c)
      PROVE  Budget'
  <2>1. UNCHANGED <<client, link, made, outages, phase>> /\ phase # "closed"
    BY <1>2 DEF LockTaken, Proceed, UseContext, globals, nats, LockInv
  <2>2. CASE Usable /\ Proceed(c)
    BY <2>1, <2>2, BudgetStays DEF Proceed, UseContext, Goto, TypeOK
  <2>3. CASE ~Usable /\ Goto(c, "connect")
    BY <2>1, <2>3, UnusableIsOwed, BudgetStays DEF Goto, TypeOK
  <2> QED BY <1>2, <2>2, <2>3 DEF LockTaken
<1>3. ASSUME NEW c \in Callers, Connected(c)
      PROVE  Budget'
  <2>1. made <= outages /\ \A d \in Callers \ {c} : pc[d] # "connect"
    BY <1>3 DEF Connected, Budget, LockInv
  <2>2. \A d \in Callers : pc'[d] # "connect"
    BY <1>3, <2>1 DEF Connected, Goto, TypeOK
  <2>3. made' = made + 1 /\ made' \in Clients /\ UNCHANGED <<outages, phase>>
    BY <1>3 DEF Connected, TypeOK
  <2>4. client' = made' /\ link'[client'] = "up"
    BY <1>3, <2>3 DEF Connected, Adopt, TypeOK
  <2> QED BY <2>1, <2>2, <2>3, <2>4 DEF Budget, TypeOK
<1>4. ASSUME NEW c \in Callers,
             \/ NotConnected(c) \/ InfoAnswered(c) \/ InfoFails(c) \/ Added(c)
             \/ Updated(c) \/ EnsureFails(c) \/ Confirmed(c) \/ NotConfirmed(c)
             \/ Cancel(c)
      PROVE  Budget'
  <2>1. UNCHANGED <<client, link, made, outages, phase>>
    BY <1>4 DEF NotConnected, InfoAnswered, InfoFails, Added, Updated, EnsureFails,
                Confirmed, NotConfirmed, Cancel, globals, nats
  <2>2. pc'[c] # "connect" /\ \A d \in Callers \ {c} : pc'[d] = pc[d]
    BY <1>4 DEF NotConnected, InfoAnswered, InfoFails, Added, Updated, EnsureFails,
                Confirmed, NotConfirmed, Cancel, Ensured, Return, Goto, TypeOK
  <2> QED BY <2>1, <2>2, BudgetStays
<1>5. ASSUME NEW k \in Clients, Lose(k) \/ ReconnectEnds(k)
      PROVE  Budget'
  <2>1. UNCHANGED <<client, pc, made, phase>>
    BY <1>5 DEF Lose, ReconnectEnds, globals, calls
  <2>2. CASE Lose(k)
    BY <2>1, <2>2 DEF Lose, Budget, TypeOK
  <2>3. CASE ReconnectEnds(k)
    <3>1. UNCHANGED outages /\ link[k] # "up"
      BY <2>3 DEF ReconnectEnds
    <3>2. \A l \in Clients \ {k} : link'[l] = link[l]
      BY <2>3 DEF ReconnectEnds, TypeOK
    <3> QED BY <2>1, <3>1, <3>2 DEF Budget, TypeOK
  <2> QED BY <1>5, <2>2, <2>3
<1>6. CASE Stop
  BY <1>6 DEF Stop, Budget, globals, calls, nats
<1>7. CASE Close
  BY <1>7 DEF Close, Budget, calls
<1>8. CASE UNCHANGED pubVars
  BY <1>8 DEF pubVars, Budget
<1>9. CASE (\E c \in Callers : Stores(c)) \/ (\E t \in Tasks : ArrivesLate(t))
  BY <1>9, BudgetStays DEF Stores, ArrivesLate, globals, calls
<1> QED BY <1>1, <1>2, <1>3, <1>4, <1>5, <1>6, <1>7, <1>8, <1>9 DEF Next, CallStep

\* However many callers find the connection down at once, an outage costs one
\* nats.connect.
THEOREM OutageCostsOneClient == Spec => []OneClientPerOutage
<1>1. Init => LockInv /\ Budget
  BY DEF Init, LockInv, Budget
<1>2. Budget => OneClientPerOutage
  BY DEF Budget, OneClientPerOutage
<1> QED BY <1>1, <1>2, InitType, NextType, NextLock, NextBudget, PTL DEF Spec

-----------------------------------------------------------------------------
(* The task bus *)

\* An answer is that to the publish the call waits for, of the task it has.
AnswersAreOwn == \A c \in answered : pc[c] = "publish" /\ task[c] \in stored

LEMMA NextAnswersAreOwn ==
  TypeOK /\ AnswersAreOwn /\ [Next]_pubVars => AnswersAreOwn'
<1> SUFFICES ASSUME TypeOK, AnswersAreOwn, [Next]_pubVars
             PROVE  AnswersAreOwn'
  OBVIOUS
<1>1. ASSUME NEW c \in Callers, Begin(c)
      PROVE  AnswersAreOwn'
  <2>1. pc[c] = "idle" /\ UNCHANGED <<stored, answered>>
    BY <1>1 DEF Begin, nats
  <2>2. \A d \in Callers \ {c} : pc'[d] = pc[d] /\ task'[d] = task[d]
    BY <1>1 DEF Begin, Proceed, UseContext, Goto, TypeOK
  <2> QED BY <2>1, <2>2 DEF AnswersAreOwn, TypeOK
<1>2. ASSUME NEW c \in Callers,
             \/ LockTaken(c) \/ Connected(c) \/ NotConnected(c) \/ InfoAnswered(c)
             \/ InfoFails(c) \/ Added(c) \/ Updated(c) \/ EnsureFails(c)
      PROVE  AnswersAreOwn'
  <2>1. pc[c] # "publish" /\ UNCHANGED <<stored, answered>>
    BY <1>2 DEF LockTaken, Connected, NotConnected, InfoAnswered, InfoFails, Added, Updated,
                EnsureFails, nats
  <2>2. \A d \in Callers \ {c} : pc'[d] = pc[d] /\ task'[d] = task[d]
    BY <1>2 DEF LockTaken, Connected, NotConnected, InfoAnswered, InfoFails, Added, Updated,
                EnsureFails, Proceed, UseContext, Ensured, Return, Goto, TypeOK
  <2> QED BY <2>1, <2>2 DEF AnswersAreOwn, TypeOK
<1>3. ASSUME NEW c \in Callers, Confirmed(c) \/ NotConfirmed(c) \/ Cancel(c)
      PROVE  AnswersAreOwn'
  <2>1. answered' = answered \ {c} /\ stored' = stored
    BY <1>3 DEF Confirmed, NotConfirmed, Cancel, Abandoned, AnswersAreOwn
  <2>2. \A d \in Callers \ {c} : pc'[d] = pc[d] /\ task'[d] = task[d]
    BY <1>3 DEF Confirmed, NotConfirmed, Cancel, Return, Goto, TypeOK
  <2> QED BY <2>1, <2>2 DEF AnswersAreOwn, TypeOK
<1>4. CASE (\E c \in Callers : Stores(c)) \/ (\E t \in Tasks : ArrivesLate(t))
  BY <1>4 DEF Stores, ArrivesLate, calls, AnswersAreOwn
<1>5. CASE (\E k \in Clients : Lose(k) \/ ReconnectEnds(k)) \/ Stop \/ Close
           \/ UNCHANGED pubVars
  BY <1>5 DEF Lose, ReconnectEnds, Stop, Close, calls, nats, pubVars, AnswersAreOwn
<1> QED BY <1>1, <1>2, <1>3, <1>4, <1>5 DEF Next, CallStep

\* A call that returns reports; an ok needs the answer to its own publish.
LEMMA ReturnReports ==
  ASSUME TypeOK, NEW c \in Callers, NEW a \in {"ok", "failed"}, pc[c] \in InWork,
         Return(c, a), UNCHANGED stored, a = "ok" => task[c] \in stored
  PROVE  Bus!Report(c, a)
BY DEF Bus!Report, Return, TypeOK

LEMMA NextBus ==
  TypeOK /\ AnswersAreOwn /\ [Next]_pubVars => [Bus!BusNext]_(Bus!busVars)
<1> SUFFICES ASSUME TypeOK, AnswersAreOwn, [Next]_pubVars
             PROVE  [Bus!BusNext]_(Bus!busVars)
  OBVIOUS
<1>1. ASSUME NEW c \in Callers, Begin(c)
      PROVE  \E t \in Tasks : Bus!Submit(c, t)
  <2>1. pc[c] = "idle" /\ stored' = stored /\ result' = [result EXCEPT ![c] = "none"]
    BY <1>1 DEF Begin, nats
  <2>2. PICK t \in Tasks : task' = [task EXCEPT ![c] = t]
    BY <1>1 DEF Begin
  <2>3. task[c] = NoTask
    BY <2>1 DEF TypeOK
  <2> QED BY <2>1, <2>2, <2>3 DEF Bus!Submit
<1>2. ASSUME NEW c \in Callers, NotConnected(c) \/ EnsureFails(c) \/ NotConfirmed(c)
      PROVE  Bus!Report(c, "failed")
  BY <1>2, ReturnReports DEF NotConnected, EnsureFails, NotConfirmed, nats
<1>3. ASSUME NEW c \in Callers, Confirmed(c)
      PROVE  Bus!Report(c, "ok")
  BY <1>3, ReturnReports DEF Confirmed, AnswersAreOwn
<1>4. ASSUME NEW c \in Callers,
             \/ LockTaken(c) \/ Connected(c) \/ InfoAnswered(c) \/ InfoFails(c)
             \/ Added(c) \/ Updated(c)
      PROVE  UNCHANGED Bus!busVars
  BY <1>4 DEF LockTaken, Connected, InfoAnswered, InfoFails, Added, Updated, nats,
              Bus!busVars
<1>5. ASSUME NEW c \in Callers, Cancel(c)
      PROVE  Bus!Abandon(c) \/ UNCHANGED Bus!busVars
  <2>1. task' = [task EXCEPT ![c] = NoTask] /\ UNCHANGED <<stored, result>>
    BY <1>5 DEF Cancel
  <2>2. CASE task[c] # NoTask
    BY <2>1, <2>2 DEF Bus!Abandon
  <2>3. CASE task[c] = NoTask
    BY <2>1, <2>3 DEF Bus!busVars, TypeOK
  <2> QED BY <2>2, <2>3
<1>6. ASSUME NEW c \in Callers, Stores(c)
      PROVE  \E t \in Tasks : Bus!Arrive(t)
  <2>1. task[c] \in Tasks
    BY <1>6 DEF Stores, TypeOK
  <2> QED BY <1>6, <2>1 DEF Stores, calls, Bus!Arrive
<1>7. ASSUME NEW t \in Tasks, ArrivesLate(t)
      PROVE  Bus!Arrive(t)
  BY <1>7 DEF ArrivesLate, calls, Bus!Arrive
<1>8. CASE (\E k \in Clients : Lose(k) \/ ReconnectEnds(k)) \/ Stop \/ Close
           \/ UNCHANGED pubVars
  BY <1>8 DEF Lose, ReconnectEnds, Stop, Close, calls, nats, pubVars, Bus!busVars
<1> QED BY <1>1, <1>2, <1>3, <1>4, <1>5, <1>6, <1>7, <1>8 DEF Next, CallStep, Bus!BusNext

\* publish_tagger_task_with_result keeps the promise its callers build on: an
\* ok is said of a task only when the stream has that task.
THEOREM PublisherImplementsBus == Spec => ImplementsTaskBus
<1>1. Init => Bus!BusInit /\ AnswersAreOwn
  BY DEF Init, Bus!BusInit, AnswersAreOwn
<1> QED BY <1>1, InitType, NextType, NextAnswersAreOwn, NextBus, PTL
        DEF Spec, ImplementsTaskBus, Bus!BusSpec
=============================================================================
