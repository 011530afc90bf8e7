------------------------- MODULE ActionChannelProofs -------------------------
(***************************************************************************)
(* Theorems about ActionChannel for every value of its constants, and      *)
(* their proofs.                                                           *)
(***************************************************************************)
EXTENDS ActionChannel, SequenceTheorems, TLAPS

-----------------------------------------------------------------------------
(* Type correctness *)

LEMMA InitType == Init => TypeOK
BY NoneAssumption, ChainAssumption, ChannelBounds
   DEF Init, TypeOK, Labels, Outcomes, Frames, Echoes

\* A frame that arrives is put at the end of the inbox.
LEMMA ArriveType ==
  ASSUME TypeOK, NEW c \in Conns, NEW frame \in Frames, Arrive(c, frame)
  PROVE  inbox' \in [Conns -> Seq(Frames)]
<1>1. Append(inbox[c], frame) \in Seq(Frames)
  BY AppendProperties DEF TypeOK
<1> QED BY <1>1 DEF TypeOK, Arrive

\* The receive loop takes the frame at the front.
LEMMA ReadType ==
  ASSUME TypeOK, NEW c \in Conns, inbox[c] # <<>>
  PROVE  /\ Head(inbox[c]) \in Frames
         /\ [inbox EXCEPT ![c] = Tail(@)] \in [Conns -> Seq(Frames)]
<1>1. Head(inbox[c]) \in Frames /\ Tail(inbox[c]) \in Seq(Frames)
  BY HeadTailProperties DEF TypeOK
<1> QED BY <1>1 DEF TypeOK

\* The chain goes on with one call less, or is over.
LEMMA NextAttemptType ==
  ASSUME TypeOK, NEW c \in Conns, loop[c] \in {"call", "send", "wait"}, NextAttempt(c),
         via' = via
  PROVE  /\ loop' \in [Conns -> Labels] /\ call' \in [Conns -> {0} \union Echoes]
         /\ left' \in [Conns -> 0..ChainLength]
         /\ \A d \in Conns :
              /\ loop'[d] \in {"send", "wait"} => call'[d] \in Echoes
              /\ loop'[d] \in {"call", "send", "wait"} => via'[d] # None /\ left'[d] > 0
BY ChainAssumption DEF TypeOK, NextAttempt, Goto, Labels

LEMMA NextType == TypeOK /\ [Next]_channelVars => TypeOK'
<1> SUFFICES ASSUME TypeOK, [Next]_channelVars
             PROVE  TypeOK'
  OBVIOUS
<1> USE NoneAssumption, ChainAssumption, ChannelBounds DEF client, chain, Goto
<1>1. ASSUME NEW c \in Conns, Connect(c)
      PROVE  TypeOK'
  BY <1>1 DEF TypeOK, Connect, Close, ReplacedBy, Labels, Outcomes
<1>2. ASSUME NEW c \in Conns, HeartbeatTimeout(c)
      PROVE  TypeOK'
  BY <1>2 DEF TypeOK, HeartbeatTimeout, Labels
<1>3. ASSUME NEW c \in Conns, Disconnect(c)
      PROVE  TypeOK'
  BY <1>3 DEF TypeOK, Disconnect, Close, CurrentWithout, Labels, Outcomes
<1>4. ASSUME NEW c \in Conns, ReceiveEvent(c)
      PROVE  TypeOK'
  BY <1>4, ReadType DEF TypeOK, ReceiveEvent, CanReceive, Labels
<1>5. ASSUME NEW c \in Conns, ReceiveAnswer(c)
      PROVE  TypeOK'
  <2>1. Head(inbox[c]) \in Echoes /\ inbox' \in [Conns -> Seq(Frames)]
    BY <1>5, ReadType DEF ReceiveAnswer, CanReceive, Frames
  <2> QED BY <1>5, <2>1 DEF TypeOK, ReceiveAnswer, Completed, Outcomes
<1>6. ASSUME NEW c \in Conns, EndEvent(c)
      PROVE  TypeOK'
  BY <1>6 DEF TypeOK, EndEvent, Labels
<1>7. ASSUME NEW c \in Conns, BeginRefresh(c)
      PROVE  TypeOK'
  BY <1>7 DEF TypeOK, BeginRefresh, Labels
<1>8. ASSUME NEW c \in Conns, CallAction(c)
      PROVE  TypeOK'
  <2>1. calls + 1 \in Echoes /\ via[c] \in Conns
    BY <1>8 DEF TypeOK, CallAction, Echoes
  <2> QED BY <1>8, <2>1 DEF TypeOK, CallAction, Labels, Outcomes
<1>9. ASSUME NEW c \in Conns, CallRefused(c)
      PROVE  TypeOK'
  <2>1. loop[c] = "call" /\ NextAttempt(c) /\ via' = via
    BY <1>9 DEF CallRefused
  <2> QED BY <1>9, <2>1, NextAttemptType DEF TypeOK, CallRefused
<1>10. ASSUME NEW c \in Conns, Send(c)
       PROVE  TypeOK'
  BY <1>10 DEF TypeOK, Send, Labels
<1>11. ASSUME NEW c \in Conns, NEW outcome \in {"failed", "timedOut"},
              loop[c] \in {"send", "wait"}, GiveUp(c, outcome)
       PROVE  TypeOK'
  <2>1. NextAttempt(c) /\ via' = via
    BY <1>11 DEF GiveUp
  <2>2. /\ loop' \in [Conns -> Labels] /\ call' \in [Conns -> {0} \union Echoes]
        /\ left' \in [Conns -> 0..ChainLength]
        /\ \A d \in Conns :
             /\ loop'[d] \in {"send", "wait"} => call'[d] \in Echoes
             /\ loop'[d] \in {"call", "send", "wait"} => via'[d] # None /\ left'[d] > 0
    BY <1>11, <2>1, NextAttemptType
  <2>3. pending' \in [Conns -> SUBSET Echoes] /\ future' \in [Echoes -> Outcomes]
    BY <1>11 DEF TypeOK, GiveUp, Forgotten, Outcomes
  <2> QED BY <1>11, <2>2, <2>3 DEF TypeOK, GiveUp
<1>12. ASSUME NEW c \in Conns, Answered(c)
       PROVE  TypeOK'
  <2>1. CASE NextAttempt(c)
    <3>1. loop[c] = "wait" /\ UNCHANGED <<linked, inbox, client, via, asked, calls, events, newest>>
      BY <1>12 DEF Answered
    <3> QED BY <2>1, <3>1, NextAttemptType DEF TypeOK
  <2>2. CASE ~NextAttempt(c)
    <3>1. /\ loop' = [loop EXCEPT ![c] = "event"] /\ call' = [call EXCEPT ![c] = 0]
          /\ left' = [left EXCEPT ![c] = 0]
          /\ UNCHANGED <<linked, inbox, client, via, asked, calls, events, newest>>
      BY <1>12, <2>2 DEF Answered
    <3> QED BY <3>1 DEF TypeOK, Labels
  <2> QED BY <2>1, <2>2
<1>13. ASSUME NEW c \in Conns, Failed(c)
       PROVE  TypeOK'
  <2>1. loop[c] = "wait" /\ NextAttempt(c) /\ via' = via
    BY <1>13 DEF Failed
  <2> QED BY <1>13, <2>1, NextAttemptType DEF TypeOK, Failed
<1>14. ASSUME NEW c \in Conns, SendEvent(c)
       PROVE  TypeOK'
  <2>1. AnEvent \in Frames
    BY DEF Frames
  <2> QED BY <1>14, <2>1, ArriveType DEF TypeOK, SendEvent
<1>15. ASSUME NEW c \in Conns, NEW k \in Echoes, AnswerRequest(c, k)
       PROVE  TypeOK'
  <2>1. k \in Frames
    BY DEF Frames
  <2> QED BY <1>15, <2>1, ArriveType DEF TypeOK, AnswerRequest
<1>16. ASSUME NEW c \in Conns, Leave(c)
       PROVE  TypeOK'
  BY <1>16 DEF TypeOK, Leave
<1>17. CASE UNCHANGED channelVars
  BY <1>17 DEF TypeOK, channelVars
<1> QED
  BY <1>1, <1>2, <1>3, <1>4, <1>5, <1>6, <1>7, <1>8, <1>9, <1>10, <1>11, <1>12,
     <1>13, <1>14, <1>15, <1>16, <1>17
     DEF Next, HandlerStep, PeerStep, SendFails, Timeout

\* The variables keep their types, and a chain always has its client and a
\* call to make.
THEOREM ChannelTypeCorrect == Spec => []TypeOK
BY InitType, NextType, PTL DEF Spec

-----------------------------------------------------------------------------
(* The inductive invariant *)

InCall(d) == loop[d] \in {"send", "wait"}

\* Handler d awaits call k on client c.
Awaits(d, c, k) ==
  InCall(d) /\ via[d] = c /\ call[d] = k /\ future[k] = "pending"

\* PendingIsAwaited, taken apart.
Registered ==
  /\ \A c \in Conns : \A k \in pending[c] : \E d \in Conns : Awaits(d, c, k)
  /\ \A d \in Conns : InCall(d) /\ future[call[d]] = "pending" => call[d] \in pending[via[d]]

\* An echo belongs to one handler, and those to come are fresh.
EchoesAreFresh ==
  /\ \A c, d \in Conns : InCall(c) /\ InCall(d) /\ call[c] = call[d] => c = d
  /\ \A c \in Conns : InCall(c) => call[c] <= calls

\* Whoever is not the global client any more is closed, and a chain's client
\* was the global one once.
OthersAreClosed ==
  /\ \A c \in Conns : loop[c] # "unborn" /\ c \notin closed => c = current
  /\ \A d \in Conns : via[d] # None => loop[via[d]] # "unborn"

\* OwnSocketNeverAnswers, from the moment the call is made.
OwnCallsUnanswered ==
  \A c \in Conns : InCall(c) /\ future[call[c]] = "answered" => via[c] # c

ChannelInv ==
  /\ TypeOK
  /\ Registered
  /\ EchoesAreFresh
  /\ OthersAreClosed
  /\ OwnCallsUnanswered
  /\ OnlyCurrentWaits
  /\ CurrentIsNewest

LEMMA InitChannelInv == Init => ChannelInv
<1> SUFFICES ASSUME Init
             PROVE  ChannelInv
  OBVIOUS
<1>1. TypeOK
  BY InitType
<1>2. Registered /\ EchoesAreFresh /\ OthersAreClosed /\ OwnCallsUnanswered /\ OnlyCurrentWaits
  BY DEF Init, Registered, EchoesAreFresh, OthersAreClosed, OwnCallsUnanswered,
         OnlyCurrentWaits, InCall
<1>3. CurrentIsNewest
  BY DEF Init, CurrentIsNewest
<1> QED BY <1>1, <1>2, <1>3 DEF ChannelInv

\* A step that leaves the clients alone: handlers take and leave calls that are
\* not pending, and a chain may capture the global client.
QuietStep ==
  /\ UNCHANGED <<client, calls, newest>>
  /\ \A d \in Conns :
       /\ InCall(d)' => InCall(d) /\ via'[d] = via[d] /\ call'[d] = call[d]
       /\ InCall(d) /\ future[call[d]] = "pending" => InCall(d)'
       /\ loop'[d] = "unborn" <=> loop[d] = "unborn"
       /\ Running(d)' <=> Running(d)
       /\ via'[d] \in {via[d], current}

LEMMA QuietSteps ==
  ASSUME TypeOK, NEW c \in Conns,
         \/ HeartbeatTimeout(c) \/ ReceiveEvent(c) \/ EndEvent(c) \/ BeginRefresh(c)
         \/ CallRefused(c) \/ Send(c) \/ Answered(c) \/ Failed(c) \/ PeerStep(c)
  PROVE  QuietStep
<1> USE DEF client, chain
<1>1. CASE PeerStep(c)
  <2>1. UNCHANGED <<loop, client, chain, calls, newest>>
    BY <1>1 DEF PeerStep, SendEvent, Leave, AnswerRequest
  <2> QED BY <2>1 DEF QuietStep, InCall, Running
<1>2. CASE ~PeerStep(c)
  <2>1. UNCHANGED <<client, calls, newest>>
    BY <1>2 DEF HeartbeatTimeout, ReceiveEvent, EndEvent, BeginRefresh, CallRefused, Send,
                Answered, Failed
  <2>2. /\ \A d \in Conns \ {c} : loop'[d] = loop[d] /\ call'[d] = call[d] /\ via'[d] = via[d]
        /\ loop[c] \notin {"unborn", "gone"} /\ loop'[c] \notin {"unborn", "gone"}
        /\ via'[c] \in {via[c], current}
    BY <1>2 DEF HeartbeatTimeout, ReceiveEvent, CanReceive, EndEvent, BeginRefresh, CallRefused,
                Send, Answered, Failed, NextAttempt, Goto, TypeOK
  <2>3. /\ InCall(c)' => InCall(c) /\ via'[c] = via[c] /\ call'[c] = call[c]
        /\ InCall(c) /\ future[call[c]] = "pending" => InCall(c)'
    BY <1>2 DEF HeartbeatTimeout, ReceiveEvent, CanReceive, EndEvent, BeginRefresh, CallRefused,
                Send, Answered, Failed, NextAttempt, Goto, TypeOK, InCall
  <2>4. \A d \in Conns \ {c} : (InCall(d)' <=> InCall(d)) /\ (Running(d)' <=> Running(d))
    BY <2>2 DEF InCall, Running
  <2>5. Running(c)' <=> Running(c)
    BY <2>2 DEF Running
  <2> QED BY <2>1, <2>2, <2>3, <2>4, <2>5 DEF QuietStep
<1> QED BY <1>1, <1>2

LEMMA QuietStepKeepsInv ==
  ASSUME ChannelInv, TypeOK', QuietStep
  PROVE  ChannelInv'
<1> USE DEF client
<1>1. Registered'
  <2>1. ASSUME NEW c \in Conns, NEW k \in pending'[c]
        PROVE  \E d \in Conns : Awaits(d, c, k)'
    <3>1. PICK d \in Conns : Awaits(d, c, k)
      BY <2>1 DEF ChannelInv, Registered, QuietStep
    <3>2. InCall(d)'
      BY <3>1 DEF QuietStep, Awaits
    <3> QED BY <3>1, <3>2 DEF QuietStep, Awaits
  <2>2. ASSUME NEW d \in Conns, InCall(d)', future'[call'[d]] = "pending"
        PROVE  call'[d] \in pending'[via'[d]]
    BY <2>2 DEF ChannelInv, Registered, QuietStep
  <2> QED BY <2>1, <2>2 DEF Registered
<1>2. EchoesAreFresh'
  BY DEF ChannelInv, EchoesAreFresh, QuietStep
<1>3. current # None => current \in Conns /\ loop[current] # "unborn"
  BY DEF ChannelInv, CurrentIsNewest, Running, TypeOK
<1>4. OthersAreClosed'
  <2>1. \A c \in Conns : loop'[c] # "unborn" /\ c \notin closed' => c = current'
    BY DEF ChannelInv, OthersAreClosed, QuietStep
  <2>2. ASSUME NEW d \in Conns, via'[d] # None
        PROVE  loop'[via'[d]] # "unborn"
    <3>1. via'[d] \in Conns /\ loop[via'[d]] # "unborn"
      <4>1. CASE via'[d] = via[d]
        BY <2>2, <4>1 DEF ChannelInv, OthersAreClosed, TypeOK
      <4>2. CASE via'[d] = current
        BY <2>2, <4>2, <1>3
      <4> QED BY <4>1, <4>2 DEF QuietStep
    <3> QED BY <3>1 DEF QuietStep
  <2> QED BY <2>1, <2>2 DEF OthersAreClosed
<1>5. OwnCallsUnanswered'
  BY DEF ChannelInv, OwnCallsUnanswered, QuietStep
<1>6. OnlyCurrentWaits'
  BY DEF ChannelInv, OnlyCurrentWaits, QuietStep
<1>7. CurrentIsNewest'
  BY DEF ChannelInv, CurrentIsNewest, QuietStep, TypeOK
<1> QED BY <1>1, <1>2, <1>4, <1>5, <1>6, <1>7 DEF ChannelInv

\* close() fails the calls of the clients it closes and no other.
LEMMA CloseKeepsCalls ==
  ASSUME ChannelInv, NEW gone \in SUBSET Conns, Close(gone), UNCHANGED <<via, call, calls>>,
         \A d \in Conns : InCall(d)' <=> InCall(d)
  PROVE  Registered' /\ EchoesAreFresh' /\ OwnCallsUnanswered'
<1>1. ASSUME NEW d \in Conns, InCall(d)
      PROVE  /\ call[d] \in Echoes /\ via[d] \in Conns
             /\ future'[call[d]] = IF future[call[d]] = "pending" /\ via[d] \in gone
                                   THEN "failed" ELSE future[call[d]]
  <2>1. call[d] \in Echoes /\ via[d] \in Conns
    BY <1>1 DEF ChannelInv, TypeOK, InCall
  <2>2. (\E c \in gone : call[d] \in pending[c]) <=> future[call[d]] = "pending" /\ via[d] \in gone
    <3>1. ASSUME NEW c \in gone, call[d] \in pending[c]
          PROVE  future[call[d]] = "pending" /\ via[d] \in gone
      <4>1. PICK e \in Conns : Awaits(e, c, call[d])
        BY <3>1 DEF ChannelInv, Registered
      <4>2. e = d
        BY <1>1, <4>1 DEF ChannelInv, EchoesAreFresh, Awaits
      <4> QED BY <4>1, <4>2 DEF Awaits
    <3>2. future[call[d]] = "pending" => call[d] \in pending[via[d]]
      BY <1>1 DEF ChannelInv, Registered
    <3> QED BY <3>1, <3>2
  <2> QED BY <2>1, <2>2 DEF Close
<1>2. Registered'
  <2>1. ASSUME NEW c \in Conns, NEW k \in pending'[c]
        PROVE  \E d \in Conns : Awaits(d, c, k)'
    <3>1. c \notin gone /\ k \in pending[c]
      BY <2>1 DEF Close
    <3>2. PICK d \in Conns : Awaits(d, c, k)
      BY <3>1 DEF ChannelInv, Registered
    <3>3. future'[k] = "pending" /\ InCall(d)'
      BY <3>1, <3>2, <1>1 DEF Awaits
    <3> QED BY <3>2, <3>3 DEF Awaits
  <2>2. ASSUME NEW d \in Conns, InCall(d)', future'[call'[d]] = "pending"
        PROVE  call'[d] \in pending'[via'[d]]
    <3>1. InCall(d) /\ future[call[d]] = "pending" /\ via[d] \notin gone
      BY <2>2, <1>1
    <3> QED BY <3>1, <1>1 DEF ChannelInv, Registered, Close
  <2> QED BY <2>1, <2>2 DEF Registered
<1>3. EchoesAreFresh'
  BY DEF ChannelInv, EchoesAreFresh
<1>4. OwnCallsUnanswered'
  BY <1>1 DEF ChannelInv, OwnCallsUnanswered
<1> QED BY <1>2, <1>3, <1>4

LEMMA NextChannelInv == ChannelInv /\ [Next]_channelVars => ChannelInv'
<1> SUFFICES ASSUME ChannelInv, [Next]_channelVars
             PROVE  ChannelInv'
  OBVIOUS
<1>1. TypeOK /\ TypeOK'
  BY NextType DEF ChannelInv
<1> USE NoneAssumption DEF client, chain
<1>2. ASSUME NEW c \in Conns, Connect(c)
      PROVE  ChannelInv'
  <2>1. ReplacedBy(c) \in SUBSET Conns /\ Close(ReplacedBy(c)) /\ UNCHANGED <<via, call, calls>>
    BY <1>1, <1>2 DEF Connect, ReplacedBy, TypeOK
  <2>2. \A d \in Conns : InCall(d)' <=> InCall(d)
    BY <1>1, <1>2 DEF Connect, Goto, InCall, TypeOK
  <2>3. Registered' /\ EchoesAreFresh' /\ OwnCallsUnanswered'
    BY <2>1, <2>2, CloseKeepsCalls
  <2>4. OthersAreClosed'
    <3>1. \A d \in Conns : loop'[d] = IF d = c THEN "receive" ELSE loop[d]
      BY <1>1, <1>2 DEF Connect, Goto, TypeOK
    <3>2. closed' = closed \union ({current} \ {None}) /\ current' = c /\ via' = via
      BY <1>2 DEF Connect, Close, ReplacedBy
    <3>3. via \in [Conns -> Conns \union {None}]
      BY <1>1 DEF TypeOK
    <3> QED BY <3>1, <3>2, <3>3 DEF ChannelInv, OthersAreClosed
  <2>5. OnlyCurrentWaits'
    <3>1. \A d \in Conns : pending'[d] = IF d \in {current} \ {None} THEN {} ELSE pending[d]
      BY <1>2 DEF Connect, Close, ReplacedBy
    <3> QED BY <3>1 DEF ChannelInv, OnlyCurrentWaits
  <2>6. CurrentIsNewest'
    <3>1. loop'[c] = "receive" /\ current' = c /\ newest' = c
      BY <1>1, <1>2 DEF Connect, Goto, TypeOK
    <3> QED BY <3>1 DEF CurrentIsNewest, Running
  <2> QED BY <1>1, <2>3, <2>4, <2>5, <2>6 DEF ChannelInv
<1>3. ASSUME NEW c \in Conns, Disconnect(c)
      PROVE  ChannelInv'
  <2>1. /\ Close({c}) /\ UNCHANGED <<via, call, calls, newest>>
        /\ current' = IF current = c THEN None ELSE current
        /\ loop[c] \in {"closing", "receive"}
        /\ \A d \in Conns : loop'[d] = IF d = c THEN "gone" ELSE loop[d]
    BY <1>1, <1>3 DEF Disconnect, CanReceive, CurrentWithout, Goto, TypeOK
  <2>2. \A d \in Conns : InCall(d)' <=> InCall(d)
    BY <2>1 DEF InCall
  <2>3. Registered' /\ EchoesAreFresh' /\ OwnCallsUnanswered'
    BY <2>1, <2>2, CloseKeepsCalls
  <2>4. closed' = closed \union {c} /\ \A d \in Conns : pending'[d] = IF d = c THEN {} ELSE pending[d]
    BY <2>1 DEF Close
  <2>5. OthersAreClosed'
    <3>1. via \in [Conns -> Conns \union {None}]
      BY <1>1 DEF TypeOK
    <3> QED BY <2>1, <2>4, <3>1 DEF ChannelInv, OthersAreClosed
  <2>6. OnlyCurrentWaits'
    BY <2>1, <2>4 DEF ChannelInv, OnlyCurrentWaits
  <2>7. CurrentIsNewest'
    <3>1. newest \in Conns \union {None} /\ current = IF newest # None /\ Running(newest) THEN newest ELSE None
      BY <1>1 DEF TypeOK, ChannelInv, CurrentIsNewest
    <3>2. Running(c) /\ ~Running(c)' /\ \A d \in Conns \ {c} : Running(d)' <=> Running(d)
      BY <2>1 DEF Running
    <3> QED BY <2>1, <3>1, <3>2 DEF CurrentIsNewest
  <2> QED BY <1>1, <2>3, <2>5, <2>6, <2>7 DEF ChannelInv
<1>4. ASSUME NEW c \in Conns, ReceiveAnswer(c)
      PROVE  ChannelInv'
  <2> DEFINE k == Head(inbox[c])
  <2>1. /\ k \in Echoes /\ loop[c] = "receive"
        /\ UNCHANGED <<loop, closed, current, via, call, calls, newest>>
        /\ pending' = [pending EXCEPT ![c] = @ \ {k}]
        /\ future' = [future EXCEPT ![k] = IF k \in pending[c] THEN "answered" ELSE @]
    <3>1. /\ k \in Echoes /\ loop[c] = "receive"
          /\ UNCHANGED <<loop, closed, current, via, call, calls, newest>>
      BY <1>1, <1>4, ReadType DEF ReceiveAnswer, CanReceive, Frames
    <3>2. pending' = [pending EXCEPT ![c] = @ \ {k}]
      BY <1>4 DEF ReceiveAnswer, Completed
    <3>3. k \in pending[c] => future[k] = "pending"
      BY DEF ChannelInv, Registered, Awaits
    <3>4. future' = [future EXCEPT ![k] = IF k \in pending[c] THEN "answered" ELSE @]
      <4>1. future' = [j \in Echoes |-> IF j \in pending[c] \cap {k} /\ future[j] = "pending"
                                          THEN "answered" ELSE future[j]]
        BY <1>4 DEF ReceiveAnswer, Completed
      <4>2. future \in [Echoes -> Outcomes]
        BY <1>1 DEF TypeOK
      <4> HIDE DEF k
      <4> QED BY <3>1, <3>3, <4>1, <4>2
    <3> QED BY <3>1, <3>2, <3>4
  <2> HIDE DEF k
  <2>2. ~InCall(c) /\ \A d \in Conns : InCall(d)' <=> InCall(d)
    BY <2>1 DEF InCall
  <2>3. \A d \in Conns : InCall(d) => call[d] \in Echoes /\ via[d] \in Conns
    BY <1>1 DEF TypeOK, InCall
  <2>4. ASSUME NEW d \in Conns, InCall(d), call[d] = k, k \in pending[c]
        PROVE  via[d] = c
    BY <2>4 DEF ChannelInv, Registered, Awaits, EchoesAreFresh
  <2>5. Registered'
    <3>1. ASSUME NEW x \in Conns, NEW j \in pending'[x]
          PROVE  \E d \in Conns : Awaits(d, x, j)'
      <4>1. j \in pending[x] /\ (x = c => j # k)
        BY <1>1, <2>1, <3>1 DEF TypeOK
      <4>2. PICK d \in Conns : Awaits(d, x, j)
        BY <4>1 DEF ChannelInv, Registered
      <4>3. j # k \/ k \notin pending[c]
        BY <2>4, <4>1, <4>2 DEF Awaits
      <4>4. future'[j] = "pending"
        BY <1>1, <2>1, <4>2, <4>3 DEF TypeOK, Awaits
      <4> QED BY <2>1, <2>2, <4>2, <4>4 DEF Awaits
    <3>2. ASSUME NEW d \in Conns, InCall(d)', future'[call'[d]] = "pending"
          PROVE  call'[d] \in pending'[via'[d]]
      <4>1. InCall(d) /\ call[d] \in Echoes /\ via[d] \in Conns /\ future'[call[d]] = "pending"
        BY <2>1, <2>2, <2>3, <3>2
      <4>2. future[call[d]] = "pending" /\ (call[d] = k => k \notin pending[c])
        BY <1>1, <2>1, <4>1 DEF TypeOK
      <4>3. call[d] \in pending[via[d]]
        BY <4>1, <4>2 DEF ChannelInv, Registered
      <4> QED BY <1>1, <2>1, <4>1, <4>2, <4>3 DEF TypeOK
    <3> QED BY <3>1, <3>2 DEF Registered
  <2>6. EchoesAreFresh' /\ OthersAreClosed'
    BY <2>1, <2>2 DEF ChannelInv, EchoesAreFresh, OthersAreClosed
  <2>7. OwnCallsUnanswered'
    <3> SUFFICES ASSUME NEW d \in Conns, InCall(d)', future'[call'[d]] = "answered"
                 PROVE  via'[d] # d
      BY DEF OwnCallsUnanswered
    <3>1. InCall(d) /\ call'[d] = call[d] /\ via'[d] = via[d] /\ call[d] \in Echoes
      BY <2>1, <2>2, <2>3
    <3>2. CASE call[d] = k /\ k \in pending[c]
      BY <2>2, <2>4, <3>1, <3>2
    <3>3. CASE ~(call[d] = k /\ k \in pending[c])
      <4>1. future[call[d]] = "answered"
        BY <1>1, <2>1, <3>1, <3>3 DEF TypeOK
      <4> QED BY <3>1, <4>1 DEF ChannelInv, OwnCallsUnanswered
    <3> QED BY <3>2, <3>3
  <2>8. OnlyCurrentWaits'
    <3>1. \A d \in Conns : pending'[d] \subseteq pending[d]
      BY <1>1, <2>1 DEF TypeOK
    <3> QED BY <2>1, <3>1 DEF ChannelInv, OnlyCurrentWaits
  <2>9. CurrentIsNewest'
    BY <2>1 DEF ChannelInv, CurrentIsNewest, Running
  <2> QED BY <1>1, <2>5, <2>6, <2>7, <2>8, <2>9 DEF ChannelInv
<1>5. ASSUME NEW c \in Conns, CallAction(c)
      PROVE  ChannelInv'
  <2> DEFINE k == calls + 1
  <2>1. /\ loop[c] = "call" /\ via[c] \in Conns /\ via[c] \notin closed
        /\ calls \in Nat /\ k \in Echoes /\ calls' = k
        /\ UNCHANGED <<closed, current, via, newest>>
        /\ \A d \in Conns : call'[d] = IF d = c THEN k ELSE call[d]
        /\ \A x \in Conns : pending'[x] = IF x = via[c] THEN pending[x] \union {k} ELSE pending[x]
        /\ \A j \in Echoes : future'[j] = IF j = k THEN "pending" ELSE future[j]
        /\ \A d \in Conns : loop'[d] = IF d = c THEN "send" ELSE loop[d]
    <3>1. loop[c] = "call" /\ via[c] \in Conns /\ via[c] \notin closed /\ calls \in Nat
            /\ k \in Echoes /\ calls' = k
      BY <1>1, <1>5 DEF CallAction, Unusable, TypeOK, Echoes
    <3>2. UNCHANGED <<closed, current, via, newest>>
      BY <1>5 DEF CallAction
    <3>3. /\ \A d \in Conns : call'[d] = IF d = c THEN k ELSE call[d]
          /\ \A d \in Conns : loop'[d] = IF d = c THEN "send" ELSE loop[d]
      BY <1>1, <1>5 DEF CallAction, Goto, TypeOK
    <3>4. \A x \in Conns : pending'[x] = IF x = via[c] THEN pending[x] \union {k} ELSE pending[x]
      BY <1>1, <1>5, <3>1 DEF CallAction, TypeOK
    <3>5. \A j \in Echoes : future'[j] = IF j = k THEN "pending" ELSE future[j]
      BY <1>1, <1>5, <3>1 DEF CallAction, TypeOK
    <3> QED BY <3>1, <3>2, <3>3, <3>4, <3>5
  <2>2. \A d \in Conns : InCall(d)' <=> d = c \/ InCall(d)
    BY <2>1 DEF InCall
  <2>3. ~InCall(c)
    BY <2>1 DEF InCall
  <2>4. \A d \in Conns : InCall(d) => call[d] \in Echoes /\ call[d] <= calls /\ call[d] # k
    BY <1>1, <2>1 DEF ChannelInv, EchoesAreFresh, TypeOK, InCall, Echoes
  <2> HIDE DEF k
  <2>5. Registered'
    <3>1. ASSUME NEW x \in Conns, NEW j \in pending'[x]
          PROVE  \E d \in Conns : Awaits(d, x, j)'
      <4>1. CASE j \in pending[x]
        <5>1. PICK d \in Conns : Awaits(d, x, j)
          BY <4>1 DEF ChannelInv, Registered
        <5>2. d # c /\ j \in Echoes /\ j # k
          BY <2>3, <2>4, <5>1 DEF Awaits
        <5> QED BY <2>1, <2>2, <5>1, <5>2 DEF Awaits
      <4>2. CASE j \notin pending[x]
        <5>1. x = via[c] /\ j = k
          BY <2>1, <3>1, <4>2
        <5>2. Awaits(c, x, j)'
          BY <2>1, <2>2, <5>1 DEF Awaits
        <5> QED BY <5>2
      <4> QED BY <4>1, <4>2
    <3>2. ASSUME NEW d \in Conns, InCall(d)', future'[call'[d]] = "pending"
          PROVE  call'[d] \in pending'[via'[d]]
      <4>1. CASE d = c
        BY <2>1, <4>1
      <4>2. CASE d # c
        <5>1. InCall(d) /\ call'[d] = call[d] /\ future[call[d]] = "pending"
          BY <2>1, <2>2, <2>4, <3>2, <4>2
        <5>2. via[d] \in Conns
          BY <1>1, <5>1 DEF TypeOK, InCall
        <5> QED BY <2>1, <5>1, <5>2 DEF ChannelInv, Registered
      <4> QED BY <4>1, <4>2
    <3> QED BY <3>1, <3>2 DEF Registered
  <2>6. EchoesAreFresh'
    <3>1. \A d \in Conns : InCall(d)' => call'[d] <= calls'
      <4>1. k = calls + 1 /\ \A d \in Conns : InCall(d) => call[d] \in Nat
        BY <2>4 DEF k, Echoes
      <4> QED BY <2>1, <2>2, <2>4, <4>1
    <3>2. \A d, e \in Conns : InCall(d)' /\ InCall(e)' /\ call'[d] = call'[e] => d = e
      BY <2>1, <2>2, <2>4 DEF ChannelInv, EchoesAreFresh
    <3> QED BY <3>1, <3>2 DEF EchoesAreFresh
  <2>7. OthersAreClosed'
    <3>1. via \in [Conns -> Conns \union {None}]
      BY <1>1 DEF TypeOK
    <3> QED BY <2>1, <3>1 DEF ChannelInv, OthersAreClosed
  <2>8. OwnCallsUnanswered'
    BY <2>1, <2>2, <2>4 DEF ChannelInv, OwnCallsUnanswered
  <2>9. via[c] = current
    BY <2>1 DEF ChannelInv, OthersAreClosed, OthersAreClosed
  <2>10. OnlyCurrentWaits'
    BY <2>1, <2>9 DEF ChannelInv, OnlyCurrentWaits
  <2>11. CurrentIsNewest'
    <3>1. newest \in Conns \union {None} /\ \A d \in Conns : Running(d)' <=> Running(d)
      BY <1>1, <2>1 DEF TypeOK, Running
    <3> QED BY <2>1, <3>1 DEF ChannelInv, CurrentIsNewest
  <2> QED BY <1>1, <2>5, <2>6, <2>7, <2>8, <2>10, <2>11 DEF ChannelInv
<1>6. ASSUME NEW c \in Conns, NEW outcome \in {"failed", "timedOut"}, InCall(c), GiveUp(c, outcome)
      PROVE  ChannelInv'
  <2>1. /\ call[c] \in Echoes /\ via[c] \in Conns
        /\ UNCHANGED <<closed, current, via, calls, newest>>
        /\ \A x \in Conns : pending'[x] = IF x = via[c] THEN pending[x] \ {call[c]} ELSE pending[x]
        /\ \A j \in Echoes : future'[j] = IF j = call[c] /\ future[j] = "pending"
                                            THEN outcome ELSE future[j]
        /\ \A d \in Conns \ {c} : loop'[d] = loop[d] /\ call'[d] = call[d]
        /\ loop'[c] \in {"event", "call"}
    BY <1>1, <1>6 DEF GiveUp, Forgotten, NextAttempt, Goto, TypeOK, InCall
  <2>2. \A d \in Conns : InCall(d)' <=> d # c /\ InCall(d)
    BY <2>1 DEF InCall
  <2>3. \A d \in Conns \ {c} : InCall(d) => call[d] \in Echoes /\ via[d] \in Conns /\ call[d] # call[c]
    BY <1>1, <1>6 DEF ChannelInv, EchoesAreFresh, TypeOK, InCall
  <2>4. Registered'
    <3>1. ASSUME NEW x \in Conns, NEW j \in pending'[x]
          PROVE  \E d \in Conns : Awaits(d, x, j)'
      <4>1. j \in pending[x] /\ (x = via[c] => j # call[c])
        BY <2>1, <3>1
      <4>2. PICK d \in Conns : Awaits(d, x, j)
        BY <4>1 DEF ChannelInv, Registered
      <4>3. d # c
        BY <4>1, <4>2 DEF Awaits
      <4>4. j \in Echoes /\ j # call[c]
        BY <2>3, <4>2, <4>3 DEF Awaits
      <4> QED BY <2>1, <2>2, <4>2, <4>3, <4>4 DEF Awaits
    <3>2. ASSUME NEW d \in Conns, InCall(d)', future'[call'[d]] = "pending"
          PROVE  call'[d] \in pending'[via'[d]]
      <4>1. d # c /\ InCall(d) /\ call'[d] = call[d] /\ via'[d] = via[d] /\ via[d] \in Conns
              /\ call[d] # call[c] /\ future[call[d]] = "pending"
        BY <2>1, <2>2, <2>3, <3>2
      <4> QED BY <2>1, <4>1 DEF ChannelInv, Registered
    <3> QED BY <3>1, <3>2 DEF Registered
  <2>5. EchoesAreFresh'
    BY <2>1, <2>2 DEF ChannelInv, EchoesAreFresh
  <2>6. OthersAreClosed'
    <3>1. via \in [Conns -> Conns \union {None}] /\ loop[c] # "unborn" /\ loop'[c] # "unborn"
      BY <1>1, <1>6, <2>1 DEF TypeOK, InCall
    <3> QED BY <2>1, <3>1 DEF ChannelInv, OthersAreClosed
  <2>7. OwnCallsUnanswered'
    BY <2>1, <2>2, <2>3 DEF ChannelInv, OwnCallsUnanswered
  <2>8. OnlyCurrentWaits'
    BY <2>1 DEF ChannelInv, OnlyCurrentWaits
  <2>9. CurrentIsNewest'
    <3>1. newest \in Conns \union {None} /\ \A d \in Conns : Running(d)' <=> Running(d)
      BY <1>1, <1>6, <2>1 DEF TypeOK, Running, InCall
    <3> QED BY <2>1, <3>1 DEF ChannelInv, CurrentIsNewest
  <2> QED BY <1>1, <2>4, <2>5, <2>6, <2>7, <2>8, <2>9 DEF ChannelInv
<1>7. ASSUME NEW c \in Conns,
             \/ HeartbeatTimeout(c) \/ ReceiveEvent(c) \/ EndEvent(c) \/ BeginRefresh(c)
             \/ CallRefused(c) \/ Send(c) \/ Answered(c) \/ Failed(c) \/ PeerStep(c)
      PROVE  ChannelInv'
  BY <1>1, <1>7, QuietSteps, QuietStepKeepsInv
<1>9. ASSUME NEW c \in Conns, HandlerStep(c) \/ HeartbeatTimeout(c)
      PROVE  ChannelInv'
  <2>1. ASSUME SendFails(c) \/ Timeout(c)
        PROVE  ChannelInv'
    BY <2>1, <1>6 DEF SendFails, Timeout, InCall
  <2> QED BY <1>3, <1>4, <1>5, <1>7, <1>9, <2>1 DEF HandlerStep
<1>10. CASE UNCHANGED channelVars
  <2>1. QuietStep
    BY <1>10 DEF channelVars, QuietStep, InCall, Running
  <2> QED BY <1>1, <2>1, QuietStepKeepsInv
<1> QED BY <1>2, <1>7, <1>9, <1>10 DEF Next

LEMMA ChannelInvariant == Spec => []ChannelInv
BY InitChannelInv, NextChannelInv, PTL DEF Spec

-----------------------------------------------------------------------------
(* What follows *)

\* Nobody waits for a call that neither an answer nor close() can wake, and no
\* client keeps an entry nobody awaits.
THEOREM CallsAreRegistered == Spec => []PendingIsAwaited
<1>1. ChannelInv => PendingIsAwaited
  BY DEF ChannelInv, Registered, Awaits, InCall, PendingIsAwaited, AwaitedOn
<1> QED BY <1>1, ChannelInvariant, PTL

\* A client that was replaced or disconnected has failed its calls.
THEOREM ReplacedClientsFailTheirCalls == Spec => []OnlyCurrentWaits
<1>1. ChannelInv => OnlyCurrentWaits
  BY DEF ChannelInv
<1> QED BY <1>1, ChannelInvariant, PTL

\* The end of an old connection never unseats the client of a newer one.
THEOREM NewestConnectionServes == Spec => []CurrentIsNewest
<1>1. ChannelInv => CurrentIsNewest
  BY DEF ChannelInv
<1> QED BY <1>1, ChannelInvariant, PTL

\* Whatever the timeouts, a refresh made by the handler of the connection it
\* asks is never answered.
THEOREM OwnSocketIsDeaf == Spec => []OwnSocketNeverAnswers
<1>1. ChannelInv => OwnSocketNeverAnswers
  BY DEF ChannelInv, OwnCallsUnanswered, InCall, OwnSocketNeverAnswers
<1> QED BY <1>1, ChannelInvariant, PTL

-----------------------------------------------------------------------------
(* The channel keeps the promise of call_action: an invariant about the wire *)

\* A call that is not done has a handler that waits for it.
CallersWait ==
  \A k \in Echoes : future[k] = "pending" => \E d \in Conns : InCall(d) /\ call[d] = k

\* Echoes are used in turn.
EchoesInTurn == \A k \in Echoes : future[k] = "none" <=> k > calls

\* A call is not done before it is sent, unless its client failed it.
SendersUnanswered ==
  \A d \in Conns : loop[d] = "send" => future[call[d]] \in {"pending", "failed"}

\* The reply to call k has come on connection c; or is to come.
Come(c, k)      == \E i \in DOMAIN inbox[c] : inbox[c][i] = k
OnTheWire(c, k) == k \in asked[c] \/ Come(c, k)

\* Request and reply travel on the connection of the client that was called.
OnItsConnection ==
  \A c \in Conns, k \in Echoes : OnTheWire(c, k) =>
    /\ future[k] # "none"
    /\ \A d \in Conns : InCall(d) /\ call[d] = k => via[d] = c /\ loop[d] = "wait"

\* Each call has one request or one reply there.
AskedOnce ==
  \A c, d \in Conns : \A k \in asked[c] : (k \in asked[d] => c = d) /\ ~Come(d, k)

RepliesOnce ==
  \A c, d \in Conns : \A i \in DOMAIN inbox[c], j \in DOMAIN inbox[d] :
    inbox[c][i] = inbox[d][j] /\ inbox[c][i] # AnEvent => c = d /\ i = j

\* A connection that is being closed has nothing left to read.
ClosingIsRead == \A c \in Conns : loop[c] = "closing" => inbox[c] = <<>> /\ c \notin linked

WireInv == CallersWait /\ EchoesInTurn /\ SendersUnanswered /\ OnItsConnection
           /\ AskedOnce /\ RepliesOnce /\ ClosingIsRead

LEMMA InitWireInv == Init => WireInv
BY DEF Init, WireInv, CallersWait, EchoesInTurn, SendersUnanswered, Come, OnTheWire,
       OnItsConnection, AskedOnce, RepliesOnce, ClosingIsRead, Echoes

\* What Append and Tail do to an inbox.
LEMMA Arrived ==
  ASSUME TypeOK, NEW c \in Conns, NEW frame \in Frames, Arrive(c, frame)
  PROVE  /\ \A d \in Conns \ {c} : inbox'[d] = inbox[d]
         /\ Len(inbox[c]) \in Nat /\ DOMAIN inbox[c] = 1..Len(inbox[c])
         /\ DOMAIN inbox'[c] = 1..(Len(inbox[c]) + 1)
         /\ \A i \in 1..Len(inbox[c]) : inbox'[c][i] = inbox[c][i]
         /\ inbox'[c][Len(inbox[c]) + 1] = frame
<1>1. inbox \in [Conns -> Seq(Frames)] /\ inbox[c] \in Seq(Frames)
  BY DEF TypeOK
<1>2. /\ \A d \in Conns \ {c} : inbox'[d] = inbox[d]
      /\ inbox'[c] = Append(inbox[c], frame)
  BY <1>1 DEF Arrive
<1>3. Len(inbox[c]) \in Nat /\ DOMAIN inbox[c] = 1..Len(inbox[c])
  BY <1>1, LenProperties
<1>4. /\ Len(Append(inbox[c], frame)) = Len(inbox[c]) + 1
      /\ DOMAIN Append(inbox[c], frame) = 1..(Len(inbox[c]) + 1)
      /\ \A i \in 1..Len(inbox[c]) : Append(inbox[c], frame)[i] = inbox[c][i]
      /\ Append(inbox[c], frame)[Len(inbox[c]) + 1] = frame
  BY <1>1, <1>3, AppendProperties, LenProperties
<1> QED BY <1>2, <1>3, <1>4

LEMMA WasRead ==
  ASSUME TypeOK, NEW c \in Conns, inbox[c] # <<>>, inbox' = [inbox EXCEPT ![c] = Tail(@)]
  PROVE  /\ \A d \in Conns \ {c} : inbox'[d] = inbox[d]
         /\ 1 \in DOMAIN inbox[c] /\ inbox[c][1] = Head(inbox[c])
         /\ \A i \in DOMAIN inbox'[c] :
              i \in Nat /\ i # 0 /\ i + 1 \in DOMAIN inbox[c] /\ inbox'[c][i] = inbox[c][i + 1]
         /\ \A i \in DOMAIN inbox[c] : i # 1 => i \in Nat /\ i - 1 \in DOMAIN inbox'[c]
<1>1. inbox \in [Conns -> Seq(Frames)] /\ inbox[c] \in Seq(Frames)
  BY DEF TypeOK
<1>2. /\ \A d \in Conns \ {c} : inbox'[d] = inbox[d]
      /\ inbox'[c] = Tail(inbox[c])
  BY <1>1
<1>3. /\ Len(inbox[c]) \in Nat /\ Len(inbox[c]) # 0 /\ DOMAIN inbox[c] = 1..Len(inbox[c])
  BY <1>1, LenProperties, EmptySeq
<1>4. /\ DOMAIN Tail(inbox[c]) = 1..(Len(inbox[c]) - 1)
      /\ \A i \in 1..(Len(inbox[c]) - 1) : Tail(inbox[c])[i] = inbox[c][i + 1]
      /\ Head(inbox[c]) = inbox[c][1]
  BY <1>1, <1>3, HeadTailProperties, LenProperties
<1>5. /\ \A i \in 1..(Len(inbox[c]) - 1) : i \in Nat /\ i # 0 /\ i + 1 \in 1..Len(inbox[c])
      /\ \A i \in 1..Len(inbox[c]) : i # 1 => i \in Nat /\ i - 1 \in 1..(Len(inbox[c]) - 1)
      /\ 1 \in 1..Len(inbox[c])
  BY <1>3
<1> QED BY <1>2, <1>3, <1>4, <1>5

\* A frame arrives: what there is to read grows by it.
LEMMA ArrivedFrames ==
  ASSUME TypeOK, NEW c \in Conns, NEW frame \in Frames, Arrive(c, frame)
  PROVE  /\ \A d \in Conns, k \in Echoes : Come(d, k)' <=> Come(d, k) \/ (d = c /\ k = frame)
         /\ RepliesOnce /\ (frame # AnEvent => \A d \in Conns : ~Come(d, frame)) => RepliesOnce'
<1> DEFINE n == Len(inbox[c])
<1>1. /\ \A d \in Conns \ {c} : inbox'[d] = inbox[d]
      /\ n \in Nat /\ DOMAIN inbox[c] = 1..n
      /\ DOMAIN inbox'[c] = 1..(n + 1)
      /\ \A i \in 1..n : inbox'[c][i] = inbox[c][i]
      /\ inbox'[c][n + 1] = frame
  BY Arrived
<1>2. \A m : m = n => 1..(m + 1) = (1..m) \union {m + 1}
  BY <1>1
<1>3. DOMAIN inbox'[c] = DOMAIN inbox[c] \union {n + 1} /\ n + 1 \notin DOMAIN inbox[c]
  BY <1>1, <1>2
<1>4. \A i \in DOMAIN inbox[c] : inbox'[c][i] = inbox[c][i]
  BY <1>1
<1>5. ASSUME NEW d \in Conns, NEW k \in Echoes
      PROVE  Come(d, k)' <=> Come(d, k) \/ (d = c /\ k = frame)
  <2>1. CASE d = c
    BY <1>1, <1>3, <1>4, <2>1 DEF Come
  <2>2. CASE d # c
    BY <1>1, <2>2 DEF Come
  <2> QED BY <2>1, <2>2
<1>6. ASSUME RepliesOnce, frame # AnEvent => \A d \in Conns : ~Come(d, frame)
      PROVE  RepliesOnce'
  <2>1. \A d \in Conns : \A i \in DOMAIN inbox[d] : frame # AnEvent => inbox[d][i] # frame
    BY <1>6 DEF Come
  <2>2. \A d \in Conns : \A i \in DOMAIN inbox'[d] :
          \/ i \in DOMAIN inbox[d] /\ inbox'[d][i] = inbox[d][i]
          \/ d = c /\ i = n + 1 /\ inbox'[d][i] = frame
    BY <1>1, <1>3, <1>4
  <2> HIDE DEF n
  <2> QED BY <1>6, <2>1, <2>2 DEF RepliesOnce
<1> QED BY <1>5, <1>6

\* The frame at the front is read: what there is to read shrinks by it.
LEMMA ReadFrames ==
  ASSUME TypeOK, RepliesOnce, NEW c \in Conns, inbox[c] # <<>>,
         inbox' = [inbox EXCEPT ![c] = Tail(@)]
  PROVE  /\ \A d \in Conns, k \in Echoes :
              Come(d, k)' <=> Come(d, k) /\ ~(d = c /\ k = Head(inbox[c]))
         /\ RepliesOnce'
<1>1. /\ \A d \in Conns \ {c} : inbox'[d] = inbox[d]
      /\ 1 \in DOMAIN inbox[c] /\ inbox[c][1] = Head(inbox[c])
      /\ \A i \in DOMAIN inbox'[c] :
           i \in Nat /\ i # 0 /\ i + 1 \in DOMAIN inbox[c] /\ inbox'[c][i] = inbox[c][i + 1]
      /\ \A i \in DOMAIN inbox[c] : i # 1 => i \in Nat /\ i - 1 \in DOMAIN inbox'[c]
  BY WasRead
<1>2. ASSUME NEW d \in Conns, NEW k \in Echoes
      PROVE  Come(d, k)' <=> Come(d, k) /\ ~(d = c /\ k = Head(inbox[c]))
  <2>1. CASE d # c
    BY <1>1, <2>1 DEF Come
  <2>2. CASE d = c
    <3>1. ASSUME Come(c, k)'
          PROVE  Come(c, k) /\ k # Head(inbox[c])
      <4>1. PICK i \in DOMAIN inbox'[c] : inbox'[c][i] = k
        BY <3>1 DEF Come
      <4>2. i + 1 \in DOMAIN inbox[c] /\ inbox[c][i + 1] = k /\ i + 1 # 1
        BY <1>1, <4>1
      <4>3. k # AnEvent
        BY DEF Echoes, AnEvent
      <4> QED BY <1>1, <4>2, <4>3 DEF Come, RepliesOnce
    <3>2. ASSUME Come(c, k), k # Head(inbox[c])
          PROVE  Come(c, k)'
      <4>1. PICK i \in DOMAIN inbox[c] : inbox[c][i] = k
        BY <3>2 DEF Come
      <4>2. i \in Nat /\ i - 1 \in DOMAIN inbox'[c]
        BY <1>1, <3>2, <4>1
      <4>3. inbox'[c][i - 1] = inbox[c][(i - 1) + 1] /\ (i - 1) + 1 = i
        BY <1>1, <4>2
      <4> QED BY <4>1, <4>2, <4>3 DEF Come
    <3> QED BY <2>2, <3>1, <3>2
  <2> QED BY <2>1, <2>2
<1>3. RepliesOnce'
  <2> SUFFICES ASSUME NEW d \in Conns, NEW e \in Conns,
                      NEW i \in DOMAIN inbox'[d], NEW j \in DOMAIN inbox'[e],
                      inbox'[d][i] = inbox'[e][j], inbox'[d][i] # AnEvent
               PROVE  d = e /\ i = j
    BY DEF RepliesOnce
  <2> DEFINE before(x, n) == IF x = c THEN n + 1 ELSE n
  <2>1. before(d, i) \in DOMAIN inbox[d] /\ inbox[d][before(d, i)] = inbox'[d][i]
    BY <1>1
  <2>2. before(e, j) \in DOMAIN inbox[e] /\ inbox[e][before(e, j)] = inbox'[e][j]
    BY <1>1
  <2>3. d = e /\ before(d, i) = before(e, j)
    <3> HIDE DEF before
    <3> QED BY <2>1, <2>2 DEF RepliesOnce
  <2>4. CASE d = c
    BY <1>1, <2>3, <2>4
  <2>5. CASE d # c
    BY <2>3, <2>5
  <2> QED BY <2>3, <2>4, <2>5
<1> QED BY <1>2, <1>3

\* A step that sends no request: calls may end, and what was on the wire may
\* have come or been read.
LEMMA NothingSent ==
  ASSUME WireInv, calls' = calls,
         AskedOnce', RepliesOnce', ClosingIsRead',
         \A c \in Conns, k \in Echoes : OnTheWire(c, k)' => OnTheWire(c, k),
         \A k \in Echoes : \/ future'[k] = future[k]
                           \/ future[k] = "pending" /\ future'[k] \in {"answered", "failed", "timedOut"},
         \A d \in Conns : InCall(d)' => /\ InCall(d) /\ call[d] \in Echoes
                                        /\ via'[d] = via[d] /\ call'[d] = call[d] /\ loop'[d] = loop[d],
         \A d \in Conns : InCall(d) /\ future'[call[d]] = "pending" => InCall(d)',
         \A d \in Conns : loop'[d] = "send" => future'[call[d]] \in {"pending", "failed"}
  PROVE  WireInv'
<1>1. CallersWait'
  <2> SUFFICES ASSUME NEW k \in Echoes, future'[k] = "pending"
               PROVE  \E d \in Conns : InCall(d)' /\ call'[d] = k
    BY DEF CallersWait
  <2>1. PICK d \in Conns : InCall(d) /\ call[d] = k
    BY DEF WireInv, CallersWait
  <2> QED BY <2>1
<1>2. EchoesInTurn'
  BY DEF WireInv, EchoesInTurn
<1>3. SendersUnanswered'
  BY DEF SendersUnanswered, InCall
<1>4. OnItsConnection'
  <2> SUFFICES ASSUME NEW c \in Conns, NEW k \in Echoes, OnTheWire(c, k)'
               PROVE  /\ future'[k] # "none"
                      /\ \A d \in Conns : InCall(d)' /\ call'[d] = k => via'[d] = c /\ loop'[d] = "wait"
    BY DEF OnItsConnection
  <2>1. OnTheWire(c, k)
    OBVIOUS
  <2> QED BY <2>1 DEF WireInv, OnItsConnection
<1> QED BY <1>1, <1>2, <1>3, <1>4 DEF WireInv

\* close() changes the outcome of calls that are not done.
LEMMA CloseOutcomes ==
  ASSUME ChannelInv, NEW gone \in SUBSET Conns, Close(gone)
  PROVE  \A k \in Echoes :
           /\ future'[k] = IF \E c \in gone : k \in pending[c] THEN "failed" ELSE future[k]
           /\ (\E c \in gone : k \in pending[c]) => future[k] = "pending"
BY DEF ChannelInv, Registered, Awaits, Close

\* Connections come and go: what was left to read on one is lost.
LEMMA CloseLosesFrames ==
  ASSUME TypeOK, NEW c \in Conns, Connect(c) \/ Disconnect(c)
  PROVE  /\ UNCHANGED <<asked, via, call, calls>>
         /\ \E gone \in SUBSET Conns :
              /\ Close(gone)
              /\ \A d \in Conns : inbox'[d] = inbox[d] \/ (d \in gone /\ inbox'[d] = <<>>)
<1> USE DEF chain
<1>1. CASE Connect(c)
  <2>1. Close(ReplacedBy(c)) /\ ReplacedBy(c) \in SUBSET Conns /\ inbox' = inbox
    BY <1>1 DEF Connect, ReplacedBy, TypeOK
  <2> QED BY <1>1, <2>1 DEF Connect
<1>2. CASE Disconnect(c)
  <2>1. Close({c}) /\ inbox' = [inbox EXCEPT ![c] = <<>>]
    BY <1>2 DEF Disconnect
  <2>2. \A d \in Conns : inbox'[d] = inbox[d] \/ (d \in {c} /\ inbox'[d] = <<>>)
    BY <2>1 DEF TypeOK
  <2>3. UNCHANGED <<asked, via, call, calls>>
    BY <1>2 DEF Disconnect
  <2> QED BY <2>1, <2>2, <2>3
<1> QED BY <1>1, <1>2

LEMMA CloseKeepsWire ==
  ASSUME ChannelInv, WireInv, NEW c \in Conns, Connect(c) \/ Disconnect(c)
  PROVE  WireInv'
<1>1. TypeOK
  BY DEF ChannelInv
<1> USE DEF chain
<1>2. UNCHANGED <<asked, via, call, calls>>
  BY <1>1, CloseLosesFrames
<1>3. PICK gone \in SUBSET Conns :
        Close(gone) /\ \A d \in Conns : inbox'[d] = inbox[d] \/ (d \in gone /\ inbox'[d] = <<>>)
  BY <1>1, CloseLosesFrames
<1>4. \A k \in Echoes : future'[k] = future[k] \/ (future[k] = "pending" /\ future'[k] = "failed")
  BY <1>3, CloseOutcomes
<1>5. /\ \A d \in Conns \ {c} : loop'[d] = loop[d]
      /\ ~InCall(c) /\ loop'[c] \in {"receive", "gone"}
      /\ linked' \subseteq linked \union {c}
  BY <1>1 DEF Connect, Disconnect, CanReceive, Goto, InCall, TypeOK
<1>6. \A d \in Conns : InCall(d)' <=> InCall(d)
  BY <1>5 DEF InCall
<1>7. \A d \in Conns : InCall(d) => call[d] \in Echoes /\ loop'[d] = loop[d]
  BY <1>1, <1>5 DEF InCall, TypeOK
<1>8. AskedOnce' /\ RepliesOnce' /\ ClosingIsRead'
  <2>1. \A d \in Conns : \A i \in DOMAIN inbox'[d] : inbox'[d] = inbox[d]
    BY <1>3
  <2>2. AskedOnce'
    BY <1>2, <2>1 DEF WireInv, AskedOnce, Come
  <2>3. RepliesOnce'
    BY <2>1 DEF WireInv, RepliesOnce
  <2>4. ClosingIsRead'
    BY <1>3, <1>5 DEF WireInv, ClosingIsRead
  <2> QED BY <2>2, <2>3, <2>4
<1>9. \A d \in Conns : loop'[d] = "send" => future'[call[d]] \in {"pending", "failed"}
  BY <1>4, <1>5, <1>7 DEF WireInv, SendersUnanswered, InCall
<1>10. \A d \in Conns, k \in Echoes : OnTheWire(d, k)' => OnTheWire(d, k)
  BY <1>2, <1>3 DEF OnTheWire, Come
<1> QED BY <1>2, <1>4, <1>6, <1>7, <1>8, <1>9, <1>10, NothingSent

\* Steps of the handler and of the peer that leave the clients alone.
LEMMA QuietKeepsWire ==
  ASSUME ChannelInv, WireInv, NEW c \in Conns,
         \/ HeartbeatTimeout(c) \/ ReceiveEvent(c) \/ EndEvent(c) \/ BeginRefresh(c)
         \/ CallRefused(c) \/ Answered(c) \/ Failed(c) \/ PeerStep(c)
  PROVE  WireInv'
<1>1. TypeOK
  BY DEF ChannelInv
<1> USE DEF client, chain
<1>2. QuietStep
  BY <1>1, QuietSteps
<1>3. /\ UNCHANGED <<future, calls>>
      /\ linked' \subseteq linked
      /\ \A d \in Conns \ {c} : loop'[d] = loop[d]
      /\ loop'[c] = loop[c] \/ loop'[c] \notin {"send", "wait"}
      /\ loop'[c] = "closing" =>
           /\ c \notin linked'
           /\ loop[c] = "closing" \/ (inbox[c] = <<>> /\ inbox' = inbox)
  BY <1>1 DEF HeartbeatTimeout, ReceiveEvent, EndEvent, BeginRefresh, CallRefused, Answered, Failed,
              PeerStep, SendEvent, AnswerRequest, Leave, NextAttempt, Goto, TypeOK,
              WireInv, ClosingIsRead
<1>4. \A d \in Conns : InCall(d)' => /\ InCall(d) /\ call[d] \in Echoes
                                     /\ via'[d] = via[d] /\ call'[d] = call[d] /\ loop'[d] = loop[d]
  BY <1>1, <1>2, <1>3 DEF QuietStep, InCall, TypeOK
<1>5. \A d \in Conns : loop'[d] = "send" => future'[call[d]] \in {"pending", "failed"}
  BY <1>3, <1>4 DEF WireInv, SendersUnanswered, InCall
<1>6. /\ AskedOnce' /\ RepliesOnce'
      /\ \A d \in Conns, k \in Echoes : OnTheWire(d, k)' => OnTheWire(d, k)
      /\ \A d \in Conns : inbox'[d] = inbox[d] \/ d \in linked \/ loop'[d] = "event"
  <2>1. CASE ReceiveEvent(c)
    <3>1. inbox[c] # <<>> /\ inbox' = [inbox EXCEPT ![c] = Tail(@)] /\ asked' = asked
      BY <2>1 DEF ReceiveEvent, CanReceive
    <3>2. \A d \in Conns \ {c} : inbox'[d] = inbox[d]
      BY <1>1, <3>1, WasRead
    <3>3. loop'[c] = "event"
      BY <1>1, <2>1 DEF ReceiveEvent, Goto, TypeOK
    <3>4. RepliesOnce' /\ \A d \in Conns, k \in Echoes : Come(d, k)' => Come(d, k)
      BY <1>1, <3>1, ReadFrames DEF WireInv
    <3>5. \A d \in Conns : asked[d] \subseteq Echoes
      BY <1>1 DEF TypeOK
    <3> QED BY <3>1, <3>2, <3>3, <3>4, <3>5 DEF WireInv, AskedOnce, OnTheWire
  <2>2. CASE SendEvent(c)
    <3>1. Arrive(c, AnEvent) /\ AnEvent \in Frames /\ asked' = asked /\ c \in linked
      BY <2>2 DEF SendEvent, Frames
    <3>2. \A d \in Conns \ {c} : inbox'[d] = inbox[d]
      BY <1>1, <3>1, Arrived
    <3>3. \A k \in Echoes : k # AnEvent
      BY DEF Echoes, AnEvent
    <3>4. RepliesOnce' /\ \A d \in Conns, k \in Echoes : Come(d, k)' => Come(d, k)
      BY <1>1, <3>1, <3>3, ArrivedFrames DEF WireInv
    <3>5. \A d \in Conns : asked[d] \subseteq Echoes
      BY <1>1 DEF TypeOK
    <3> QED BY <3>1, <3>2, <3>4, <3>5 DEF WireInv, AskedOnce, OnTheWire
  <2>3. ASSUME NEW k \in Echoes, AnswerRequest(c, k)
        PROVE  /\ AskedOnce' /\ RepliesOnce'
               /\ \A d \in Conns, j \in Echoes : OnTheWire(d, j)' => OnTheWire(d, j)
               /\ \A d \in Conns : inbox'[d] = inbox[d] \/ d \in linked \/ loop'[d] = "event"
    <3>1. Arrive(c, k) /\ k \in Frames /\ k # AnEvent /\ k \in asked[c] /\ c \in linked
      BY <2>3 DEF AnswerRequest, Frames, Echoes, AnEvent
    <3>2. \A d \in Conns : asked'[d] = IF d = c THEN asked[c] \ {k} ELSE asked[d]
      BY <1>1, <2>3 DEF AnswerRequest, TypeOK
    <3>3. \A d \in Conns \ {c} : inbox'[d] = inbox[d]
      BY <1>1, <3>1, Arrived
    <3>4. /\ RepliesOnce'
          /\ \A d \in Conns, j \in Echoes : Come(d, j)' <=> Come(d, j) \/ (d = c /\ j = k)
      BY <1>1, <3>1, ArrivedFrames DEF WireInv, AskedOnce
    <3>5. \A d \in Conns : asked[d] \subseteq Echoes
      BY <1>1 DEF TypeOK
    <3>6. AskedOnce'
      BY <3>1, <3>2, <3>4, <3>5 DEF WireInv, AskedOnce
    <3> QED BY <3>1, <3>2, <3>3, <3>4, <3>6 DEF OnTheWire
  <2>4. CASE \/ HeartbeatTimeout(c) \/ EndEvent(c) \/ BeginRefresh(c) \/ CallRefused(c)
             \/ Answered(c) \/ Failed(c) \/ Leave(c)
    <3>1. inbox' = inbox /\ asked' = asked
      BY <2>4 DEF HeartbeatTimeout, EndEvent, BeginRefresh, CallRefused, Answered, Failed, Leave
    <3> QED BY <3>1 DEF WireInv, AskedOnce, RepliesOnce, OnTheWire, Come
  <2> QED BY <2>1, <2>2, <2>3, <2>4 DEF PeerStep
<1>7. ClosingIsRead'
  <2> SUFFICES ASSUME NEW d \in Conns, loop'[d] = "closing"
               PROVE  inbox'[d] = <<>> /\ d \notin linked'
    BY DEF ClosingIsRead
  <2> QED BY <1>3, <1>6 DEF WireInv, ClosingIsRead
<1> QED BY <1>2, <1>3, <1>4, <1>5, <1>6, <1>7, NothingSent DEF QuietStep

\* The reply that is read belongs to a call on this client, if one still waits.
LEMMA AnswerFinds ==
  ASSUME ChannelInv, WireInv, NEW c \in Conns, ReceiveAnswer(c), NEW k, k = Head(inbox[c])
  PROVE  /\ k \in Echoes /\ Come(c, k)
         /\ k \in pending[c] <=> future[k] = "pending"
         /\ \A j \in Echoes : future'[j] = IF j = k /\ future[j] = "pending" THEN "answered" ELSE future[j]
<1>1. TypeOK
  BY DEF ChannelInv
<1>2. inbox[c] # <<>> /\ k # AnEvent /\ inbox' = [inbox EXCEPT ![c] = Tail(@)]
  BY DEF ReceiveAnswer, CanReceive
<1>3. k \in Echoes
  BY <1>1, <1>2, ReadType DEF Frames
<1>4. Come(c, k)
  BY <1>1, <1>2, WasRead DEF Come
<1>5. k \in pending[c] => future[k] = "pending"
  BY DEF ChannelInv, Registered, Awaits
<1>6. ASSUME future[k] = "pending"
      PROVE  k \in pending[c]
  <2>1. PICK d \in Conns : InCall(d) /\ call[d] = k
    BY <1>3, <1>6 DEF WireInv, CallersWait
  <2>2. via[d] = c
    BY <1>3, <1>4, <2>1 DEF WireInv, OnItsConnection, OnTheWire
  <2> QED BY <1>6, <2>1, <2>2 DEF ChannelInv, Registered
<1>7. \A j \in Echoes : future'[j] = IF j \in pending[c] \cap {k} /\ future[j] = "pending"
                                     THEN "answered" ELSE future[j]
  BY DEF ReceiveAnswer, Completed
<1> QED BY <1>3, <1>4, <1>5, <1>6, <1>7

LEMMA AnswerKeepsWire ==
  ASSUME ChannelInv, WireInv, NEW c \in Conns, ReceiveAnswer(c)
  PROVE  WireInv'
<1>1. TypeOK
  BY DEF ChannelInv
<1>2. PICK k : k = Head(inbox[c])
  OBVIOUS
<1>3. /\ k \in Echoes /\ Come(c, k)
      /\ \A j \in Echoes : future'[j] = IF j = k /\ future[j] = "pending" THEN "answered" ELSE future[j]
  BY <1>2, AnswerFinds
<1>4. /\ inbox[c] # <<>> /\ inbox' = [inbox EXCEPT ![c] = Tail(@)] /\ loop[c] = "receive"
      /\ UNCHANGED <<loop, linked, via, call, asked, calls>>
  BY DEF ReceiveAnswer, CanReceive, chain
<1>5. /\ RepliesOnce' /\ \A d \in Conns \ {c} : inbox'[d] = inbox[d]
      /\ \A d \in Conns, j \in Echoes : Come(d, j)' => Come(d, j)
  BY <1>1, <1>4, ReadFrames, WasRead DEF WireInv
<1>6. AskedOnce' /\ \A d \in Conns, j \in Echoes : OnTheWire(d, j)' => OnTheWire(d, j)
  <2>1. \A d \in Conns : asked[d] \subseteq Echoes
    BY <1>1 DEF TypeOK
  <2> QED BY <1>4, <1>5, <2>1 DEF WireInv, AskedOnce, OnTheWire
<1>7. ClosingIsRead'
  BY <1>4, <1>5 DEF WireInv, ClosingIsRead
<1>8. \A d \in Conns : InCall(d) => call[d] \in Echoes
  BY <1>1 DEF InCall, TypeOK
<1>9. \A d \in Conns : loop'[d] = "send" => future'[call[d]] \in {"pending", "failed"}
  <2> SUFFICES ASSUME NEW d \in Conns, loop[d] = "send"
               PROVE  future'[call[d]] \in {"pending", "failed"}
    BY <1>4
  <2>1. InCall(d) /\ call[d] \in Echoes /\ future[call[d]] \in {"pending", "failed"}
    BY <1>8 DEF InCall, WireInv, SendersUnanswered
  <2>2. call[d] # k
    BY <1>3, <2>1 DEF WireInv, OnItsConnection, OnTheWire
  <2> QED BY <1>3, <2>1, <2>2
<1>10. \A d \in Conns : InCall(d)' <=> InCall(d)
  BY <1>4 DEF InCall
<1> QED BY <1>3, <1>4, <1>5, <1>6, <1>7, <1>8, <1>9, <1>10, NothingSent

\* A call that is taken back.
LEMMA GiveUpKeepsWire ==
  ASSUME ChannelInv, WireInv, NEW c \in Conns, NEW how \in {"failed", "timedOut"},
         InCall(c), GiveUp(c, how)
  PROVE  WireInv'
<1>1. TypeOK
  BY DEF ChannelInv
<1>2. /\ call[c] \in Echoes /\ UNCHANGED <<linked, inbox, via, asked, calls>>
      /\ \A j \in Echoes : future'[j] = IF j = call[c] /\ future[j] = "pending" THEN how ELSE future[j]
      /\ \A d \in Conns \ {c} : loop'[d] = loop[d] /\ call'[d] = call[d]
      /\ loop'[c] \in {"event", "call"}
  BY <1>1 DEF GiveUp, NextAttempt, Goto, TypeOK, InCall
<1>3. \A d \in Conns : InCall(d)' <=> d # c /\ InCall(d)
  BY <1>2 DEF InCall
<1>4. \A d \in Conns \ {c} : InCall(d) => call[d] \in Echoes /\ call[d] # call[c]
  BY <1>1 DEF ChannelInv, EchoesAreFresh, TypeOK, InCall
<1>5. /\ AskedOnce' /\ RepliesOnce'
      /\ \A d \in Conns, k \in Echoes : OnTheWire(d, k)' => OnTheWire(d, k)
  BY <1>2 DEF WireInv, AskedOnce, RepliesOnce, OnTheWire, Come
<1>6. ClosingIsRead'
  BY <1>2 DEF WireInv, ClosingIsRead
<1>7. \A d \in Conns : loop'[d] = "send" => future'[call[d]] \in {"pending", "failed"}
  BY <1>2, <1>4 DEF WireInv, SendersUnanswered, InCall
<1>8. \A k \in Echoes : \/ future'[k] = future[k]
                        \/ future[k] = "pending" /\ future'[k] \in {"answered", "failed", "timedOut"}
  BY <1>2
<1>9. \A d \in Conns : InCall(d)' => /\ InCall(d) /\ call[d] \in Echoes
                                     /\ via'[d] = via[d] /\ call'[d] = call[d] /\ loop'[d] = loop[d]
  BY <1>2, <1>3, <1>4
<1>10. \A d \in Conns : InCall(d) /\ future'[call[d]] = "pending" => InCall(d)'
  BY <1>2, <1>3
<1> QED BY <1>2, <1>5, <1>6, <1>7, <1>8, <1>9, <1>10, NothingSent

\* A call takes the next echo, of which nothing was heard before.
LEMMA CallKeepsWire ==
  ASSUME ChannelInv, WireInv, NEW c \in Conns, CallAction(c)
  PROVE  /\ WireInv'
         /\ calls + 1 \in Echoes /\ future[calls + 1] = "none"
         /\ future' = [future EXCEPT ![calls + 1] = "pending"] /\ UNCHANGED <<inbox, asked>>
<1>1. TypeOK
  BY DEF ChannelInv
<1>2. PICK k : k = calls + 1
  OBVIOUS
<1>3. /\ calls \in Nat /\ k \in Echoes /\ calls' = k
      /\ UNCHANGED <<linked, inbox, via, asked>>
      /\ future' = [future EXCEPT ![k] = "pending"]
      /\ loop[c] = "call"
      /\ \A d \in Conns : call'[d] = IF d = c THEN k ELSE call[d]
      /\ \A d \in Conns : loop'[d] = IF d = c THEN "send" ELSE loop[d]
  <2>1. calls \in Nat /\ k \in Echoes /\ calls' = k /\ loop[c] = "call"
    BY <1>1, <1>2, ChannelBounds DEF CallAction, TypeOK, Echoes
  <2>2. UNCHANGED <<linked, inbox, via, asked>> /\ future' = [future EXCEPT ![k] = "pending"]
    BY <1>2 DEF CallAction
  <2>3. /\ \A d \in Conns : call'[d] = IF d = c THEN k ELSE call[d]
        /\ \A d \in Conns : loop'[d] = IF d = c THEN "send" ELSE loop[d]
    BY <1>1, <1>2 DEF CallAction, Goto, TypeOK
  <2> QED BY <2>1, <2>2, <2>3
<1>4. future[k] = "none" /\ \A j \in Echoes : future'[j] = IF j = k THEN "pending" ELSE future[j]
  <2>1. k > calls
    BY <1>2, <1>3
  <2>2. future[k] = "none"
    BY <1>3, <2>1 DEF WireInv, EchoesInTurn
  <2> QED BY <1>1, <1>3, <2>2 DEF TypeOK
<1>5. \A d \in Conns : InCall(d)' <=> d = c \/ InCall(d)
  BY <1>3 DEF InCall
<1>6. \A d \in Conns : InCall(d) => d # c /\ call[d] \in Echoes /\ call[d] # k
  BY <1>1, <1>2, <1>3 DEF ChannelInv, EchoesAreFresh, TypeOK, InCall, Echoes
<1>7. CallersWait'
  <2> SUFFICES ASSUME NEW j \in Echoes, future'[j] = "pending"
               PROVE  \E d \in Conns : InCall(d)' /\ call'[d] = j
    BY DEF CallersWait
  <2>1. CASE j = k
    BY <1>3, <1>5, <2>1
  <2>2. CASE j # k
    <3>1. PICK d \in Conns : InCall(d) /\ call[d] = j
      BY <1>4, <2>2 DEF WireInv, CallersWait
    <3> QED BY <1>3, <1>5, <1>6, <3>1
  <2> QED BY <2>1, <2>2
<1>8. EchoesInTurn'
  <2> SUFFICES ASSUME NEW j \in Echoes
               PROVE  future'[j] = "none" <=> j > calls'
    BY DEF EchoesInTurn
  <2>1. j \in Nat /\ (future[j] = "none" <=> j > calls)
    BY DEF WireInv, EchoesInTurn, Echoes
  <2> QED BY <1>2, <1>3, <1>4, <2>1
<1>9. SendersUnanswered'
  BY <1>3, <1>4, <1>6 DEF WireInv, SendersUnanswered, InCall
<1>10. OnItsConnection'
  <2> SUFFICES ASSUME NEW d \in Conns, NEW j \in Echoes, OnTheWire(d, j)
               PROVE  /\ future'[j] # "none"
                      /\ \A e \in Conns : InCall(e)' /\ call'[e] = j => via'[e] = d /\ loop'[e] = "wait"
    BY <1>3 DEF OnItsConnection, OnTheWire, Come
  <2>1. future[j] # "none" /\ j # k
    BY <1>4 DEF WireInv, OnItsConnection
  <2> QED BY <1>3, <1>4, <1>5, <1>6, <2>1 DEF WireInv, OnItsConnection
<1>11. AskedOnce' /\ RepliesOnce' /\ ClosingIsRead'
  BY <1>3 DEF WireInv, AskedOnce, RepliesOnce, Come, ClosingIsRead
<1> QED BY <1>2, <1>3, <1>4, <1>7, <1>8, <1>9, <1>10, <1>11 DEF WireInv

\* A request goes out once, on the connection of its client.
LEMMA SendKeepsWire ==
  ASSUME ChannelInv, WireInv, NEW c \in Conns, Send(c)
  PROVE  /\ WireInv'
         /\ call[c] \in Echoes /\ future[call[c]] \in {"pending", "failed"}
         /\ \A d \in Conns : ~OnTheWire(d, call[c])
<1>1. TypeOK
  BY DEF ChannelInv
<1>2. /\ loop[c] = "send" /\ InCall(c) /\ call[c] \in Echoes /\ via[c] \in Conns
      /\ UNCHANGED <<linked, inbox, future, via, call, calls>>
      /\ \A d \in Conns : loop'[d] = IF d = c THEN "wait" ELSE loop[d]
  BY <1>1 DEF Send, Goto, TypeOK, InCall, client, chain
<1>3. \A d \in Conns : asked'[d] = IF d = via[c] /\ via[c] \in linked THEN asked[d] \union {call[c]}
                                                                    ELSE asked[d]
  BY <1>1, <1>2 DEF Send, TypeOK
<1>4. future[call[c]] \in {"pending", "failed"}
  BY <1>2 DEF WireInv, SendersUnanswered
<1>5. \A d \in Conns : ~OnTheWire(d, call[c])
  BY <1>2 DEF WireInv, OnItsConnection
<1>6. \A d \in Conns : InCall(d)' <=> InCall(d)
  BY <1>2 DEF InCall
<1>7. \A d, e \in Conns : InCall(d) /\ InCall(e) /\ call[d] = call[e] => d = e
  BY DEF ChannelInv, EchoesAreFresh
<1>8. CallersWait' /\ EchoesInTurn' /\ SendersUnanswered'
  BY <1>2, <1>6 DEF WireInv, CallersWait, EchoesInTurn, SendersUnanswered
<1>9. OnItsConnection'
  <2> SUFFICES ASSUME NEW d \in Conns, NEW j \in Echoes, OnTheWire(d, j)'
               PROVE  /\ future[j] # "none"
                      /\ \A e \in Conns : InCall(e) /\ call[e] = j => via[e] = d /\ loop'[e] = "wait"
    BY <1>2, <1>6 DEF OnItsConnection
  <2>1. OnTheWire(d, j) \/ (d = via[c] /\ j = call[c])
    BY <1>2, <1>3 DEF OnTheWire, Come
  <2>2. CASE OnTheWire(d, j)
    BY <1>2, <2>2 DEF WireInv, OnItsConnection
  <2>3. CASE d = via[c] /\ j = call[c]
    BY <1>2, <1>4, <1>7, <2>3
  <2> QED BY <2>1, <2>2, <2>3
<1>10. AskedOnce' /\ RepliesOnce' /\ ClosingIsRead'
  <2>1. RepliesOnce' /\ ClosingIsRead'
    BY <1>2 DEF WireInv, RepliesOnce, ClosingIsRead
  <2>2. AskedOnce'
    <3> SUFFICES ASSUME NEW d \in Conns, NEW e \in Conns, NEW j \in asked'[d]
                 PROVE  (j \in asked'[e] => d = e) /\ ~Come(e, j)
      BY <1>2 DEF AskedOnce, Come
    <3>1. CASE j = call[c]
      <4>1. j \notin asked[d] /\ j \notin asked[e] /\ ~Come(e, j)
        BY <1>5, <3>1 DEF OnTheWire
      <4> QED BY <1>3, <4>1
    <3>2. CASE j # call[c]
      <4>1. j \in asked[d] /\ (j \in asked'[e] => j \in asked[e])
        BY <1>3, <3>2
      <4> QED BY <4>1 DEF WireInv, AskedOnce
    <3> QED BY <3>1, <3>2
  <2> QED BY <2>1, <2>2
<1> QED BY <1>2, <1>4, <1>5, <1>8, <1>9, <1>10 DEF WireInv

LEMMA NextWireInv == ChannelInv /\ WireInv /\ [Next]_channelVars => WireInv'
<1> SUFFICES ASSUME ChannelInv, WireInv, [Next]_channelVars
             PROVE  WireInv'
  OBVIOUS
<1>1. ASSUME NEW c \in Conns, SendFails(c) \/ Timeout(c)
      PROVE  WireInv'
  BY <1>1, GiveUpKeepsWire DEF SendFails, Timeout, InCall
<1>2. CASE UNCHANGED channelVars
  BY <1>2 DEF channelVars, WireInv, CallersWait, EchoesInTurn, SendersUnanswered, OnItsConnection,
              OnTheWire, Come, AskedOnce, RepliesOnce, ClosingIsRead, InCall
<1> QED BY <1>1, <1>2, CloseKeepsWire, QuietKeepsWire, AnswerKeepsWire, CallKeepsWire, SendKeepsWire
        DEF Next, HandlerStep

-----------------------------------------------------------------------------
(* The refinement *)

\* What there is to read, and what the peer has yet to answer.
LEMMA RepliesCome == \A k \in Echoes : k \in RepliesToRead <=> \E c \in Conns : Come(c, k)
BY DEF RepliesToRead, Come

\* A reply that is lost with its connection was one to a call that close()
\* fails, or that waits no more.
LEMMA ConnectionsComeAndGo ==
  ASSUME ChannelInv, WireInv, NEW gone \in SUBSET Conns, Close(gone), UNCHANGED asked,
         \A d \in Conns : inbox'[d] = inbox[d] \/ (d \in gone /\ inbox'[d] = <<>>)
  PROVE  Promise!RequestNext
<1> DEFINE failing == {k \in Echoes : \E c \in gone : k \in pending[c]}
           lost    == RepliesToRead \ RepliesToRead'
<1>1. \A k \in failing : future[k] = "pending"
  BY CloseOutcomes
<1>2. future' = [k \in Echoes |-> IF k \in failing THEN "failed" ELSE future[k]]
  BY DEF Close
<1>3. failing \in SUBSET Echoes /\ lost \in SUBSET RepliesToRead
  OBVIOUS
<1>4. RepliesToRead' = RepliesToRead \ lost
  <2>1. \A k \in Echoes : k \in RepliesToRead' => k \in RepliesToRead
    BY DEF RepliesToRead
  <2>2. RepliesToRead' \subseteq Echoes
    BY DEF RepliesToRead
  <2> QED BY <2>1, <2>2
<1>5. ASSUME NEW k \in lost, future[k] = "pending"
      PROVE  k \in failing
  <2>1. k \in Echoes /\ \E c \in gone : Come(c, k)
    BY <1>5 DEF RepliesToRead, Come
  <2>2. PICK c \in gone : Come(c, k)
    BY <2>1
  <2>3. PICK d \in Conns : InCall(d) /\ call[d] = k
    BY <1>5, <2>1 DEF WireInv, CallersWait
  <2>4. via[d] = c
    BY <2>1, <2>2, <2>3 DEF WireInv, OnItsConnection, OnTheWire
  <2> QED BY <1>5, <2>1, <2>3, <2>4 DEF ChannelInv, Registered
<1>6. Promise!Break(failing, lost)
  <2>1. UNCHANGED UNION {asked[c] : c \in Conns}
    OBVIOUS
  <2> HIDE DEF failing, lost
  <2> QED BY <1>1, <1>2, <1>4, <1>5, <2>1 DEF Promise!Break
<1> QED BY <1>3, <1>6 DEF Promise!RequestNext

LEMMA NextKeepsPromise ==
  ChannelInv /\ WireInv /\ [Next]_channelVars => [Promise!RequestNext]_Promise!requestVars
<1> SUFFICES ASSUME ChannelInv, WireInv, [Next]_channelVars
             PROVE  Promise!RequestNext \/ UNCHANGED Promise!requestVars
  BY DEF Promise!requestVars
<1> USE DEF client, chain
<1> DEFINE requests == UNION {asked[c] : c \in Conns}
<1>1. TypeOK
  BY DEF ChannelInv
<1>2. \A k : k \in requests <=> \E c \in Conns : k \in asked[c]
  OBVIOUS
<1>3. ASSUME UNCHANGED <<future, inbox, asked>>
      PROVE  UNCHANGED Promise!requestVars
  BY <1>3 DEF Promise!requestVars, RepliesToRead
<1>4. ASSUME NEW c \in Conns, Connect(c) \/ Disconnect(c)
      PROVE  Promise!RequestNext
  BY <1>1, <1>4, CloseLosesFrames, ConnectionsComeAndGo
<1>5. ASSUME NEW c \in Conns, CallAction(c)
      PROVE  Promise!RequestNext
  <2>1. PICK k : k = calls + 1
    OBVIOUS
  <2>2. /\ k \in Echoes /\ future[k] = "none"
        /\ future' = [future EXCEPT ![k] = "pending"] /\ UNCHANGED <<inbox, asked>>
    BY <1>5, <2>1, CallKeepsWire
  <2>3. UNCHANGED <<requests, RepliesToRead>>
    BY <2>2 DEF RepliesToRead
  <2>4. Promise!Make(k)
    BY <2>2, <2>3 DEF Promise!Make
  <2> QED BY <2>2, <2>4 DEF Promise!RequestNext
<1>6. ASSUME NEW c \in Conns, Send(c)
      PROVE  Promise!RequestNext \/ UNCHANGED Promise!requestVars
  <2>1. PICK k : k = call[c]
    OBVIOUS
  <2>2. /\ k \in Echoes /\ future[k] \in {"pending", "failed"}
        /\ \A d \in Conns : ~OnTheWire(d, k)
    BY <1>6, <2>1, SendKeepsWire
  <2>3. UNCHANGED <<future, inbox>> /\ UNCHANGED RepliesToRead /\ via[c] \in Conns
    BY <1>1, <1>6 DEF Send, RepliesToRead, TypeOK
  <2>4. asked' = [asked EXCEPT ![via[c]] = IF via[c] \in linked THEN @ \union {k} ELSE @]
    BY <1>6, <2>1 DEF Send
  <2>5. CASE via[c] \in linked
    <3>1. \A d \in Conns : asked'[d] = IF d = via[c] THEN asked[d] \union {k} ELSE asked[d]
      BY <1>1, <2>3, <2>4, <2>5 DEF TypeOK
    <3>2. requests' = requests \union {k}
      <4>1. \A j : j \in requests' <=> \E d \in Conns : j \in asked'[d]
        OBVIOUS
      <4>2. \A j : j \in requests' <=> j \in requests \/ j = k
        BY <1>2, <2>3, <3>1, <4>1
      <4> HIDE DEF requests
      <4> QED BY <4>2
    <3>3. k \notin requests \union RepliesToRead
      BY <1>2, <2>2, RepliesCome DEF OnTheWire
    <3>4. Promise!Request(k)
      BY <2>2, <2>3, <3>2, <3>3 DEF Promise!Request
    <3> QED BY <2>2, <3>4 DEF Promise!RequestNext
  <2>6. CASE via[c] \notin linked
    <3>1. asked' = asked
      BY <1>1, <2>3, <2>4, <2>6 DEF TypeOK
    <3> QED BY <1>3, <2>3, <3>1
  <2> QED BY <2>5, <2>6
<1>7. ASSUME NEW c \in Conns, NEW how \in {"failed", "timedOut"}, InCall(c), GiveUp(c, how)
      PROVE  Promise!RequestNext \/ UNCHANGED Promise!requestVars
  <2>1. PICK k : k = call[c]
    OBVIOUS
  <2>2. k \in Echoes /\ UNCHANGED <<inbox, asked>> /\ UNCHANGED <<requests, RepliesToRead>>
    BY <1>1, <1>7, <2>1 DEF GiveUp, InCall, TypeOK, RepliesToRead
  <2>3. future' = [future EXCEPT ![k] = IF @ = "pending" THEN how ELSE @]
    BY <1>7, <2>1 DEF GiveUp
  <2>4. CASE future[k] = "pending"
    <3>1. future' = [future EXCEPT ![k] = how]
      BY <2>3, <2>4
    <3>2. Promise!GiveUp(k, how)
      BY <2>2, <2>4, <3>1 DEF Promise!GiveUp
    <3> QED BY <2>2, <3>2 DEF Promise!RequestNext
  <2>5. CASE future[k] # "pending"
    <3>1. future' = future
      BY <1>1, <2>3, <2>5 DEF TypeOK
    <3> QED BY <1>3, <2>2, <3>1
  <2> QED BY <2>4, <2>5
<1>8. ASSUME NEW c \in Conns, ReceiveAnswer(c)
      PROVE  Promise!RequestNext
  <2>1. PICK k : k = Head(inbox[c])
    OBVIOUS
  <2>2. /\ k \in Echoes /\ Come(c, k)
        /\ \A j \in Echoes : future'[j] = IF j = k /\ future[j] = "pending" THEN "answered" ELSE future[j]
    BY <1>8, <2>1, AnswerFinds
  <2>3. /\ inbox[c] # <<>> /\ inbox' = [inbox EXCEPT ![c] = Tail(@)] /\ asked' = asked
        /\ future' = [j \in Echoes |-> future'[j]]
    BY <1>8 DEF ReceiveAnswer, CanReceive
  <2>4. \A d \in Conns, j \in Echoes : Come(d, j)' <=> Come(d, j) /\ ~(d = c /\ j = k)
    BY <1>1, <2>1, <2>3, ReadFrames DEF WireInv
  <2>5. \A d \in Conns : Come(d, k) => d = c
    <3>1. k # AnEvent
      BY <2>2 DEF Echoes, AnEvent
    <3> QED BY <2>2, <3>1 DEF WireInv, RepliesOnce, Come
  <2>6. k \in RepliesToRead /\ RepliesToRead' = RepliesToRead \ {k}
    <3>1. \A j \in Echoes : j \in RepliesToRead' <=> \E d \in Conns : Come(d, j)'
      BY DEF RepliesToRead, Come
    <3>2. RepliesToRead \subseteq Echoes /\ RepliesToRead' \subseteq Echoes
      BY DEF RepliesToRead
    <3>3. \A j : j \in RepliesToRead' <=> j \in RepliesToRead /\ j # k
      BY <2>4, <2>5, <3>1, <3>2, RepliesCome
    <3> QED BY <2>2, <3>3, RepliesCome
  <2>7. UNCHANGED requests
    BY <2>3
  <2>8. CASE future[k] = "pending"
    <3>1. future' = [future EXCEPT ![k] = "answered"]
      BY <1>1, <2>2, <2>3, <2>8 DEF TypeOK
    <3>2. Promise!Complete(k)
      BY <2>6, <2>7, <2>8, <3>1 DEF Promise!Complete
    <3> QED BY <2>2, <3>2 DEF Promise!RequestNext
  <2>9. CASE future[k] # "pending"
    <3>1. future' = future
      BY <1>1, <2>2, <2>3, <2>9 DEF TypeOK
    <3>2. Promise!Ignore(k)
      BY <2>6, <2>7, <2>9, <3>1 DEF Promise!Ignore
    <3> QED BY <2>2, <3>2 DEF Promise!RequestNext
  <2> QED BY <2>8, <2>9
<1>9. ASSUME NEW c \in Conns, NEW k \in Echoes, AnswerRequest(c, k)
      PROVE  Promise!RequestNext
  <2>1. Arrive(c, k) /\ k \in Frames /\ k \in asked[c] /\ future' = future
    BY <1>9 DEF AnswerRequest, Frames
  <2>2. \A d \in Conns : asked'[d] = IF d = c THEN asked[d] \ {k} ELSE asked[d]
    BY <1>1, <1>9 DEF AnswerRequest, TypeOK
  <2>3. \A d \in Conns : k \in asked[d] => d = c
    BY <2>1 DEF WireInv, AskedOnce
  <2>4. k \in requests /\ requests' = requests \ {k}
    <3>1. \A j : j \in requests' <=> \E d \in Conns : j \in asked'[d]
      OBVIOUS
    <3>2. \A j : j \in requests' <=> j \in requests /\ j # k
      BY <1>2, <2>2, <2>3, <3>1
    <3>3. k \in requests
      BY <1>2, <2>1
    <3> HIDE DEF requests
    <3> QED BY <3>2, <3>3
  <2>5. RepliesToRead' = RepliesToRead \union {k}
    <3>1. \A d \in Conns, j \in Echoes : Come(d, j)' <=> Come(d, j) \/ (d = c /\ j = k)
      BY <1>1, <2>1, ArrivedFrames
    <3>2. \A j \in Echoes : j \in RepliesToRead' <=> \E d \in Conns : Come(d, j)'
      BY DEF RepliesToRead, Come
    <3>3. RepliesToRead \subseteq Echoes /\ RepliesToRead' \subseteq Echoes
      BY DEF RepliesToRead
    <3>4. \A j : j \in RepliesToRead' <=> j \in RepliesToRead \/ j = k
      BY <3>1, <3>2, <3>3, RepliesCome
    <3> QED BY <3>4
  <2>6. Promise!Reply(k)
    BY <2>1, <2>4, <2>5 DEF Promise!Reply
  <2> QED BY <2>6 DEF Promise!RequestNext
<1>10. ASSUME NEW c \in Conns, ReceiveEvent(c) \/ SendEvent(c)
       PROVE  UNCHANGED Promise!requestVars
  <2>1. UNCHANGED <<future, asked>>
    BY <1>10 DEF ReceiveEvent, SendEvent
  <2>2. \A d \in Conns, j \in Echoes : Come(d, j)' <=> Come(d, j)
    <3>1. \A j \in Echoes : j # AnEvent
      BY DEF Echoes, AnEvent
    <3>2. CASE ReceiveEvent(c)
      <4>1. inbox[c] # <<>> /\ inbox' = [inbox EXCEPT ![c] = Tail(@)] /\ Head(inbox[c]) = AnEvent
        BY <3>2 DEF ReceiveEvent, CanReceive
      <4> QED BY <1>1, <3>1, <4>1, ReadFrames DEF WireInv
    <3>3. CASE SendEvent(c)
      <4>1. Arrive(c, AnEvent) /\ AnEvent \in Frames
        BY <3>3 DEF SendEvent, Frames
      <4> QED BY <1>1, <3>1, <4>1, ArrivedFrames
    <3> QED BY <1>10, <3>2, <3>3
  <2>3. UNCHANGED RepliesToRead
    <3>1. \A j \in Echoes : j \in RepliesToRead' <=> \E d \in Conns : Come(d, j)'
      BY DEF RepliesToRead, Come
    <3>2. RepliesToRead \subseteq Echoes /\ RepliesToRead' \subseteq Echoes
      BY DEF RepliesToRead
    <3> QED BY <2>2, <3>1, <3>2, RepliesCome
  <2> QED BY <2>1, <2>3 DEF Promise!requestVars
<1>11. ASSUME NEW c \in Conns,
              \/ HeartbeatTimeout(c) \/ EndEvent(c) \/ BeginRefresh(c) \/ CallRefused(c)
              \/ Answered(c) \/ Failed(c) \/ Leave(c)
       PROVE  UNCHANGED Promise!requestVars
  BY <1>3, <1>11 DEF HeartbeatTimeout, EndEvent, BeginRefresh, CallRefused, Answered, Failed, Leave
<1>12. ASSUME NEW c \in Conns, SendFails(c) \/ Timeout(c)
       PROVE  Promise!RequestNext \/ UNCHANGED Promise!requestVars
  BY <1>7, <1>12 DEF SendFails, Timeout, InCall
<1>13. CASE UNCHANGED channelVars
  BY <1>3, <1>13 DEF channelVars
<1> QED BY <1>4, <1>5, <1>6, <1>8, <1>9, <1>10, <1>11, <1>12, <1>13
        DEF Next, HandlerStep, PeerStep

\* However connections come and go, requests and replies are late and calls run
\* out of time: a call has one outcome, it is answered by the reply to its own
\* request alone, and no reply is passed over while its call still waits.
THEOREM ChannelKeepsItsPromise == Spec => ImplementsPromise
<1>1. Init => Promise!RequestInit
  BY DEF Init, Promise!RequestInit, RepliesToRead
<1>2. Spec => []WireInv
  BY InitWireInv, NextWireInv, ChannelInvariant, PTL DEF Spec
<1> QED BY <1>1, <1>2, NextKeepsPromise, ChannelInvariant, PTL
        DEF Spec, ImplementsPromise, Promise!RequestSpec
=============================================================================
