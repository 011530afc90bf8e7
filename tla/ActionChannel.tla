---------------------------- MODULE ActionChannel ----------------------------
(***************************************************************************)
(* The logger's reverse WebSocket to NapCat as a request channel           *)
(* (napcat/connection.py) and its user, the refresh of an expired image    *)
(* URL (napcat/handler.py).                                                *)
(*                                                                         *)
(* A connection has a handler, whose receive loop reads one frame at a     *)
(* time and awaits on_event for an event before it reads the next, and an  *)
(* OneBotActionClient, whose calls are completed by the answers that the   *)
(* same loop reads.  The client of the newest connection is the global     *)
(* one.  While it handles an event, a handler may refresh a URL: a chain   *)
(* of calls, one after the other, on the client that was global when the   *)
(* chain began.                                                            *)
(*                                                                         *)
(* NapCat is external: it sends events, answers requests in any order, as  *)
(* late as it likes or never, and leaves; a link may also be half open,    *)
(* and the peer may not take what is sent to it.                           *)
(*                                                                         *)
(* An operator with an underscore in its name is a faulty variant of the   *)
(* operator that follows it; no behaviour of Spec uses one.                *)
(***************************************************************************)
EXTENDS Naturals, Sequences, FiniteSets

CONSTANTS
  Conns,         \* connections; one that is lost is followed by another
  None,          \* no connection
  ChainLength,   \* calls a refresh makes when none yields a URL
  Prompt,        \* NapCat and the loops are fast: see Timeout
  MaxEvents,     \* bound: events sent
  MaxCalls       \* bound: calls made

ASSUME NoneAssumption == None \notin Conns
ASSUME ChainAssumption == ChainLength \in Nat \ {0}
ASSUME PromptAssumption == Prompt \in BOOLEAN
ASSUME ChannelBounds == MaxEvents \in Nat /\ MaxCalls \in Nat

\* A call is known by its number, which stands for its echo (a fresh UUID).
Echoes == 1..MaxCalls

\* A frame is an event or the answer that carries an echo.
AnEvent == 0
Frames == {AnEvent} \union Echoes

VARIABLES
  loop,          \* where the handler of each connection is
  linked,        \* the connections whose socket still works
  inbox,         \* the frames that arrived and were not yet read
  closed,        \* _closed of each connection's client
  pending,       \* the keys of its _pending
  current,       \* _action_client
  future,        \* the state of each call's future
  via,           \* the client a handler's chain captured
  call,          \* the call a handler awaits
  left,          \* the calls its chain may still make, this one included
  asked,         \* requests that NapCat has got and not answered
  calls, events, \* how many so far
  newest         \* history: the connection accepted last

client == <<closed, pending, current, future>>
chain  == <<via, call, left>>
peer   == <<linked, asked, events>>
channelVars == <<loop, linked, inbox, closed, pending, current, future,
                 via, call, left, asked, calls, events, newest>>

Running(c) == loop[c] \notin {"unborn", "gone"}

Init == /\ loop = [c \in Conns |-> "unborn"]
        /\ linked = {}
        /\ inbox = [c \in Conns |-> <<>>]
        /\ closed = {}
        /\ pending = [c \in Conns |-> {}]
        /\ current = None
        /\ future = [k \in Echoes |-> "none"]
        /\ via = [c \in Conns |-> None]
        /\ call = [c \in Conns |-> 0]
        /\ left = [c \in Conns |-> 0]
        /\ asked = [c \in Conns |-> {}]
        /\ calls = 0 /\ events = 0
        /\ newest = None

Goto(c, label) == loop' = [loop EXCEPT ![c] = label]

-----------------------------------------------------------------------------
(* OneBotActionClient.close, and the two places that call it *)

\* Close the clients in `gone`: their unfinished futures get an exception.
Close(gone) ==
  /\ closed' = closed \union gone
  /\ pending' = [c \in Conns |-> IF c \in gone THEN {} ELSE pending[c]]
  /\ future' = [k \in Echoes |->
                  IF \E c \in gone : k \in pending[c] THEN "failed" ELSE future[k]]

\* _make_ws_handler up to the receive loop, with _set_action_client
ReplacedBy_StaysOpen(c) == {}
ReplacedBy(c) == {current} \ {None}

Connect(c) ==
  /\ loop[c] = "unborn"
  /\ Goto(c, "receive")
  /\ linked' = linked \union {c}
  /\ Close(ReplacedBy(c))
  /\ current' = c
  /\ newest' = c
  /\ UNCHANGED <<inbox, chain, asked, calls, events>>

-----------------------------------------------------------------------------
(* _consume_ws_messages *)

\* No frame within heartbeat_timeout_sec, though the link looks fine.
HeartbeatTimeout(c) ==
  /\ loop[c] = "receive"
  /\ inbox[c] = <<>> /\ c \in linked
  /\ linked' = linked \ {c}
  /\ Goto(c, "closing")
  /\ UNCHANGED <<inbox, client, chain, asked, calls, events, newest>>

CanReceive_WhileBusy(c) == inbox[c] # <<>> /\ loop[c] \in {"receive", "event", "send", "wait"}
CanReceive(c) == inbox[c] # <<>> /\ loop[c] = "receive"

ReceiveEvent(c) ==
  /\ CanReceive(c)
  /\ Head(inbox[c]) = AnEvent
  /\ inbox' = [inbox EXCEPT ![c] = Tail(@)]
  /\ Goto(c, "event")
  /\ UNCHANGED <<linked, client, chain, asked, calls, events, newest>>

\* The call whose future the answer with echo k completes.
Completed_Waiting(c, k) == pending[c]
Completed(c, k) == pending[c] \cap {k}

\* consume_action_response: the call's future gets its result, unless done.  An
\* echo that is not pending (any more) goes to on_event, where parse_event
\* rejects it.
ReceiveAnswer(c) ==
  LET k == Head(inbox[c]) IN
  /\ CanReceive(c)
  /\ k # AnEvent
  /\ inbox' = [inbox EXCEPT ![c] = Tail(@)]
  /\ pending' = [pending EXCEPT ![c] = @ \ Completed(c, k)]
  /\ future' = [j \in Echoes |-> IF j \in Completed(c, k) /\ future[j] = "pending"
                                    THEN "answered" ELSE future[j]]
  /\ UNCHANGED <<loop, linked, closed, current, chain, asked, calls, events, newest>>

\* on_event returns.
EndEvent(c) ==
  /\ loop[c] = "event"
  /\ Goto(c, "receive")
  /\ UNCHANGED <<linked, inbox, client, chain, asked, calls, events, newest>>

\* The handler's finally: `if get_action_client() is action_client`.
CurrentWithout_Anyway(c) == None
CurrentWithout(c) == IF current = c THEN None ELSE current

\* The loop ends at a CLOSE or ERROR frame, after the frames before it, when
\* ws.close() has returned, or with an exception of on_event, which is one of
\* parse_event: the event that raised and the frames behind it stay unread.
Disconnect(c) ==
  /\ \/ loop[c] = "closing"
     \/ loop[c] = "receive" /\ inbox[c] = <<>> /\ c \notin linked
     \/ CanReceive(c) /\ Head(inbox[c]) = AnEvent
  /\ Goto(c, "gone")
  /\ Close({c})
  /\ current' = CurrentWithout(c)
  /\ linked' = linked \ {c}
  /\ inbox' = [inbox EXCEPT ![c] = <<>>]
  /\ UNCHANGED <<asked, events, chain, calls, newest>>

-----------------------------------------------------------------------------
(* refresh_image_url, _try_action and call_action *)

\* get_action_client, once for the chain; without a client the refresh is over.
BeginRefresh(c) ==
  /\ loop[c] = "event"
  /\ current # None
  /\ calls < MaxCalls
  /\ via' = [via EXCEPT ![c] = current]
  /\ left' = [left EXCEPT ![c] = ChainLength]
  /\ Goto(c, "call")
  /\ UNCHANGED <<linked, inbox, client, call, asked, calls, events, newest>>

\* The loops over actions and parameters go on, or the chain is exhausted.
NextAttempt(c) == /\ left' = [left EXCEPT ![c] = @ - 1]
                  /\ call' = [call EXCEPT ![c] = 0]
                  /\ Goto(c, IF left[c] = 1 THEN "event" ELSE "call")

\* `if self._closed or self._ws.closed`
Unusable(c) == c \in closed \/ loop[c] = "closing"

\* Up to the first await: the call's future is registered under its echo.
CallAction(c) ==
  /\ loop[c] = "call"
  /\ ~Unusable(via[c])
  /\ calls < MaxCalls
  /\ calls' = calls + 1
  /\ call' = [call EXCEPT ![c] = calls + 1]
  /\ pending' = [pending EXCEPT ![via[c]] = @ \union {calls + 1}]
  /\ future' = [future EXCEPT ![calls + 1] = "pending"]
  /\ Goto(c, "send")
  /\ UNCHANGED <<linked, inbox, closed, current, via, left, asked, events, newest>>

\* Not connected: the call raises at once.  Without calls left in the model's
\* bound, the rest of the chain is skipped in the same way.
CallRefused(c) ==
  /\ loop[c] = "call"
  /\ Unusable(via[c]) \/ calls = MaxCalls
  /\ NextAttempt(c)
  /\ UNCHANGED <<linked, inbox, client, via, asked, calls, events, newest>>

\* _send_lock and send_json, both outside wait_for: a peer that does not read
\* can hold them for ever.
Send(c) ==
  /\ loop[c] = "send"
  /\ Goto(c, "wait")
  /\ asked' = [asked EXCEPT ![via[c]] =
                 IF via[c] \in linked THEN @ \union {call[c]} ELSE @]
  /\ UNCHANGED <<linked, inbox, client, chain, calls, events, newest>>

\* The future is taken back: future -> "failed" or "timedOut", unless done.
Forgotten_Kept(c) == pending
Forgotten(c) == [pending EXCEPT ![via[c]] = @ \ {call[c]}]

GiveUp(c, outcome) ==
  /\ pending' = Forgotten(c)
  /\ future' = [future EXCEPT ![call[c]] = IF @ = "pending" THEN outcome ELSE @]
  /\ NextAttempt(c)
  /\ UNCHANGED <<linked, inbox, closed, current, via, asked, calls, events, newest>>

\* send_json raises: the link is down.
SendFails(c) ==
  /\ loop[c] = "send"
  /\ via[c] \notin linked
  /\ GiveUp(c, "failed")

\* wait_for runs out.  If Prompt, NapCat answers and a loop that is free reads
\* well within the timeout: a call runs out of time only while its answer is
\* there and the loop that has to read it is not free.
Timeout_Never(c) == FALSE
Timeout(c) ==
  /\ loop[c] = "wait"
  /\ future[call[c]] = "pending"
  /\ Prompt => /\ \E i \in DOMAIN inbox[via[c]] : inbox[via[c]][i] = call[c]
               /\ loop[via[c]] # "receive"
  /\ GiveUp(c, "timedOut")

\* wait_for returns the answer, which has a URL and ends the chain or has
\* none, or raises what close() put there.
Answered(c) ==
  /\ loop[c] = "wait"
  /\ future[call[c]] = "answered"
  /\ \/ NextAttempt(c)
     \/ /\ Goto(c, "event")
        /\ left' = [left EXCEPT ![c] = 0]
        /\ call' = [call EXCEPT ![c] = 0]
  /\ UNCHANGED <<linked, inbox, client, via, asked, calls, events, newest>>

Failed(c) ==
  /\ loop[c] = "wait"
  /\ future[call[c]] = "failed"
  /\ NextAttempt(c)
  /\ UNCHANGED <<linked, inbox, client, via, asked, calls, events, newest>>

-----------------------------------------------------------------------------
(* NapCat *)

Arrive(c, frame) == inbox' = [inbox EXCEPT ![c] = Append(@, frame)]

SendEvent(c) ==
  /\ c \in linked
  /\ events < MaxEvents
  /\ events' = events + 1
  /\ Arrive(c, AnEvent)
  /\ UNCHANGED <<loop, linked, client, chain, asked, calls, newest>>

AnswerRequest(c, k) ==
  /\ c \in linked
  /\ k \in asked[c]
  /\ asked' = [asked EXCEPT ![c] = @ \ {k}]
  /\ Arrive(c, k)
  /\ UNCHANGED <<loop, linked, client, chain, calls, events, newest>>

Leave(c) ==
  /\ c \in linked
  /\ linked' = linked \ {c}
  /\ UNCHANGED <<loop, inbox, client, chain, asked, calls, events, newest>>

-----------------------------------------------------------------------------

HandlerStep(c) ==
  \/ Disconnect(c) \/ ReceiveEvent(c) \/ ReceiveAnswer(c) \/ EndEvent(c)
  \/ BeginRefresh(c) \/ CallAction(c) \/ CallRefused(c)
  \/ SendFails(c) \/ Timeout(c) \/ Answered(c) \/ Failed(c)

PeerStep(c) == \/ SendEvent(c) \/ Leave(c)
               \/ \E k \in Echoes : AnswerRequest(c, k)

Next == \E c \in Conns :
          Connect(c) \/ HeartbeatTimeout(c) \/ HandlerStep(c) \/ Send(c) \/ PeerStep(c)

Spec == Init /\ [][Next]_channelVars

\* A handler that can go on does: the event loop is fair and wait_for has a
\* timeout.  Nothing is assumed of NapCat, so Send has no fairness.
Fairness == \A c \in Conns : WF_channelVars(HandlerStep(c))

FairSpec == Spec /\ Fairness

-----------------------------------------------------------------------------
(* Properties *)

Labels == {"unborn", "receive", "event", "call", "send", "wait", "closing", "gone"}
Outcomes == {"none", "pending", "answered", "failed", "timedOut"}

TypeOK == /\ loop \in [Conns -> Labels]
          /\ linked \subseteq Conns
          /\ inbox \in [Conns -> Seq(Frames)]
          /\ closed \subseteq Conns
          /\ pending \in [Conns -> SUBSET Echoes]
          /\ current \in Conns \union {None}
          /\ future \in [Echoes -> Outcomes]
          /\ via \in [Conns -> Conns \union {None}]
          /\ call \in [Conns -> {0} \union Echoes]
          /\ left \in [Conns -> 0..ChainLength]
          /\ asked \in [Conns -> SUBSET Echoes]
          /\ calls \in 0..MaxCalls /\ events \in 0..MaxEvents
          /\ newest \in Conns \union {None}
          /\ \A c \in Conns :
               /\ loop[c] \in {"send", "wait"} => call[c] \in Echoes
               /\ loop[c] \in {"call", "send", "wait"} => via[c] # None /\ left[c] > 0

\* The calls that are awaited on client c and not yet done.
AwaitedOn(c) ==
  {call[d] : d \in {d \in Conns : /\ via[d] = c
                                  /\ loop[d] \in {"send", "wait"}
                                  /\ future[call[d]] = "pending"}}

\* A call that is not done is registered with the client it was made on, so
\* that an answer or close() wakes it, and a client keeps no entry of a call
\* nobody awaits any more: not after a timeout, a failed send or close().
PendingIsAwaited == \A c \in Conns : pending[c] = AwaitedOn(c)

\* Calls wait for answers only on the global client: one that was replaced or
\* lost its connection has failed them all.
OnlyCurrentWaits == \A c \in Conns : pending[c] # {} => c = current

\* The global client is that of the newest connection as long as its handler
\* runs: the finally of an older handler, whenever it comes, leaves it alone.
CurrentIsNewest ==
  current = IF newest # None /\ Running(newest) THEN newest ELSE None

\* The loop that awaits a call's answer never gets it from its own socket:
\* only a handler of another connection can be answered.
OwnSocketNeverAnswers ==
  \A c \in Conns : loop[c] = "wait" /\ future[call[c]] = "answered" => via[c] # c

\* Connections that come and go, late answers, timeouts and failed sends keep
\* the promise of call_action: one outcome per call, from its own answer.
RepliesToRead == {k \in Echoes : \E c \in Conns : \E i \in DOMAIN inbox[c] : inbox[c][i] = k}
Promise == INSTANCE RequestReply WITH
             Calls <- Echoes, outcome <- future, requests <- UNION {asked[c] : c \in Conns},
             replies <- RepliesToRead
ImplementsPromise == Promise!RequestSpec

\* As long as NapCat takes what is sent to it or the link breaks, a handler
\* gets back to its socket or ends, whether its calls are answered or not.
SendsConclude == \A c \in Conns : []<>(loop[c] # "send")
EventsConclude ==
  SendsConclude => \A c \in Conns : loop[c] = "event" ~> loop[c] \in {"receive", "gone"}

\* A refresh is answered when NapCat answers in time.
PromptPeerIsHeard == \A k \in Echoes : future[k] # "timedOut"
=============================================================================
