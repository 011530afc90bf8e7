---------------------------- MODULE RequestReply -----------------------------
(***************************************************************************)
(* What call_action promises to whoever calls it: a call has one outcome,  *)
(* which nothing that comes later changes; it is answered only by the      *)
(* reply to its own request; and a reply that has come is passed over only *)
(* when its call waits no more or fails with the connection. How           *)
(* connections that come and go, their clients and their receive loops     *)
(* keep to this is the business of ActionChannel, which implements this    *)
(* specification.                                                          *)
(***************************************************************************)
CONSTANT Calls           \* the calls, each with its echo

VARIABLES
  outcome,               \* what the caller gets, "none" before the call
  requests,              \* the calls whose request the peer has and has not answered
  replies                \* the calls whose reply has come and is to be read

requestVars == <<outcome, requests, replies>>

RequestInit == outcome = [k \in Calls |-> "none"] /\ requests = {} /\ replies = {}

Make(k) == /\ outcome[k] = "none"
           /\ outcome' = [outcome EXCEPT ![k] = "pending"]
           /\ UNCHANGED <<requests, replies>>

\* The request of a call that failed meanwhile may still go out.
Request(k) == /\ outcome[k] \in {"pending", "failed"}
              /\ k \notin requests \union replies
              /\ requests' = requests \union {k}
              /\ UNCHANGED <<outcome, replies>>

Reply(k) == /\ k \in requests
            /\ requests' = requests \ {k} /\ replies' = replies \union {k}
            /\ UNCHANGED outcome

Complete(k) == /\ k \in replies /\ outcome[k] = "pending"
               /\ outcome' = [outcome EXCEPT ![k] = "answered"]
               /\ replies' = replies \ {k}
               /\ UNCHANGED requests

\* A reply that comes too late.
Ignore(k) == /\ k \in replies /\ outcome[k] # "pending"
             /\ replies' = replies \ {k}
             /\ UNCHANGED <<outcome, requests>>

GiveUp(k, how) == /\ outcome[k] = "pending"
                  /\ outcome' = [outcome EXCEPT ![k] = how]
                  /\ UNCHANGED <<requests, replies>>

\* A connection ends and fails the calls that wait for it; the replies that
\* were not read are lost with it, and with them no call that still waits.
Break(failing, lost) ==
  /\ \A k \in failing : outcome[k] = "pending"
  /\ \A k \in lost : k \in failing \/ outcome[k] # "pending"
  /\ outcome' = [k \in Calls |-> IF k \in failing THEN "failed" ELSE outcome[k]]
  /\ replies' = replies \ lost
  /\ UNCHANGED requests

RequestNext ==
  \/ \E k \in Calls : \/ Make(k) \/ Request(k) \/ Reply(k) \/ Complete(k) \/ Ignore(k)
                      \/ GiveUp(k, "timedOut") \/ GiveUp(k, "failed")
  \/ \E failing \in SUBSET Calls, lost \in SUBSET replies : Break(failing, lost)

RequestSpec == RequestInit /\ [][RequestNext]_requestVars
=============================================================================
