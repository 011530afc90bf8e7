----------------------------- MODULE ImageLedger -----------------------------
(***************************************************************************)
(* What the logger's tables and the bus promise to whoever reads them, the *)
(* processor, the export and the relay itself: an image gets its status    *)
(* once, a task is told only of an image that is saved by then, and only a *)
(* task that was told is marked as published.  The mark may be withdrawn:  *)
(* a handler and the relay send the same task, and the one that failed     *)
(* writes last.  How handlers, relay and a restarted process keep to this  *)
(* is the business of ImageHandoff, which implements this specification.   *)
(***************************************************************************)
CONSTANT Images          \* the images received

VARIABLES
  status,                \* download_status, "none" before the row is there
  told,                  \* the images whose task is on the bus
  marked                 \* those whose outbox row says published

ledgerVars == <<status, told, marked>>

LedgerInit == status = [i \in Images |-> "none"] /\ told = {} /\ marked = {}

\* insert_message_image
Record(i) == /\ status[i] = "none"
             /\ status' = [status EXCEPT ![i] = "pending"]
             /\ UNCHANGED <<told, marked>>

\* The image is saved, or it is a duplicate, or it could not be had.
Conclude(i, final) == /\ status[i] = "pending"
                      /\ status' = [status EXCEPT ![i] = final]
                      /\ UNCHANGED <<told, marked>>

\* The processor gets the task, from the handler or from the relay.
Tell(i) == /\ status[i] = "saved"
           /\ told' = told \union {i}
           /\ UNCHANGED <<status, marked>>

Mark(i) == i \in told /\ marked' = marked \union {i} /\ UNCHANGED <<status, told>>

Withdraw(i) == marked' = marked \ {i} /\ UNCHANGED <<status, told>>

LedgerNext ==
  \E i \in Images : \/ Record(i) \/ Tell(i) \/ Mark(i) \/ Withdraw(i)
                    \/ \E final \in {"saved", "duplicate", "failed"} : Conclude(i, final)

LedgerSpec == LedgerInit /\ [][LedgerNext]_ledgerVars
=============================================================================
