--------------------------- MODULE DurableWorklist ---------------------------
(***************************************************************************)
(* What the processor's queue file promises to the NATS callback that      *)
(* acknowledges a message once enqueue_tagger_task_payload has returned:   *)
(* an image that was taken over is held on disk until the tagger has       *)
(* given it an outcome.  How the two files, the batch in memory and the    *)
(* audit log achieve it is the business of TaggerQueue, which implements   *)
(* this specification.                                                     *)
(***************************************************************************)
CONSTANT Paths           \* image paths, the identity of a tagging task

VARIABLES
  held,                  \* the paths some file on disk names
  due                    \* the paths taken over and still without an outcome

worklistVars == <<held, due>>

WorklistInit == held = {} /\ due = {}

\* A task is taken over: from here on the image is held.
Accept(p) == held' = held \union {p} /\ due' = due \union {p}

\* The image gets its outcome.  The files may still name it.
Settle(p) == p \in due /\ due' = due \ {p} /\ UNCHANGED held

\* Files stop naming images that wait for nothing.
Forget == /\ held' \subseteq held
          /\ due \subseteq held'
          /\ UNCHANGED due

WorklistNext ==
  \/ \E p \in Paths : Accept(p) \/ Settle(p)
  \/ Forget

WorklistSpec == WorklistInit /\ [][WorklistNext]_worklistVars

\* The promise in one line: whatever is due is held.
DueIsHeld == due \subseteq held
=============================================================================
