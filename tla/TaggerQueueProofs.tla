-------------------------- MODULE TaggerQueueProofs --------------------------
(***************************************************************************)
(* Theorems about TaggerQueue for every value of its constants, and their  *)
(* proofs.                                                                 *)
(***************************************************************************)
EXTENDS TaggerQueue, SelectionProofs, SequenceTheorems, FiniteSetTheorems, TLAPS

-----------------------------------------------------------------------------
(* Lists of items *)

\* What a list names is a path.
LEMMA PathsOfItems ==
  ASSUME NEW s \in Seq(Item)
  PROVE  PathsOf(s) \subseteq Paths
<1>1. \A i \in DOMAIN s : s[i] \in Item
  BY ElementOfSeq, LenProperties
<1> QED BY <1>1 DEF PathsOf, Item

\* A concatenation (requeue_items + queue_items) names what its parts name.
LEMMA PathsOfConcat ==
  ASSUME NEW s \in Seq(Item), NEW t \in Seq(Item)
  PROVE  PathsOf(s \o t) = PathsOf(s) \union PathsOf(t)
<1>1. /\ DOMAIN s = 1..Len(s) /\ DOMAIN t = 1..Len(t)
      /\ DOMAIN (s \o t) = 1..(Len(s) + Len(t))
      /\ Len(s) \in Nat /\ Len(t) \in Nat
  BY ConcatProperties, LenProperties
<1>2. ASSUME NEW i \in 1..(Len(s) + Len(t))
      PROVE  (s \o t)[i].path \in PathsOf(s) \union PathsOf(t)
  <2>1. CASE i <= Len(s)
    <3>1. (s \o t)[i] = s[i] /\ i \in DOMAIN s
      BY <2>1, <1>1, <1>2, ConcatProperties
    <3> QED BY <3>1 DEF PathsOf
  <2>2. CASE i > Len(s)
    <3>1. (s \o t)[i] = t[i - Len(s)] /\ i - Len(s) \in DOMAIN t
      BY <2>2, <1>1, <1>2, ConcatProperties
    <3> QED BY <3>1 DEF PathsOf
  <2> QED BY <2>1, <2>2, <1>1
<1>3. ASSUME NEW i \in DOMAIN s
      PROVE  s[i].path \in PathsOf(s \o t)
  <2>1. (s \o t)[i] = s[i] /\ i \in DOMAIN (s \o t)
    BY <1>1, ConcatProperties
  <2> QED BY <2>1 DEF PathsOf
<1>4. ASSUME NEW i \in DOMAIN t
      PROVE  t[i].path \in PathsOf(s \o t)
  <2>1. (s \o t)[i + Len(s)] = t[i] /\ i + Len(s) \in DOMAIN (s \o t)
    BY <1>1, ConcatProperties
  <2> QED BY <2>1 DEF PathsOf
<1> QED BY <1>1, <1>2, <1>3, <1>4 DEF PathsOf

\* A list of one item, and the empty list.
LEMMA PathsOfSingle == ASSUME NEW item \in Item
                       PROVE  PathsOf(<<item>>) = {item.path}
BY DEF PathsOf

LEMMA PathsOfEmpty == PathsOf(<<>>) = {}
BY DEF PathsOf

\* Appending an item adds its path.
LEMMA PathsOfAppend ==
  ASSUME NEW s \in Seq(Item), NEW item \in Item
  PROVE  PathsOf(Append(s, item)) = PathsOf(s) \union {item.path}
<1>1. Append(s, item) = s \o <<item>> /\ <<item>> \in Seq(Item)
  BY AppendIsConcat
<1> QED BY <1>1, PathsOfConcat, PathsOfSingle

\* The for-loop over batch_items: an item leaves the front.
LEMMA PathsOfHeadTail ==
  ASSUME NEW s \in Seq(Item), s # <<>>
  PROVE  /\ Head(s) \in Item
         /\ Tail(s) \in Seq(Item)
         /\ PathsOf(s) = {Head(s).path} \union PathsOf(Tail(s))
<1>1. s = <<Head(s)>> \o Tail(s) /\ Head(s) \in Item /\ Tail(s) \in Seq(Item)
  BY HeadTailProperties
<1>2. <<Head(s)>> \in Seq(Item)
  BY <1>1
<1>3. PathsOf(s) = PathsOf(<<Head(s)>>) \union PathsOf(Tail(s))
  BY <1>1, <1>2, PathsOfConcat
<1> QED BY <1>1, <1>3, PathsOfSingle

\* The slices of run_tagger_once divide the queue: nothing is lost, nothing
\* invented.
LEMMA BatchAndRest ==
  ASSUME NEW s \in Seq(Item)
  PROVE  /\ Batch(s) \in Seq(Item)
         /\ Rest(s) \in Seq(Item)
         /\ PathsOf(s) = PathsOf(Batch(s)) \union PathsOf(Rest(s))
         /\ Batch(s) \o Rest(s) = s
<1> DEFINE m == Least(BatchSize, Len(s))
<1>1. Len(s) \in Nat /\ DOMAIN s = 1..Len(s)
  BY LenProperties
<1>2. m \in 0..Len(s)
  BY <1>1, BatchSizeAssumption DEF Least
<1>3. \A i \in 1..Len(s) : s[i] \in Item
  BY ElementOfSeq
<1>4. SubSeq(s, 1, m) \in Seq(Item) /\ SubSeq(s, m + 1, Len(s)) \in Seq(Item)
  BY <1>1, <1>2, <1>3, SubSeqProperties
<1>5. SubSeq(s, 1, m) \o SubSeq(s, m + 1, Len(s)) = SubSeq(s, 1, Len(s))
  <2>1. /\ 1 \in 1..(Len(s) + 1)
        /\ m \in (1 - 1)..Len(s)
        /\ Len(s) \in m..Len(s)
    BY <1>1, <1>2
  <2> HIDE DEF m
  <2> QED BY <2>1, ConcatAdjacentSubSeq
<1>6. SubSeq(s, 1, Len(s)) = s
  BY SubSeqFull
<1>7. PathsOf(s) = PathsOf(SubSeq(s, 1, m)) \union PathsOf(SubSeq(s, m + 1, Len(s)))
  <2>1. PathsOf(SubSeq(s, 1, m) \o SubSeq(s, m + 1, Len(s)))
          = PathsOf(SubSeq(s, 1, m)) \union PathsOf(SubSeq(s, m + 1, Len(s)))
    BY <1>4, PathsOfConcat
  <2> QED BY <2>1, <1>5, <1>6
<1> QED BY <1>4, <1>5, <1>6, <1>7 DEF Batch, Rest

-----------------------------------------------------------------------------
(* Without *)

\* _restore_inflight filters by path: what it gives back are items of the
\* list, and they name every path of the list that is not excepted.
LEMMA WithoutKeepsTheRest ==
  ASSUME NEW s \in Seq(Item), NEW except
  PROVE  /\ Without(s, except) \in Seq(Item)
         /\ PathsOf(Without(s, except)) = PathsOf(s) \ except
<1> DEFINE K == {i \in DOMAIN s : s[i].path \notin except}
           w == Selected(s, K)
<1>1. K \subseteq DOMAIN s
  OBVIOUS
<1>2. /\ w \in Seq(Item)
      /\ \A k \in DOMAIN w : \E i \in K : w[k] = s[i]
      /\ \A i \in K : \E k \in DOMAIN w : w[k] = s[i]
  <2> HIDE DEF K
  <2> QED BY <1>1, SelectedItems
<1>3. PathsOf(w) \subseteq PathsOf(s) \ except
  BY <1>2 DEF PathsOf
<1>4. ASSUME NEW p \in PathsOf(s), p \notin except
      PROVE  p \in PathsOf(w)
  <2>1. PICK i \in DOMAIN s : s[i].path = p
    BY DEF PathsOf
  <2>2. PICK k \in DOMAIN w : w[k] = s[i]
    BY <1>2, <1>4, <2>1
  <2> QED BY <2>1, <2>2 DEF PathsOf
<1> QED BY <1>2, <1>3, <1>4 DEF Without

-----------------------------------------------------------------------------
(* Type correctness *)

USE DEF Outside, Inside

\* The audit counters stay in their range.
LEMMA CountType ==
  ASSUME NEW counter \in [EntryNumbers -> 0..MaxLines], NEW item \in Item
  PROVE  Count(counter, item) \in [EntryNumbers -> 0..MaxLines]
<1>1. MaxLines \in Nat \ {0}
  BY BoundsAssumption, MaxAttemptsAssumption DEF MaxLines
<1>2. item.entry \in EntryNumbers
  BY DEF Item
<1> QED BY <1>1, <1>2 DEF Count, Least

LEMMA RunnersFact == "worker" \in Runners /\ (AutoRun => "auto" \in Runners)
BY DEF Runners

\* _restore_inflight gives back items that are items of the queue.
LEMMA RestoredType ==
  ASSUME TypeOK
  PROVE  Restored \in Seq(Item) /\ PathsOf(Restored) = PathsOf(inflight) \ PathsOf(queue)
BY WithoutKeepsTheRest DEF TypeOK, Restored

\* An item that may be retried still has an attempt left afterwards.
LEMMA RetriedType ==
  ASSUME NEW item \in Item, MayRetry(item)
  PROVE  Retried(item) \in Item /\ Retried(item).path = item.path
BY MaxAttemptsAssumption DEF Item, MayRetry, Retried

LEMMA InitType == Init => TypeOK
<1> SUFFICES ASSUME Init PROVE TypeOK
  OBVIOUS
<1>1. 0 \in 0..MaxLines /\ 0 \in 0..MaxEntries /\ 0 \in 0..MaxCrashes /\ 0 \in 0..MaxFaults
  BY BoundsAssumption, MaxAttemptsAssumption DEF MaxLines
<1> QED BY <1>1 DEF Init, TypeOK, InitialPc, EmptyMemory

\* Every step of run_tagger_once, of the callback and of a failure keeps the
\* files lists of items with an attempt left, and the program counters labels.
LEMMA NextType == TypeOK /\ [Next]_vars => TypeOK'
<1> SUFFICES ASSUME TypeOK, [Next]_vars PROVE TypeOK'
  OBVIOUS
<1> USE DEF TypeOK
<1>1. ASSUME NEW p \in Paths, Enqueue(p) PROVE TypeOK'
  <2>1. pc' \in [Runners -> Outside \union Inside]
    BY <1>1, RunnersFact DEF Enqueue, StartAutoRun, Goto
  <2>2. queue' \in Seq(Item) /\ entries' \in 0..MaxEntries
    <3>1. CASE AlreadyQueued(p)
      BY <1>1, <3>1 DEF Enqueue
    <3>2. CASE ~AlreadyQueued(p)
      <4>1. entries < MaxEntries /\ queue' = Append0(p) /\ entries' = entries + 1
        BY <1>1, <3>2 DEF Enqueue
      <4>2. [path |-> p, attempts |-> 0, entry |-> entries + 1] \in Item
        BY <4>1, BoundsAssumption, MaxAttemptsAssumption DEF Item, EntryNumbers
      <4> QED BY <4>1, <4>2, AppendProperties, BoundsAssumption DEF Append0
    <3> QED BY <3>1, <3>2
  <2> QED BY <1>1, <2>1, <2>2 DEF Enqueue, memory
<1>2. ASSUME NEW r \in Runners, Restore(r) PROVE TypeOK'
  BY <1>2, RestoredType, ConcatProperties
     DEF Restore, Goto, memory, bounds, history
<1>3. ASSUME NEW r \in Runners, ClearRestored(r) PROVE TypeOK'
  BY <1>3 DEF ClearRestored, Goto, memory, bounds, history
<1>4. ASSUME NEW r \in Runners, FindEmpty(r) PROVE TypeOK'
  BY <1>4 DEF FindEmpty, Goto, files, memory, bounds, history
<1>5. ASSUME NEW r \in Runners, SaveInflight(r) PROVE TypeOK'
  BY <1>5, BatchAndRest DEF SaveInflight, Goto, memory, bounds, history
<1>6. ASSUME NEW r \in Runners, SaveRest(r) PROVE TypeOK'
  BY <1>6, BatchAndRest DEF SaveRest, Goto, bounds, history
<1>7. ASSUME NEW r \in Runners, Answer(r) PROVE TypeOK'
  <2>1. PICK ok \in SUBSET PathsOf(todo[r]) : tagged' = [tagged EXCEPT ![r] = ok]
    BY <1>7 DEF Answer, TaggedParts
  <2>2. PathsOf(todo[r]) \subseteq Paths
    BY PathsOfItems
  <2> QED BY <1>7, <2>1, <2>2 DEF Answer, Goto, files, bounds, history
<1>8. ASSUME NEW r \in Runners, NextItem(r),
             WroteAuditLine(Head(todo[r])), owed' \subseteq Paths,
             closed' = closed \/ closed' = Count(closed, Head(todo[r])),
             requeue' \in [Runners -> Seq(Item)], gaveUp' \subseteq EntryNumbers
      PROVE  TypeOK'
  <2>1. Head(todo[r]) \in Item /\ Tail(todo[r]) \in Seq(Item)
    BY <1>8, PathsOfHeadTail DEF NextItem
  <2>2. todo' \in [Runners -> Seq(Item)]
    BY <1>8, <2>1 DEF NextItem
  <2>3. /\ audited' \in [EntryNumbers -> 0..MaxLines]
        /\ closed' \in [EntryNumbers -> 0..MaxLines]
    BY <1>8, <2>1, CountType DEF WroteAuditLine
  <2> QED BY <1>8, <2>2, <2>3 DEF NextItem, files, bounds
<1>9. ASSUME NEW r \in Runners, AuditSuccess(r) PROVE TypeOK'
  BY <1>8, <1>9 DEF AuditSuccess, WroteClosingLine
<1>10. ASSUME NEW r \in Runners, AuditRetrying(r) PROVE TypeOK'
  <2>1. Retried(Head(todo[r])) \in Item
    BY <1>10, PathsOfHeadTail, RetriedType DEF AuditRetrying, NextItem
  <2>2. requeue' \in [Runners -> Seq(Item)]
    BY <1>10, <2>1, AppendProperties DEF AuditRetrying
  <2> QED BY <1>8, <1>10, <2>2 DEF AuditRetrying
<1>11. ASSUME NEW r \in Runners, AuditFailed(r) PROVE TypeOK'
  <2>1. Head(todo[r]).entry \in EntryNumbers
    BY <1>11, PathsOfHeadTail DEF AuditFailed, NextItem, Item
  <2> QED BY <1>8, <1>11, <2>1 DEF AuditFailed, WroteClosingLine
<1>12. ASSUME NEW r \in Runners, EndAudit(r) PROVE TypeOK'
  BY <1>12 DEF EndAudit, Goto, files, memory, bounds, history
<1>13. ASSUME NEW r \in Runners, Requeue(r) PROVE TypeOK'
  BY <1>13, ConcatProperties DEF Requeue, Goto, memory, bounds, history
<1>14. ASSUME NEW r \in Runners, Clear(r) PROVE TypeOK'
  BY <1>14 DEF Clear, Goto, DropMemory, bounds, history
<1>15. ASSUME Reborn
       PROVE /\ pc' \in [Runners -> Outside \union Inside]
             /\ todo' \in [Runners -> Seq(Item)]
             /\ tagged' \in [Runners -> SUBSET Paths]
             /\ requeue' \in [Runners -> Seq(Item)]
             /\ backlog' \in BOOLEAN
  BY <1>15 DEF Reborn, InitialPc
<1>16. ASSUME Crash PROVE TypeOK'
  BY <1>15, <1>16, BoundsAssumption DEF Crash, files, history
<1>17. ASSUME NEW r \in Runners, Fault(r) PROVE TypeOK'
  <2>1. faults' \in 0..MaxFaults
    BY <1>17, BoundsAssumption DEF Fault
  <2>2. CASE r = "worker" /\ backlog
    BY <1>15, <1>17, <2>1, <2>2 DEF Fault, files, history
  <2>3. CASE ~(r = "worker" /\ backlog)
    <3>1. /\ DropMemory(r)
          /\ Goto(r, IF r = "auto" THEN "off" ELSE "idle")
          /\ UNCHANGED <<backlog, files, entries, crashes, history>>
      BY <1>17, <2>3 DEF Fault
    <3>2. pc' \in [Runners -> Outside \union Inside]
      BY <3>1 DEF Goto
    <3>3. /\ todo' \in [Runners -> Seq(Item)]
          /\ tagged' \in [Runners -> SUBSET Paths]
          /\ requeue' \in [Runners -> Seq(Item)]
      BY <3>1 DEF DropMemory
    <3> QED BY <2>1, <3>1, <3>2, <3>3 DEF files, history
  <2> QED BY <2>2, <2>3
<1>18. CASE UNCHANGED vars
  BY <1>18 DEF vars
<1> QED BY <1>1, <1>2, <1>3, <1>4, <1>5, <1>6, <1>7, <1>9, <1>10, <1>11, <1>12,
           <1>13, <1>14, <1>16, <1>17, <1>18 DEF Next, RunnerStep

\* Whatever the settings, with or without auto-run: the two files are lists of
\* items that have an attempt left, and no coroutine leaves its program.
THEOREM TypeCorrect == Spec => []TypeOK
BY InitType, NextType, PTL DEF Spec

-----------------------------------------------------------------------------
(* With one runner, what is owed is on disk *)

\* The labels between SaveRest and Clear, where the batch is in memory.
BatchInHand == {"await", "audit", "requeue", "clear"}

\* Why the files never lose a task that is owed.  OwedIsOnDisk alone is not
\* inductive: that the in-flight file may be removed, or the queue cut, has to
\* come from what the coroutine has done before it gets there.
TaskInv ==
  LET w == "worker" IN
  /\ TypeOK
  /\ OwedIsOnDisk
  /\ pc[w] = "clearRestored" => PathsOf(inflight) \subseteq PathsOf(queue)
  /\ pc[w] = "saveInflight" => inflight = <<>>
  /\ pc[w] = "saveRest" => inflight = Batch(queue)
  /\ pc[w] \in BatchInHand =>
       /\ InMemory(w) \subseteq PathsOf(inflight)
       /\ owed \subseteq PathsOf(queue) \union InMemory(w)
  /\ pc[w] \notin {"audit", "requeue", "clear"} => requeue[w] = <<>>
  /\ pc[w] \in {"requeue", "clear"} => todo[w] = <<>>
  /\ pc[w] = "clear" => owed \subseteq PathsOf(queue)

LEMMA InitTaskInv == Init => TaskInv
<1> SUFFICES ASSUME Init PROVE TaskInv
  OBVIOUS
<1>1. TypeOK
  BY InitType
<1>2. "worker" \in Runners
  BY RunnersFact
<1>3. pc["worker"] = "idle" /\ requeue["worker"] = <<>> /\ owed = {}
  BY <1>2 DEF Init, InitialPc, EmptyMemory
<1> QED BY <1>1, <1>3 DEF TaskInv, OwedIsOnDisk, BatchInHand

\* enqueue_tagger_task_payload leaves the path named by the queue file, whether
\* it appended an entry or found a duplicate.
LEMMA EnqueueNamesPath ==
  ASSUME TypeOK, NEW p \in Paths, Enqueue(p)
  PROVE  PathsOf(queue') = PathsOf(queue) \union {p}
<1>1. CASE AlreadyQueued(p)
  BY <1>1 DEF Enqueue, AlreadyQueued
<1>2. CASE ~AlreadyQueued(p)
  <2> DEFINE item == [path |-> p, attempts |-> 0, entry |-> entries + 1]
  <2>1. queue' = Append(queue, item) /\ entries < MaxEntries
    BY <1>2 DEF Enqueue, Append0
  <2>2. item \in Item
    BY <2>1, BoundsAssumption, MaxAttemptsAssumption DEF TypeOK, Item, EntryNumbers
  <2> QED BY <2>1, <2>2, PathsOfAppend DEF TypeOK
<1> QED BY <1>1, <1>2

LEMMA NextTaskInv ==
  ASSUME AutoRun = FALSE, TaskInv, [Next]_vars
  PROVE  TaskInv'
<1> DEFINE w == "worker"
<1>0. Runners = {w} /\ w \in Runners
  BY DEF Runners
<1>T. TypeOK /\ TypeOK'
  BY NextType DEF TaskInv
<1>E. PathsOf(<<>>) = {}
  BY PathsOfEmpty
<1>1. ASSUME NEW p \in Paths, Enqueue(p) PROVE TaskInv'
  <2>1. pc' = pc
    BY <1>1 DEF Enqueue, StartAutoRun
  <2>2. pc[w] \in Outside
    BY <1>1, <1>0 DEF Enqueue, LoopFree
  <2>3. PathsOf(queue') = PathsOf(queue) \union {p}
    BY <1>1, <1>T, EnqueueNamesPath
  <2>4. inflight' = inflight /\ todo' = todo /\ requeue' = requeue /\ owed' = owed \union {p}
    BY <1>1 DEF Enqueue, memory
  <2> QED BY <1>T, <2>1, <2>2, <2>3, <2>4
          DEF TaskInv, OwedIsOnDisk, OnDisk, InMemory, BatchInHand
<1>2. ASSUME Restore(w) PROVE TaskInv'
  <2>1. PathsOf(queue') = PathsOf(Restored) \union PathsOf(queue)
    BY <1>2, <1>T, RestoredType, PathsOfConcat DEF Restore, TypeOK
  <2>2. PathsOf(queue') = PathsOf(inflight) \union PathsOf(queue)
    BY <2>1, <1>T, RestoredType
  <2>3. pc'[w] = "clearRestored" /\ pc[w] \in {"idle", "pick"}
    BY <1>2, <1>0, <1>T DEF Restore, AtStart, Goto, TypeOK
  <2>4. inflight' = inflight /\ todo' = todo /\ requeue' = requeue /\ owed' = owed
    BY <1>2 DEF Restore, memory, history
  <2> QED BY <1>T, <2>2, <2>3, <2>4 DEF TaskInv, OwedIsOnDisk, OnDisk, BatchInHand
<1>3. ASSUME ClearRestored(w) PROVE TaskInv'
  <2>1. pc'[w] = "saveInflight" /\ pc[w] = "clearRestored"
    BY <1>3, <1>0, <1>T DEF ClearRestored, Goto, TypeOK
  <2>2. queue' = queue /\ inflight' = <<>> /\ requeue' = requeue /\ owed' = owed
    BY <1>3 DEF ClearRestored, memory, history
  <2> QED BY <1>T, <2>1, <2>2 DEF TaskInv, OwedIsOnDisk, OnDisk, BatchInHand
<1>4. ASSUME FindEmpty(w) PROVE TaskInv'
  <2>1. pc'[w] = "idle" /\ pc[w] = "saveInflight"
    BY <1>4, <1>0, <1>T DEF FindEmpty, Goto, TypeOK
  <2>2. UNCHANGED <<queue, inflight, requeue, owed>>
    BY <1>4 DEF FindEmpty, files, memory, history
  <2> QED BY <1>T, <2>1, <2>2 DEF TaskInv, OwedIsOnDisk, OnDisk, BatchInHand
<1>5. ASSUME SaveInflight(w) PROVE TaskInv'
  <2>1. pc'[w] = "saveRest" /\ pc[w] = "saveInflight"
    BY <1>5, <1>0, <1>T DEF SaveInflight, Goto, TypeOK
  <2>2. UNCHANGED <<queue, requeue, owed>> /\ inflight' = Batch(queue)
    BY <1>5 DEF SaveInflight, memory, history
  <2>3. inflight = <<>> /\ owed \subseteq PathsOf(queue)
    BY <2>1, <1>E DEF TaskInv, OwedIsOnDisk, OnDisk
  <2> QED BY <1>T, <2>1, <2>2, <2>3 DEF TaskInv, OwedIsOnDisk, OnDisk, BatchInHand
<1>6. ASSUME SaveRest(w) PROVE TaskInv'
  <2>1. pc'[w] = "await" /\ pc[w] = "saveRest"
    BY <1>6, <1>0, <1>T DEF SaveRest, Goto, TypeOK
  <2>2. /\ UNCHANGED <<inflight, requeue, owed>>
        /\ todo'[w] = Batch(queue) /\ queue' = Rest(queue)
    BY <1>6, <1>0, <1>T DEF SaveRest, history, TypeOK
  <2>3. inflight = Batch(queue) /\ requeue[w] = <<>>
    BY <2>1 DEF TaskInv
  <2>4. PathsOf(queue) = PathsOf(inflight) \union PathsOf(queue')
    BY <1>T, <2>2, <2>3, BatchAndRest DEF TypeOK
  <2>5. InMemory(w)' = PathsOf(inflight)
    BY <2>2, <2>3, <1>E DEF InMemory
  <2>6. owed \subseteq PathsOf(queue') \union PathsOf(inflight)
    BY <2>4 DEF TaskInv, OwedIsOnDisk, OnDisk
  <2> QED BY <1>T, <2>1, <2>2, <2>3, <2>5, <2>6
          DEF TaskInv, OwedIsOnDisk, OnDisk, BatchInHand
<1>7. ASSUME Answer(w) PROVE TaskInv'
  <2>1. pc'[w] = "audit" /\ pc[w] = "await"
    BY <1>7, <1>0, <1>T DEF Answer, Goto, TypeOK
  <2>2. UNCHANGED <<queue, inflight, todo, requeue, owed>>
    BY <1>7 DEF Answer, files, history
  <2> QED BY <1>T, <2>1, <2>2 DEF TaskInv, OwedIsOnDisk, OnDisk, InMemory, BatchInHand
<1>8. ASSUME NextItem(w)
      PROVE  /\ UNCHANGED <<queue, inflight, pc>> /\ pc[w] = "audit"
             /\ Head(todo[w]) \in Item
             /\ PathsOf(todo[w]) = {Head(todo[w]).path} \union PathsOf(todo'[w])
             /\ InMemory(w) = {Head(todo[w]).path} \union PathsOf(todo'[w])
                                \union PathsOf(requeue[w])
  <2>1. UNCHANGED <<queue, inflight, pc>> /\ pc[w] = "audit" /\ todo[w] # <<>>
    BY <1>8 DEF NextItem, files
  <2>2. todo'[w] = Tail(todo[w]) /\ todo[w] \in Seq(Item)
    BY <1>8, <1>0, <1>T DEF NextItem, TypeOK
  <2> QED BY <2>1, <2>2, PathsOfHeadTail DEF InMemory
<1>9. ASSUME NextItem(w), UNCHANGED requeue, owed' = owed \ {Head(todo[w]).path}
      PROVE  TaskInv'
  <2>1. InMemory(w)' = PathsOf(todo'[w]) \union PathsOf(requeue[w])
    BY <1>9 DEF InMemory
  <2> QED BY <1>T, <1>8, <1>9, <2>1 DEF TaskInv, OwedIsOnDisk, OnDisk, BatchInHand
<1>10. ASSUME AuditSuccess(w) \/ AuditFailed(w) PROVE TaskInv'
  BY <1>9, <1>10 DEF AuditSuccess, AuditFailed, WroteClosingLine
<1>11. ASSUME AuditRetrying(w) PROVE TaskInv'
  <2>1. /\ NextItem(w) /\ UNCHANGED owed /\ MayRetry(Head(todo[w]))
        /\ requeue'[w] = Append(requeue[w], Retried(Head(todo[w])))
    BY <1>11, <1>0, <1>T DEF AuditRetrying, TypeOK
  <2>2. /\ Retried(Head(todo[w])) \in Item
        /\ Retried(Head(todo[w])).path = Head(todo[w]).path
    BY <2>1, <1>8, RetriedType
  <2>3. PathsOf(requeue'[w]) = PathsOf(requeue[w]) \union {Head(todo[w]).path}
    BY <2>1, <2>2, <1>0, <1>T, PathsOfAppend DEF TypeOK
  <2>4. InMemory(w)' = InMemory(w)
    BY <2>1, <2>3, <1>8 DEF InMemory
  <2> QED BY <1>T, <1>8, <2>1, <2>4 DEF TaskInv, OwedIsOnDisk, OnDisk, BatchInHand
<1>12. ASSUME EndAudit(w) PROVE TaskInv'
  <2>1. /\ pc[w] = "audit" /\ todo[w] = <<>>
        /\ pc'[w] = IF requeue[w] = <<>> THEN "clear" ELSE "requeue"
    BY <1>12, <1>0, <1>T DEF EndAudit, Goto, TypeOK
  <2>2. UNCHANGED <<queue, inflight, todo, requeue, owed>>
    BY <1>12 DEF EndAudit, files, memory, history
  <2>3. requeue[w] = <<>> => owed \subseteq PathsOf(queue)
    BY <2>1, <1>E DEF TaskInv, BatchInHand, InMemory
  <2> QED BY <1>T, <2>1, <2>2, <2>3 DEF TaskInv, OwedIsOnDisk, OnDisk, InMemory, BatchInHand
<1>13. ASSUME Requeue(w) PROVE TaskInv'
  <2>1. pc'[w] = "clear" /\ pc[w] = "requeue" /\ todo[w] = <<>>
    BY <1>13, <1>0, <1>T DEF Requeue, Goto, TypeOK, TaskInv
  <2>2. UNCHANGED <<inflight, todo, requeue, owed>>
    BY <1>13 DEF Requeue, memory, history
  <2>3. PathsOf(queue') = PathsOf(requeue[w]) \union PathsOf(queue)
    BY <1>13, <1>0, <1>T, PathsOfConcat DEF Requeue, TypeOK
  <2>4. owed \subseteq PathsOf(queue')
    BY <2>1, <2>3, <1>E DEF TaskInv, BatchInHand, InMemory
  <2> QED BY <1>T, <2>1, <2>2, <2>4 DEF TaskInv, OwedIsOnDisk, OnDisk, InMemory, BatchInHand
<1>14. ASSUME Clear(w) PROVE TaskInv'
  <2>1. pc'[w] \in {"idle", "pick"} /\ pc[w] = "clear" /\ requeue'[w] = <<>>
    BY <1>14, <1>0, <1>T DEF Clear, Goto, DropMemory, TypeOK
  <2>2. UNCHANGED <<queue, owed>>
    BY <1>14 DEF Clear, history
  <2>3. OwedIsOnDisk'
    BY <2>1, <2>2 DEF TaskInv, OwedIsOnDisk, OnDisk
  <2> QED BY <1>T, <2>1, <2>3 DEF TaskInv, BatchInHand
<1>15. ASSUME UNCHANGED <<queue, inflight, owed>>, pc'[w] = "idle", requeue'[w] = <<>>
       PROVE  TaskInv'
  <2>1. OwedIsOnDisk'
    BY <1>15 DEF TaskInv, OwedIsOnDisk, OnDisk
  <2> QED BY <1>T, <1>15, <2>1 DEF TaskInv, BatchInHand
<1>16. ASSUME Crash PROVE TaskInv'
  BY <1>0, <1>15, <1>16 DEF Crash, Reborn, InitialPc, files, history
<1>17. ASSUME Fault(w) PROVE TaskInv'
  <2>1. pc'[w] = "idle" /\ requeue'[w] = <<>>
    BY <1>0, <1>17, <1>T DEF Fault, Reborn, InitialPc, DropMemory, Goto, TypeOK
  <2> QED BY <1>15, <1>17, <2>1 DEF Fault, files, history
<1>18. CASE UNCHANGED vars
  BY <1>18 DEF vars, TaskInv, TypeOK, OwedIsOnDisk, OnDisk, InMemory, BatchInHand
<1> QED BY <1>0, <1>1, <1>2, <1>3, <1>4, <1>5, <1>6, <1>7, <1>10, <1>11, <1>12,
           <1>13, <1>14, <1>16, <1>17, <1>18 DEF Next, RunnerStep

\* With auto-run off, as it is by default, no crash and no OSError between two
\* file operations makes the files lose a task that was acknowledged.
THEOREM OwedStaysOnDisk ==
  ASSUME AutoRun = FALSE
  PROVE  Spec => []OwedIsOnDisk
<1>1. TaskInv => OwedIsOnDisk
  BY DEF TaskInv
<1>2. TaskInv /\ [Next]_vars => TaskInv'
  BY NextTaskInv
<1> QED BY <1>1, <1>2, InitTaskInv, PTL DEF Spec

-----------------------------------------------------------------------------
(* With one runner, the queue implements the durable worklist *)

\* Steps after which the files name less than before, or the same.
LEMMA FilesShrink ==
  ASSUME TaskInv, NEW r \in Runners, r = "worker",
         \/ Restore(r) \/ ClearRestored(r) \/ SaveInflight(r) \/ SaveRest(r)
         \/ Requeue(r) \/ Clear(r)
  PROVE  OnDisk' \subseteq OnDisk
<1>T. TypeOK
  BY DEF TaskInv
<1>E. PathsOf(<<>>) = {}
  BY PathsOfEmpty
<1>1. CASE Restore(r)
  <2>1. PathsOf(queue') = PathsOf(Restored) \union PathsOf(queue)
    BY <1>1, <1>T, RestoredType, PathsOfConcat DEF Restore, TypeOK
  <2>2. inflight' = inflight
    BY <1>1 DEF Restore
  <2> QED BY <1>T, <2>1, <2>2, RestoredType DEF OnDisk
<1>2. CASE ClearRestored(r)
  BY <1>2, <1>E DEF ClearRestored, OnDisk
<1>3. CASE SaveInflight(r)
  BY <1>3, <1>T, BatchAndRest DEF SaveInflight, OnDisk, TypeOK
<1>4. CASE SaveRest(r)
  BY <1>4, <1>T, BatchAndRest DEF SaveRest, OnDisk, TypeOK
<1>5. CASE Requeue(r)
  <2>1. PathsOf(queue') = PathsOf(requeue[r]) \union PathsOf(queue) /\ inflight' = inflight
    BY <1>5, <1>T, PathsOfConcat DEF Requeue, TypeOK
  <2>2. PathsOf(requeue[r]) \subseteq PathsOf(inflight)
    BY <1>5 DEF Requeue, TaskInv, BatchInHand, InMemory
  <2> QED BY <2>1, <2>2 DEF OnDisk
<1>6. CASE Clear(r)
  BY <1>6, <1>E DEF Clear, OnDisk
<1> QED BY <1>1, <1>2, <1>3, <1>4, <1>5, <1>6

\* Every step is an Accept, a Settle or a Forget of the worklist, or a stutter.
LEMMA StepOfWorklist ==
  ASSUME AutoRun = FALSE, TaskInv, TaskInv', [Next]_vars
  PROVE  [Worklist!WorklistNext]_(Worklist!worklistVars)
<1> DEFINE w == "worker"
<1> USE DEF Worklist!WorklistNext, Worklist!worklistVars
<1>0. Runners = {w}
  BY DEF Runners
<1>T. TypeOK /\ owed' \subseteq OnDisk'
  BY DEF TaskInv, OwedIsOnDisk
<1>1. ASSUME NEW p \in Paths, Enqueue(p) PROVE Worklist!WorklistNext
  <2>1. owed' = owed \union {p} /\ inflight' = inflight
    BY <1>1 DEF Enqueue
  <2>2. PathsOf(queue') = PathsOf(queue) \union {p}
    BY <1>1, <1>T, EnqueueNamesPath
  <2> QED BY <2>1, <2>2 DEF Worklist!Accept, OnDisk
<1>2. ASSUME OnDisk' \subseteq OnDisk, owed' = owed PROVE Worklist!WorklistNext
  BY <1>2, <1>T DEF Worklist!Forget
<1>3. ASSUME Restore(w) \/ ClearRestored(w) \/ SaveInflight(w) \/ SaveRest(w)
             \/ Requeue(w) \/ Clear(w)
      PROVE  Worklist!WorklistNext
  <2>1. OnDisk' \subseteq OnDisk
    BY <1>0, <1>3, FilesShrink
  <2>2. owed' = owed
    BY <1>3 DEF Restore, ClearRestored, SaveInflight, SaveRest, Requeue, Clear, history
  <2> QED BY <1>2, <2>1, <2>2
<1>4. ASSUME AuditSuccess(w) \/ AuditFailed(w)
      PROVE  [Worklist!WorklistNext]_(Worklist!worklistVars)
  <2> DEFINE p == Head(todo[w]).path
  <2>1. UNCHANGED OnDisk /\ owed' = owed \ {p} /\ todo[w] # <<>>
    BY <1>4 DEF AuditSuccess, AuditFailed, NextItem, WroteClosingLine, files, OnDisk
  <2>2. p \in Paths
    BY <1>0, <1>T, <2>1, PathsOfHeadTail DEF TypeOK, Item
  <2>3. CASE p \in owed
    BY <2>1, <2>2, <2>3 DEF Worklist!Settle
  <2>4. CASE p \notin owed
    BY <2>1, <2>4
  <2> QED BY <2>3, <2>4
<1>5. ASSUME FindEmpty(w) \/ Answer(w) \/ AuditRetrying(w) \/ EndAudit(w)
             \/ Crash \/ Fault(w) \/ UNCHANGED vars
      PROVE  UNCHANGED <<OnDisk, owed>>
  <2>1. UNCHANGED <<queue, inflight, owed>>
    BY <1>5 DEF FindEmpty, Answer, AuditRetrying, NextItem, EndAudit, Crash, Fault,
                files, history, vars
  <2> QED BY <2>1 DEF OnDisk
<1> QED BY <1>0, <1>1, <1>3, <1>4, <1>5 DEF Next, RunnerStep

\* With auto-run off, the two files, the batch in memory and the audit log
\* implement the durable worklist: what is due is held until it is settled.
THEOREM QueueImplementsWorklist ==
  ASSUME AutoRun = FALSE
  PROVE  Spec => ImplementsWorklist
<1>1. Init => Worklist!WorklistInit
  BY PathsOfEmpty DEF Init, OnDisk, Worklist!WorklistInit
<1>2. TaskInv /\ [Next]_vars => TaskInv'
  BY NextTaskInv
<1>3. TaskInv /\ TaskInv' /\ [Next]_vars => [Worklist!WorklistNext]_(Worklist!worklistVars)
  BY StepOfWorklist
<1> QED BY <1>1, <1>2, <1>3, InitTaskInv, PTL
        DEF Spec, ImplementsWorklist, Worklist!WorklistSpec

\* With auto-run off, a path leaves the queue file only when the in-flight
\* file names it already.
THEOREM PickIsRecordedFirst ==
  ASSUME AutoRun = FALSE
  PROVE  Spec => PickedAfterRecorded
<1> DEFINE A == PathsOf(queue) \ PathsOf(queue') \subseteq PathsOf(inflight')
<1>1. TaskInv /\ [Next]_vars => TaskInv'
  BY NextTaskInv
<1>2. ASSUME TaskInv, [Next]_vars PROVE A
  <2>0. Runners = {"worker"} /\ TypeOK
    BY <1>2 DEF Runners, TaskInv
  <2>1. ASSUME NEW p \in Paths, Enqueue(p) PROVE A
    BY <2>0, <2>1, EnqueueNamesPath
  <2>2. ASSUME Restore("worker") \/ Requeue("worker") PROVE A
    <3>1. \E s \in Seq(Item) : queue' = s \o queue
      BY <2>0, <2>2, RestoredType DEF Restore, Requeue, TypeOK
    <3> QED BY <2>0, <3>1, PathsOfConcat DEF TypeOK
  <2>3. ASSUME SaveRest("worker") PROVE A
    BY <1>2, <2>0, <2>3, BatchAndRest DEF SaveRest, TaskInv, TypeOK
  <2>4. ASSUME UNCHANGED queue PROVE A
    BY <2>4
  <2>5. ASSUME NEW r \in Runners, ~Restore(r), ~Requeue(r), ~SaveRest(r), RunnerStep(r)
        PROVE  UNCHANGED queue
    BY <2>5 DEF RunnerStep, ClearRestored, FindEmpty, SaveInflight, Answer, AuditSuccess,
                AuditRetrying, AuditFailed, NextItem, EndAudit, Clear, files
  <2>6. ASSUME Crash \/ UNCHANGED vars \/ \E r \in Runners : Fault(r)
        PROVE  UNCHANGED queue
    BY <2>6 DEF Crash, vars, Fault, files
  <2> QED BY <1>2, <2>0, <2>1, <2>2, <2>3, <2>4, <2>5, <2>6 DEF Next
<1> QED BY <1>1, <1>2, InitTaskInv, PTL DEF Spec, PickedAfterRecorded

-----------------------------------------------------------------------------
(* Without failures two runners keep every task *)

\* The in-flight file says nothing while two runners write it; what is owed is
\* in the queue file or in the memory of a runner.  One runner at a time is
\* between two awaits, so the queue it has requeued its batch to still names the
\* batch when it forgets it.
InHandInv ==
  /\ TypeOK
  /\ \A p \in owed : p \in PathsOf(queue) \/ \E r \in Runners : p \in InMemory(r)
  /\ \A r, q \in Runners : pc[r] \in Inside /\ pc[q] \in Inside => r = q
  /\ \A r \in Runners :
       /\ pc[r] \notin {"await", "audit"} => todo[r] = <<>>
       /\ pc[r] = "clear" => PathsOf(requeue[r]) \subseteq PathsOf(queue)

\* A step of one runner that drops no path from the queue that it does not take
\* into its memory, and none from its memory that is not in the queue or done.
CarryingStep(r) ==
  /\ \A q \in Runners \ {r} : todo'[q] = todo[q] /\ requeue'[q] = requeue[q] /\ pc'[q] = pc[q]
  /\ pc[r] \in Inside \/ LoopFree
  /\ PathsOf(queue) \subseteq PathsOf(queue') \union InMemory(r)'
  /\ owed' \subseteq owed
  /\ InMemory(r) \intersect owed' \subseteq PathsOf(queue') \union InMemory(r)'
  /\ pc'[r] \notin {"await", "audit"} => todo'[r] = <<>>
  /\ pc'[r] = "clear" => PathsOf(requeue'[r]) \subseteq PathsOf(queue')

LEMMA CarryingStepKeepsInHand ==
  ASSUME InHandInv, TypeOK', NEW r \in Runners, CarryingStep(r)
  PROVE  InHandInv'
<1>1. \A q \in Runners \ {r} : InMemory(q)' = InMemory(q)
  BY DEF CarryingStep, InMemory
<1>2. \A q \in Runners \ {r} : pc[q] \notin Inside /\ pc'[q] \notin Inside
  BY DEF CarryingStep, InHandInv, LoopFree
<1>3. ASSUME NEW p \in owed'
      PROVE  p \in PathsOf(queue') \/ \E q \in Runners : p \in InMemory(q)'
  <2>1. p \in owed /\ (p \in PathsOf(queue) \/ \E q \in Runners : p \in InMemory(q))
    BY <1>3 DEF CarryingStep, InHandInv
  <2>2. CASE p \in PathsOf(queue)
    BY <2>2 DEF CarryingStep
  <2>3. CASE p \in InMemory(r)
    BY <1>3, <2>3 DEF CarryingStep
  <2>4. ASSUME NEW q \in Runners \ {r}, p \in InMemory(q)
        PROVE  \E d \in Runners : p \in InMemory(d)'
    BY <1>1, <2>4
  <2> QED BY <2>1, <2>2, <2>3, <2>4
<1>4. \A d, q \in Runners : pc'[d] \in Inside /\ pc'[q] \in Inside => d = q
  BY <1>2
<1>5. ASSUME NEW q \in Runners
      PROVE  /\ pc'[q] \notin {"await", "audit"} => todo'[q] = <<>>
             /\ pc'[q] = "clear" => PathsOf(requeue'[q]) \subseteq PathsOf(queue')
  <2>1. CASE q = r
    BY <2>1 DEF CarryingStep
  <2>2. CASE q # r
    BY <1>2, <2>2 DEF CarryingStep, InHandInv
  <2> QED BY <2>1, <2>2
<1> QED BY <1>3, <1>4, <1>5 DEF InHandInv

\* Each step of run_tagger_once carries what it has to.
LEMMA RunnersCarry ==
  ASSUME InHandInv, TypeOK', NEW r \in Runners, RunnerStep(r)
  PROVE  CarryingStep(r)
<1>T. TypeOK /\ pc \in [Runners -> Outside \union Inside]
  BY DEF InHandInv, TypeOK
<1>E. PathsOf(<<>>) = {}
  BY PathsOfEmpty
<1>1. /\ \A q \in Runners \ {r} : todo'[q] = todo[q] /\ requeue'[q] = requeue[q] /\ pc'[q] = pc[q]
      /\ pc[r] \in Inside \/ LoopFree
  BY <1>T DEF RunnerStep, Restore, AtStart, ClearRestored, FindEmpty, SaveInflight, SaveRest, Answer,
              AuditSuccess, AuditRetrying, AuditFailed, NextItem, EndAudit, Requeue, Clear,
              DropMemory, Goto, memory, TypeOK
<1>2. ASSUME UNCHANGED <<todo, requeue, owed>>, PathsOf(queue) \subseteq PathsOf(queue'),
             pc[r] \notin {"await", "audit"}, pc'[r] # "clear"
      PROVE  CarryingStep(r)
  BY <1>1, <1>2 DEF CarryingStep, InMemory, InHandInv
<1>3. CASE Restore(r)
  <2>1. PathsOf(queue') = PathsOf(Restored) \union PathsOf(queue)
    BY <1>3, <1>T, RestoredType, PathsOfConcat DEF Restore, TypeOK
  <2>2. pc[r] \in {"idle", "pick"} /\ pc'[r] = "clearRestored"
    BY <1>3, <1>T DEF Restore, AtStart, Goto
  <2> QED BY <1>2, <1>3, <2>1, <2>2 DEF Restore, memory, history
<1>4. CASE ClearRestored(r) \/ FindEmpty(r) \/ SaveInflight(r)
  <2>1. UNCHANGED <<todo, requeue, owed, queue>>
    BY <1>4 DEF ClearRestored, FindEmpty, SaveInflight, files, memory, history
  <2>2. pc[r] \in {"clearRestored", "saveInflight"} /\ pc'[r] # "clear"
    BY <1>4, <1>T DEF ClearRestored, FindEmpty, SaveInflight, Goto
  <2> QED BY <1>2, <2>1, <2>2
<1>5. CASE SaveRest(r)
  <2>1. /\ pc[r] = "saveRest" /\ pc'[r] = "await" /\ UNCHANGED <<requeue, owed>>
        /\ todo'[r] = Batch(queue) /\ queue' = Rest(queue)
    BY <1>5, <1>T DEF SaveRest, Goto, history, TypeOK
  <2>2. todo[r] = <<>> /\ PathsOf(queue) = PathsOf(todo'[r]) \union PathsOf(queue')
    BY <1>T, <2>1, BatchAndRest DEF InHandInv, TypeOK
  <2> QED BY <1>1, <1>E, <2>1, <2>2 DEF CarryingStep, InMemory
<1>6. CASE Answer(r)
  <2>1. pc'[r] = "audit" /\ UNCHANGED <<todo, requeue, owed, queue>>
    BY <1>6, <1>T DEF Answer, Goto, files, history
  <2> QED BY <1>1, <2>1 DEF CarryingStep, InMemory
<1>7. ASSUME NextItem(r)
      PROVE  /\ pc[r] = "audit" /\ pc'[r] = "audit" /\ queue' = queue
             /\ Head(todo[r]) \in Item
             /\ PathsOf(todo[r]) = {Head(todo[r]).path} \union PathsOf(todo'[r])
  <2>1. pc[r] = "audit" /\ todo[r] # <<>> /\ UNCHANGED <<pc, queue>>
    BY <1>7 DEF NextItem, files
  <2>2. todo'[r] = Tail(todo[r]) /\ todo[r] \in Seq(Item)
    BY <1>7, <1>T DEF NextItem, TypeOK
  <2> QED BY <2>1, <2>2, PathsOfHeadTail
<1>8. CASE AuditSuccess(r) \/ AuditFailed(r)
  <2>1. NextItem(r) /\ owed' = owed \ {Head(todo[r]).path} /\ UNCHANGED requeue
    BY <1>8 DEF AuditSuccess, AuditFailed, WroteClosingLine
  <2> QED BY <1>1, <1>7, <2>1 DEF CarryingStep, InMemory
<1>9. CASE AuditRetrying(r)
  <2>1. /\ NextItem(r) /\ UNCHANGED owed /\ MayRetry(Head(todo[r]))
        /\ requeue'[r] = Append(requeue[r], Retried(Head(todo[r])))
    BY <1>9, <1>T DEF AuditRetrying, TypeOK
  <2>2. /\ Retried(Head(todo[r])) \in Item
        /\ Retried(Head(todo[r])).path = Head(todo[r]).path
    BY <2>1, <1>7, RetriedType
  <2>3. PathsOf(requeue'[r]) = PathsOf(requeue[r]) \union {Head(todo[r]).path}
    BY <2>1, <2>2, <1>T, PathsOfAppend DEF TypeOK
  <2> QED BY <1>1, <1>7, <2>1, <2>3 DEF CarryingStep, InMemory
<1>10. CASE EndAudit(r)
  <2>1. /\ pc[r] = "audit" /\ todo[r] = <<>>
        /\ pc'[r] = IF requeue[r] = <<>> THEN "clear" ELSE "requeue"
        /\ UNCHANGED <<queue, todo, requeue, owed>>
    BY <1>10, <1>T DEF EndAudit, Goto, files, memory, history
  <2> QED BY <1>1, <1>E, <2>1 DEF CarryingStep, InMemory
<1>11. CASE Requeue(r)
  <2>1. pc[r] = "requeue" /\ pc'[r] = "clear" /\ UNCHANGED <<todo, requeue, owed>>
    BY <1>11, <1>T DEF Requeue, Goto, memory, history
  <2>2. PathsOf(queue') = PathsOf(requeue[r]) \union PathsOf(queue)
    BY <1>11, <1>T, PathsOfConcat DEF Requeue, TypeOK
  <2>3. todo[r] = <<>>
    BY <2>1 DEF InHandInv
  <2> QED BY <1>1, <2>1, <2>2, <2>3 DEF CarryingStep, InMemory
<1>12. CASE Clear(r)
  <2>1. /\ pc[r] = "clear" /\ pc'[r] \in {"pick", "idle"} /\ todo'[r] = <<>>
        /\ UNCHANGED <<queue, owed>>
    BY <1>12, <1>T DEF Clear, DropMemory, Goto, history, TypeOK
  <2>2. InMemory(r) \subseteq PathsOf(queue)
    BY <1>E, <2>1 DEF InHandInv, InMemory
  <2> QED BY <1>1, <2>1, <2>2 DEF CarryingStep
<1> QED BY <1>3, <1>4, <1>5, <1>6, <1>8, <1>9, <1>10, <1>11, <1>12 DEF RunnerStep

LEMMA NextInHand ==
  ASSUME MaxCrashes = 0, MaxFaults = 0, InHandInv, [Next]_vars
  PROVE  InHandInv'
<1>T. TypeOK /\ TypeOK'
  BY NextType DEF InHandInv
<1>1. ~Crash /\ \A r \in Runners : ~Fault(r)
  BY <1>T DEF Crash, Fault, TypeOK
<1>2. ASSUME NEW r \in Runners, RunnerStep(r) PROVE InHandInv'
  BY <1>T, <1>2, RunnersCarry, CarryingStepKeepsInHand
<1>3. ASSUME NEW p \in Paths, Enqueue(p) PROVE InHandInv'
  <2>1. PathsOf(queue') = PathsOf(queue) \union {p}
    BY <1>3, <1>T, EnqueueNamesPath
  <2>2. owed' = owed \union {p} /\ UNCHANGED <<todo, requeue>>
    BY <1>3 DEF Enqueue, memory
  <2>3. \A r \in Runners : /\ pc[r] \in Outside /\ pc'[r] \in Outside
                           /\ pc'[r] = pc[r] \/ (pc[r] = "off" /\ pc'[r] = "idle")
    BY <1>3, <1>T DEF Enqueue, LoopFree, StartAutoRun, Goto, TypeOK
  <2>4. \A r \in Runners : InMemory(r)' = InMemory(r)
    BY <2>2 DEF InMemory
  <2> QED BY <1>T, <2>1, <2>2, <2>3, <2>4 DEF InHandInv
<1>4. CASE UNCHANGED vars
  BY <1>4, <1>T DEF vars, InHandInv, InMemory
<1> QED BY <1>1, <1>2, <1>3, <1>4 DEF Next

\* The auto-run task and the drain write over and remove each other's in-flight
\* file and restore each other's batches; as long as neither fails and the
\* process lives, each task that is owed is in a file or in a runner's batch.
THEOREM TwoRunnersKeepTasks ==
  ASSUME MaxCrashes = 0, MaxFaults = 0
  PROVE  Spec => []OwedIsInHand
<1>1. Init => InHandInv
  <2>1. Init => TypeOK
    BY InitType
  <2> QED BY <2>1 DEF Init, InitialPc, EmptyMemory, InHandInv
<1>2. InHandInv => OwedIsInHand
  BY DEF InHandInv, OwedIsInHand, OnDisk
<1>3. InHandInv /\ [Next]_vars => InHandInv'
  BY NextInHand
<1> QED BY <1>1, <1>2, <1>3, PTL DEF Spec
=============================================================================
