------------------------- MODULE TaggerRepeatsProofs -------------------------
(***************************************************************************)
(* How often the tagging queue repeats work: theorems about the audit      *)
(* lines of each entry, for every value of the constants of TaggerQueue.   *)
(***************************************************************************)
EXTENDS TaggerQueueProofs

-----------------------------------------------------------------------------
(* The entries of a list *)

ItemsOf(items) == {items[i] : i \in DOMAIN items}

\* No entry is twice in the list.  A path may be: it is queued again while its
\* first entry is with the tagger.
OneEach(items) ==
  \A i, j \in DOMAIN items : items[i].entry = items[j].entry => i = j

\* The two lists have no entry in common.
Apart(items, others) ==
  \A x \in ItemsOf(items), y \in ItemsOf(others) : x.entry # y.entry

LEMMA ItemsType ==
  ASSUME NEW s \in Seq(Item)
  PROVE  ItemsOf(s) \subseteq Item /\ PathsOf(s) = {x.path : x \in ItemsOf(s)}
<1>1. \A i \in DOMAIN s : s[i] \in Item
  BY ElementOfSeq, LenProperties
<1> QED BY <1>1 DEF ItemsOf, PathsOf

LEMMA EmptyItems == ItemsOf(<<>>) = {} /\ OneEach(<<>>)
BY DEF ItemsOf, OneEach

LEMMA SingleItem ==
  ASSUME NEW x \in Item
  PROVE  ItemsOf(<<x>>) = {x} /\ OneEach(<<x>>) /\ <<x>> \in Seq(Item)
BY DEF ItemsOf, OneEach

\* A concatenation has the items of its parts, and each entry once if and only
\* if the parts have and share none.
LEMMA ItemsOfConcat ==
  ASSUME NEW s \in Seq(Item), NEW t \in Seq(Item)
  PROVE  /\ ItemsOf(s \o t) = ItemsOf(s) \union ItemsOf(t)
         /\ OneEach(s \o t) <=> OneEach(s) /\ OneEach(t) /\ Apart(s, t)
<1> DEFINE m == Len(s)  n == Len(t)
<1>1. /\ DOMAIN s = 1..m /\ DOMAIN t = 1..n /\ DOMAIN (s \o t) = 1..(m + n)
      /\ m \in Nat /\ n \in Nat
  BY ConcatProperties, LenProperties
<1>2. \A i \in 1..m : i \in 1..(m + n) /\ (s \o t)[i] = s[i]
  BY <1>1, ConcatProperties
<1>3. \A i \in 1..n : i + m \in 1..(m + n) /\ (s \o t)[i + m] = t[i]
  BY <1>1, ConcatProperties
<1>4. \A i \in 1..(m + n) : i \in 1..m \/ (i - m \in 1..n /\ i = (i - m) + m)
  BY <1>1
<1> HIDE DEF m, n
<1>5. ItemsOf(s \o t) = ItemsOf(s) \union ItemsOf(t)
  <2>1. ItemsOf(s) \subseteq ItemsOf(s \o t)
    BY <1>1, <1>2 DEF ItemsOf
  <2>2. ItemsOf(t) \subseteq ItemsOf(s \o t)
    BY <1>1, <1>3 DEF ItemsOf
  <2>3. \A i \in 1..(m + n) : (s \o t)[i] \in ItemsOf(s) \union ItemsOf(t)
    BY <1>1, <1>2, <1>3, <1>4 DEF ItemsOf
  <2> QED BY <1>1, <2>1, <2>2, <2>3 DEF ItemsOf
<1>6. ASSUME OneEach(s \o t)
      PROVE  OneEach(s) /\ OneEach(t) /\ Apart(s, t)
  <2>1. OneEach(s)
    BY <1>1, <1>2, <1>6 DEF OneEach
  <2>2. ASSUME NEW i \in 1..n, NEW j \in 1..n, t[i].entry = t[j].entry
        PROVE  i = j
    <3>1. i + m = j + m
      BY <1>1, <1>3, <1>6, <2>2 DEF OneEach
    <3> QED BY <1>1, <3>1
  <2>3. ASSUME NEW i \in 1..m, NEW j \in 1..n
        PROVE  s[i].entry # t[j].entry
    <3>1. i # j + m
      BY <1>1
    <3> QED BY <1>1, <1>2, <1>3, <1>6, <3>1 DEF OneEach
  <2> QED BY <1>1, <2>1, <2>2, <2>3 DEF OneEach, Apart, ItemsOf
<1>7. ASSUME OneEach(s), OneEach(t), Apart(s, t)
      PROVE  OneEach(s \o t)
  <2>1. SUFFICES ASSUME NEW i \in 1..(m + n), NEW j \in 1..(m + n),
                        (s \o t)[i].entry = (s \o t)[j].entry
                 PROVE  i = j
    BY <1>1 DEF OneEach
  <2>2. CASE i \in 1..m /\ j \in 1..m
    BY <1>1, <1>2, <1>7, <2>1, <2>2 DEF OneEach
  <2>3. \A k \in 1..m, l \in 1..n : s[k].entry # t[l].entry
    BY <1>1, <1>7 DEF Apart, ItemsOf
  <2>4. CASE i \in 1..m /\ j \notin 1..m
    <3>1. (s \o t)[i] = s[i] /\ (s \o t)[j] = t[j - m] /\ j - m \in 1..n
      BY <1>2, <1>3, <1>4, <2>4
    <3> QED BY <2>1, <2>4, <2>3, <3>1
  <2>5. CASE i \notin 1..m /\ j \in 1..m
    <3>1. (s \o t)[i] = t[i - m] /\ (s \o t)[j] = s[j] /\ i - m \in 1..n
      BY <1>2, <1>3, <1>4, <2>5
    <3> QED BY <2>1, <2>5, <2>3, <3>1
  <2>6. CASE i \notin 1..m /\ j \notin 1..m
    <3>1. (s \o t)[i] = t[i - m] /\ (s \o t)[j] = t[j - m] /\ i - m \in 1..n /\ j - m \in 1..n
      BY <1>3, <1>4, <2>6
    <3>2. i - m = j - m
      BY <1>1, <1>7, <2>1, <3>1 DEF OneEach
    <3> QED BY <1>1, <3>2
  <2> QED BY <2>2, <2>4, <2>5, <2>6
<1> QED BY <1>5, <1>6, <1>7

\* An item at the end.
LEMMA ItemsOfAppend ==
  ASSUME NEW s \in Seq(Item), NEW x \in Item
  PROVE  /\ ItemsOf(Append(s, x)) = ItemsOf(s) \union {x}
         /\ OneEach(Append(s, x)) <=>
              OneEach(s) /\ \A y \in ItemsOf(s) : y.entry # x.entry
<1> DEFINE one == <<x>>
<1>1. /\ Append(s, x) = s \o one
      /\ one \in Seq(Item) /\ ItemsOf(one) = {x} /\ OneEach(one)
  BY AppendIsConcat, SingleItem
<1> HIDE DEF one
<1>2. /\ ItemsOf(s \o one) = ItemsOf(s) \union ItemsOf(one)
      /\ OneEach(s \o one) <=> OneEach(s) /\ OneEach(one) /\ Apart(s, one)
  BY <1>1, ItemsOfConcat
<1>3. Apart(s, one) <=> \A y \in ItemsOf(s) : y.entry # x.entry
  BY <1>1 DEF Apart
<1> QED BY <1>1, <1>2, <1>3

\* The item at the front.
LEMMA ItemsOfHeadTail ==
  ASSUME NEW s \in Seq(Item), s # <<>>
  PROVE  /\ Head(s) \in Item /\ Tail(s) \in Seq(Item)
         /\ ItemsOf(s) = {Head(s)} \union ItemsOf(Tail(s))
         /\ OneEach(s) => /\ OneEach(Tail(s))
                          /\ \A x \in ItemsOf(Tail(s)) : x.entry # Head(s).entry
<1> DEFINE one == <<Head(s)>>  rest == Tail(s)
<1>1. s = one \o rest /\ Head(s) \in Item /\ rest \in Seq(Item)
  BY HeadTailProperties
<1>2. one \in Seq(Item) /\ ItemsOf(one) = {Head(s)}
  BY <1>1, SingleItem
<1> HIDE DEF one, rest
<1>3. /\ ItemsOf(one \o rest) = ItemsOf(one) \union ItemsOf(rest)
      /\ OneEach(one \o rest) <=> OneEach(one) /\ OneEach(rest) /\ Apart(one, rest)
  BY <1>1, <1>2, ItemsOfConcat
<1>4. Apart(one, rest) => \A x \in ItemsOf(rest) : x.entry # Head(s).entry
  BY <1>2 DEF Apart
<1>5. /\ ItemsOf(s) = ItemsOf(one) \union ItemsOf(rest)
      /\ OneEach(s) => OneEach(rest) /\ Apart(one, rest)
  BY <1>1, <1>3
<1> QED BY <1>1, <1>2, <1>4, <1>5 DEF rest

\* The slices of run_tagger_once.
LEMMA ItemsOfBatch ==
  ASSUME NEW s \in Seq(Item)
  PROVE  /\ ItemsOf(s) = ItemsOf(Batch(s)) \union ItemsOf(Rest(s))
         /\ OneEach(s) => OneEach(Batch(s)) /\ OneEach(Rest(s)) /\ Apart(Batch(s), Rest(s))
<1>1. Batch(s) \in Seq(Item) /\ Rest(s) \in Seq(Item) /\ Batch(s) \o Rest(s) = s
  BY BatchAndRest
<1>2. /\ ItemsOf(Batch(s) \o Rest(s)) = ItemsOf(Batch(s)) \union ItemsOf(Rest(s))
      /\ OneEach(Batch(s) \o Rest(s)) <=>
           OneEach(Batch(s)) /\ OneEach(Rest(s)) /\ Apart(Batch(s), Rest(s))
  BY <1>1, ItemsOfConcat
<1> QED BY <1>1, <1>2

\* The filter of _restore_inflight takes no entry twice that is in once.
LEMMA ItemsOfWithout ==
  ASSUME NEW s \in Seq(Item), NEW except
  PROVE  /\ ItemsOf(Without(s, except)) = {x \in ItemsOf(s) : x.path \notin except}
         /\ OneEach(s) => OneEach(Without(s, except))
<1> DEFINE K == {i \in DOMAIN s : s[i].path \notin except}
           w == Selected(s, K)
<1>1. K \subseteq DOMAIN s /\ DOMAIN s \subseteq Int
  BY LenProperties
<1>2. /\ w \in Seq(Item)
      /\ \A k \in DOMAIN w : \E i \in K : w[k] = s[i]
      /\ \A i \in K : \E k \in DOMAIN w : w[k] = s[i]
  <2> HIDE DEF K
  <2> QED BY <1>1, SelectedItems
<1>3. \A k, l \in DOMAIN w : k < l => \E i, j \in K : i < j /\ w[k] = s[i] /\ w[l] = s[j]
  <2> HIDE DEF K
  <2> QED BY <1>1, SelectedInOrder
<1>4. ItemsOf(w) = {x \in ItemsOf(s) : x.path \notin except}
  <2>1. ASSUME NEW x \in ItemsOf(w)
        PROVE  x \in ItemsOf(s) /\ x.path \notin except
    <3>1. PICK k \in DOMAIN w : x = w[k]
      BY <2>1 DEF ItemsOf
    <3>2. PICK i \in K : x = s[i]
      BY <1>2, <3>1
    <3> QED BY <3>2 DEF ItemsOf
  <2>2. ASSUME NEW x \in ItemsOf(s), x.path \notin except
        PROVE  x \in ItemsOf(w)
    <3>1. PICK i \in K : x = s[i]
      BY <2>2 DEF ItemsOf
    <3>2. PICK k \in DOMAIN w : x = w[k]
      BY <1>2, <3>1
    <3> QED BY <3>2 DEF ItemsOf
  <2> QED BY <2>1, <2>2
<1>5. ASSUME OneEach(s), NEW k \in DOMAIN w, NEW l \in DOMAIN w, k < l
      PROVE  w[k].entry # w[l].entry
  <2>1. PICK i \in K, j \in K : i < j /\ w[k] = s[i] /\ w[l] = s[j]
    BY <1>3, <1>5
  <2> QED BY <1>1, <1>5, <2>1 DEF OneEach
<1>6. OneEach(s) => OneEach(w)
  <2>1. \A k, l \in DOMAIN w : k < l \/ l < k \/ k = l
    <3>1. DOMAIN w = 1..Len(w) /\ Len(w) \in Nat
      BY <1>2, LenProperties
    <3> QED BY <3>1
  <2> QED BY <1>5, <2>1 DEF OneEach
<1> QED BY <1>4, <1>6 DEF Without

-----------------------------------------------------------------------------
(* With one runner, each entry is in one place *)

Known == ItemsOf(queue) \union ItemsOf(inflight)
           \union ItemsOf(todo["worker"]) \union ItemsOf(requeue["worker"])

\* Where the entries are.  An entry is in the queue or in the batch in hand, not
\* in both, until the call has put back what is to be tried again ("clear").
\* What the in-flight file names may be in the queue as well, after a failure
\* between two file operations; it then has the path of its entry there, by
\* which _restore_inflight leaves it out.
EntryInv ==
  LET w == "worker" IN
  /\ \A x \in Known : x.entry <= entries
  /\ \A x, y \in Known : x.entry = y.entry => x.path = y.path
  /\ OneEach(queue) /\ OneEach(inflight) /\ OneEach(todo[w]) /\ OneEach(requeue[w])
  /\ Apart(todo[w], requeue[w])
  /\ pc[w] # "clear" => Apart(queue, todo[w]) /\ Apart(queue, requeue[w])
  /\ pc[w] \notin BatchInHand => todo[w] = <<>> /\ requeue[w] = <<>>
  /\ pc[w] = "saveRest" => inflight = Batch(queue)
  /\ pc[w] \in BatchInHand => ItemsOf(todo[w]) \subseteq ItemsOf(inflight)

LEMMA InitEntryInv == Init => EntryInv
<1> SUFFICES ASSUME Init PROVE EntryInv
  OBVIOUS
<1>1. "worker" \in Runners
  BY RunnersFact
<1>2. /\ queue = <<>> /\ inflight = <<>> /\ pc["worker"] = "idle"
      /\ todo["worker"] = <<>> /\ requeue["worker"] = <<>>
  BY <1>1 DEF Init, InitialPc, EmptyMemory
<1>3. Apart(<<>>, <<>>)
  BY EmptyItems DEF Apart
<1> QED BY <1>2, <1>3, EmptyItems DEF EntryInv, Known, BatchInHand

LEMMA NextEntryInv ==
  ASSUME AutoRun = FALSE, TypeOK, EntryInv, [Next]_vars
  PROVE  EntryInv'
<1> DEFINE w == "worker"
<1>0. Runners = {w} /\ w \in Runners
  BY DEF Runners
<1>T. TypeOK /\ TypeOK'
  BY NextType
<1>E. /\ ItemsOf(<<>>) = {} /\ OneEach(<<>>)
      /\ \A s : Apart(<<>>, s) /\ Apart(s, <<>>)
  BY EmptyItems DEF Apart
<1>M. todo[w] \in Seq(Item) /\ requeue[w] \in Seq(Item)
  BY <1>0, <1>T DEF TypeOK
<1>1. ASSUME NEW p \in Paths, Enqueue(p) PROVE EntryInv'
  <2>1. UNCHANGED <<inflight, todo, requeue, pc>>
    BY <1>1 DEF Enqueue, StartAutoRun, memory
  <2>2. CASE AlreadyQueued(p)
    <3>1. UNCHANGED <<queue, entries>>
      BY <1>1, <2>2 DEF Enqueue
    <3> QED BY <2>1, <3>1 DEF EntryInv, Known, OneEach, Apart, ItemsOf
  <2>3. CASE ~AlreadyQueued(p)
    <3> DEFINE new == [path |-> p, attempts |-> 0, entry |-> entries + 1]
    <3>1. queue' = Append(queue, new) /\ entries < MaxEntries /\ entries' = entries + 1
      BY <1>1, <2>3 DEF Enqueue, Append0
    <3>2. new \in Item /\ new.entry = entries + 1
      BY <3>1, <1>T, BoundsAssumption, MaxAttemptsAssumption DEF TypeOK, Item, EntryNumbers
    <3>3. \A x \in Known : x.entry < new.entry /\ x.entry # new.entry
      <4>1. Known \subseteq Item
        BY <1>T, <1>M, ItemsType DEF Known, TypeOK
      <4>2. \A x \in Known : x.entry \in Nat /\ x.entry <= entries
        BY <4>1 DEF EntryInv, Item, EntryNumbers
      <4>3. entries \in Nat
        BY <1>T DEF TypeOK
      <4> QED BY <3>2, <4>2, <4>3
    <3> HIDE DEF new
    <3>4. /\ ItemsOf(queue') = ItemsOf(queue) \union {new}
          /\ OneEach(queue') <=> OneEach(queue) /\ \A y \in ItemsOf(queue) : y.entry # new.entry
      BY <3>1, <3>2, <1>T, ItemsOfAppend DEF TypeOK
    <3>5. OneEach(queue')
      BY <3>3, <3>4 DEF EntryInv, Known
    <3>6. Known' = Known \union {new}
      BY <2>1, <3>4 DEF Known
    <3>7. \A x \in Known' : x.entry <= entries'
      <4>1. \A x \in Known : x.entry <= entries + 1
        <5>1. Known \subseteq Item
          BY <1>T, <1>M, ItemsType DEF Known, TypeOK
        <5>2. \A x \in Known : x.entry \in Nat /\ x.entry <= entries
          BY <5>1 DEF EntryInv, Item, EntryNumbers
        <5> QED BY <5>2, <1>T DEF TypeOK
      <4> QED BY <4>1, <3>1, <3>2, <3>6, <1>T DEF TypeOK
    <3>8. \A x, y \in Known' : x.entry = y.entry => x.path = y.path
      BY <3>3, <3>6 DEF EntryInv
    <3>9. /\ Apart(queue, todo[w]) => Apart(queue', todo[w])
          /\ Apart(queue, requeue[w]) => Apart(queue', requeue[w])
      BY <3>3, <3>4 DEF Apart, Known
    <3>10. pc[w] # "saveRest"
      BY <1>0, <1>1 DEF Enqueue, LoopFree, Outside
    <3> QED BY <2>1, <3>5, <3>7, <3>8, <3>9, <3>10 DEF EntryInv
  <2> QED BY <2>2, <2>3
<1>2. ASSUME Restore(w) PROVE EntryInv'
  <2>1. /\ pc'[w] = "clearRestored" /\ pc[w] \in {"idle", "pick"}
        /\ queue' = Restored \o queue
        /\ UNCHANGED <<inflight, todo, requeue, entries>>
    BY <1>2, <1>0, <1>T DEF Restore, AtStart, Goto, TypeOK, memory, bounds
  <2>2. /\ Restored \in Seq(Item)
        /\ ItemsOf(Restored) = {x \in ItemsOf(inflight) : x.path \notin PathsOf(queue)}
        /\ OneEach(Restored)
    BY <1>T, RestoredType, ItemsOfWithout DEF Restored, TypeOK, EntryInv
  <2>3. PathsOf(queue) = {x.path : x \in ItemsOf(queue)}
    BY <1>T, ItemsType DEF TypeOK
  <2>4. Apart(Restored, queue)
    BY <2>2, <2>3 DEF Apart, EntryInv, Known
  <2>5. ItemsOf(queue') = ItemsOf(Restored) \union ItemsOf(queue) /\ OneEach(queue')
    BY <2>1, <2>2, <2>4, <1>T, ItemsOfConcat DEF TypeOK, EntryInv
  <2>6. Known' = Known
    BY <2>1, <2>2, <2>5 DEF Known
  <2>7. todo[w] = <<>> /\ requeue[w] = <<>>
    BY <2>1 DEF EntryInv, BatchInHand
  <2> QED BY <1>E, <2>1, <2>5, <2>6, <2>7 DEF EntryInv, BatchInHand
<1>3. ASSUME ClearRestored(w) PROVE EntryInv'
  <2>1. /\ pc'[w] = "saveInflight" /\ pc[w] = "clearRestored" /\ inflight' = <<>>
        /\ UNCHANGED <<queue, todo, requeue, entries>>
    BY <1>3, <1>0, <1>T DEF ClearRestored, Goto, TypeOK, memory, bounds
  <2>2. Known' \subseteq Known
    BY <1>E, <2>1 DEF Known
  <2> QED BY <1>E, <2>1, <2>2 DEF EntryInv, BatchInHand
<1>4. ASSUME FindEmpty(w) PROVE EntryInv'
  <2>1. /\ pc'[w] = "idle" /\ pc[w] = "saveInflight"
        /\ UNCHANGED <<queue, inflight, todo, requeue, entries>>
    BY <1>4, <1>0, <1>T DEF FindEmpty, Goto, TypeOK, files, memory, bounds
  <2>2. Known' = Known
    BY <2>1 DEF Known
  <2> QED BY <2>1, <2>2 DEF EntryInv, BatchInHand
<1>5. ASSUME SaveInflight(w) PROVE EntryInv'
  <2>1. /\ pc'[w] = "saveRest" /\ pc[w] = "saveInflight" /\ inflight' = Batch(queue)
        /\ UNCHANGED <<queue, todo, requeue, entries>>
    BY <1>5, <1>0, <1>T DEF SaveInflight, Goto, TypeOK, memory, bounds
  <2>2. OneEach(inflight') /\ ItemsOf(inflight') \subseteq ItemsOf(queue)
    BY <2>1, <1>T, ItemsOfBatch DEF TypeOK, EntryInv
  <2>3. Known' \subseteq Known
    BY <2>1, <2>2 DEF Known
  <2> QED BY <2>1, <2>2, <2>3 DEF EntryInv, BatchInHand
<1>6. ASSUME SaveRest(w) PROVE EntryInv'
  <2>1. /\ pc'[w] = "await" /\ pc[w] = "saveRest"
        /\ todo'[w] = Batch(queue) /\ queue' = Rest(queue)
        /\ UNCHANGED <<inflight, requeue, entries>>
    BY <1>6, <1>0, <1>T DEF SaveRest, Goto, TypeOK, bounds
  <2>2. /\ ItemsOf(queue) = ItemsOf(todo'[w]) \union ItemsOf(queue')
        /\ OneEach(todo'[w]) /\ OneEach(queue') /\ Apart(todo'[w], queue')
    BY <2>1, <1>T, ItemsOfBatch DEF TypeOK, EntryInv
  <2>3. Apart(queue', todo'[w])
    BY <2>2 DEF Apart
  <2>4. inflight = todo'[w] /\ requeue[w] = <<>>
    BY <2>1 DEF EntryInv, BatchInHand
  <2>5. Known' \subseteq Known
    BY <2>1, <2>2 DEF Known
  <2> QED BY <1>E, <2>1, <2>2, <2>3, <2>4, <2>5 DEF EntryInv, BatchInHand
<1>7. ASSUME Answer(w) PROVE EntryInv'
  <2>1. /\ pc'[w] = "audit" /\ pc[w] = "await"
        /\ UNCHANGED <<queue, inflight, todo, requeue, entries>>
    BY <1>7, <1>0, <1>T DEF Answer, Goto, TypeOK, files, bounds
  <2>2. Known' = Known
    BY <2>1 DEF Known
  <2> QED BY <2>1, <2>2 DEF EntryInv, BatchInHand
<1>8. ASSUME NextItem(w)
      PROVE  /\ UNCHANGED <<queue, inflight, pc, entries>> /\ pc[w] = "audit"
             /\ Head(todo[w]) \in Item /\ Head(todo[w]) \in ItemsOf(todo[w])
             /\ ItemsOf(todo'[w]) \subseteq ItemsOf(todo[w])
             /\ OneEach(todo'[w])
             /\ \A x \in ItemsOf(todo'[w]) : x.entry # Head(todo[w]).entry
  <2>1. UNCHANGED <<queue, inflight, pc, entries>> /\ pc[w] = "audit" /\ todo[w] # <<>>
    BY <1>8 DEF NextItem, files, bounds
  <2>2. todo'[w] = Tail(todo[w])
    BY <1>8, <1>0, <1>T DEF NextItem, TypeOK
  <2> QED BY <2>1, <2>2, <1>M, ItemsOfHeadTail DEF EntryInv
<1>9. ASSUME AuditSuccess(w) \/ AuditFailed(w) PROVE EntryInv'
  <2>1. NextItem(w) /\ UNCHANGED requeue
    BY <1>9 DEF AuditSuccess, AuditFailed
  <2>2. Known' \subseteq Known
    BY <1>8, <2>1 DEF Known
  <2>3. Apart(todo'[w], requeue[w]) /\ Apart(queue, todo'[w])
    BY <1>8, <2>1 DEF EntryInv, Apart
  <2> QED BY <1>8, <2>1, <2>2, <2>3 DEF EntryInv, BatchInHand
<1>10. ASSUME AuditRetrying(w) PROVE EntryInv'
  <2> DEFINE item == Head(todo[w])  again == Retried(item)
  <2>1. NextItem(w) /\ MayRetry(item) /\ requeue'[w] = Append(requeue[w], again)
    BY <1>10, <1>0, <1>T DEF AuditRetrying, TypeOK
  <2>2. /\ item \in Known /\ again \in Item
        /\ again.path = item.path /\ again.entry = item.entry
    BY <1>8, <2>1, RetriedType DEF Known, Retried, Item
  <2> HIDE DEF again, item
  <2>3. /\ ItemsOf(requeue'[w]) = ItemsOf(requeue[w]) \union {again}
        /\ OneEach(requeue'[w]) <=>
             OneEach(requeue[w]) /\ \A y \in ItemsOf(requeue[w]) : y.entry # again.entry
    BY <1>M, <2>1, <2>2, ItemsOfAppend
  <2>4. \A y \in ItemsOf(requeue[w]) \union ItemsOf(queue) : y.entry # item.entry
    BY <1>8, <2>1 DEF EntryInv, Apart, item
  <2>5. OneEach(requeue'[w])
    BY <2>2, <2>3, <2>4 DEF EntryInv
  <2>6. Known' \subseteq Known \union {again}
    BY <1>8, <2>1, <2>3 DEF Known
  <2>7. /\ Apart(todo'[w], requeue'[w])
        /\ Apart(queue, todo'[w]) /\ Apart(queue, requeue'[w])
    BY <1>8, <2>1, <2>2, <2>3, <2>4 DEF EntryInv, Apart, item
  <2>8. /\ \A x \in Known' : x.entry <= entries
        /\ \A x, y \in Known' : x.entry = y.entry => x.path = y.path
    BY <2>2, <2>6 DEF EntryInv
  <2> QED BY <1>8, <2>1, <2>5, <2>7, <2>8 DEF EntryInv, BatchInHand
<1>11. ASSUME EndAudit(w) PROVE EntryInv'
  <2>1. /\ pc[w] = "audit" /\ pc'[w] \in {"clear", "requeue"}
        /\ UNCHANGED <<queue, inflight, todo, requeue, entries>>
    BY <1>11, <1>0, <1>T DEF EndAudit, Goto, TypeOK, files, memory, bounds
  <2>2. Known' = Known
    BY <2>1 DEF Known
  <2> QED BY <2>1, <2>2 DEF EntryInv, BatchInHand
<1>12. ASSUME Requeue(w) PROVE EntryInv'
  <2>1. /\ pc'[w] = "clear" /\ pc[w] = "requeue" /\ queue' = requeue[w] \o queue
        /\ UNCHANGED <<inflight, todo, requeue, entries>>
    BY <1>12, <1>0, <1>T DEF Requeue, Goto, TypeOK, memory, bounds
  <2>2. Apart(requeue[w], queue)
    BY <2>1 DEF EntryInv, Apart
  <2>3. ItemsOf(queue') = ItemsOf(requeue[w]) \union ItemsOf(queue) /\ OneEach(queue')
    BY <2>1, <2>2, <1>M, <1>T, ItemsOfConcat DEF EntryInv, TypeOK
  <2>4. Known' = Known
    BY <2>1, <2>3 DEF Known
  <2> QED BY <2>1, <2>3, <2>4 DEF EntryInv, BatchInHand
<1>13. ASSUME /\ UNCHANGED <<queue, entries>> /\ inflight' \in {inflight, <<>>}
              /\ pc'[w] \in {"idle", "pick"} /\ todo'[w] = <<>> /\ requeue'[w] = <<>>
       PROVE  EntryInv'
  <2>1. Known' \subseteq Known /\ OneEach(inflight')
    BY <1>13, <1>E DEF Known, EntryInv
  <2> QED BY <1>13, <1>E, <2>1 DEF EntryInv, BatchInHand
<1>14. ASSUME Clear(w) PROVE EntryInv'
  BY <1>0, <1>13, <1>14, <1>T DEF Clear, Goto, DropMemory, TypeOK, bounds
<1>15. ASSUME Crash PROVE EntryInv'
  BY <1>0, <1>13, <1>15 DEF Crash, Reborn, InitialPc, files
<1>16. ASSUME Fault(w) PROVE EntryInv'
  <2>1. pc'[w] = "idle" /\ todo'[w] = <<>> /\ requeue'[w] = <<>>
    BY <1>0, <1>16, <1>T DEF Fault, Reborn, InitialPc, DropMemory, Goto, TypeOK
  <2> QED BY <1>13, <1>16, <2>1 DEF Fault, files
<1>17. CASE UNCHANGED vars
  BY <1>17 DEF vars, EntryInv, Known, OneEach, Apart, ItemsOf, Batch
<1> QED BY <1>0, <1>1, <1>2, <1>3, <1>4, <1>5, <1>6, <1>7, <1>9, <1>10, <1>11, <1>12,
           <1>14, <1>15, <1>16, <1>17 DEF Next, RunnerStep

-----------------------------------------------------------------------------
(* With one runner, the audit lines of an entry are paid for *)

Failures == crashes + faults

\* The items that are going to be audited.
Live == ItemsOf(queue) \union ItemsOf(todo["worker"]) \union ItemsOf(requeue["worker"])

\* What the audit log has of an item that is to be audited, and of one that
\* has been in this batch: each failure so far may have cost a line of each kind.
Unspent(x) == /\ closed[x.entry] <= Failures
              /\ audited[x.entry] <= x.attempts + Failures
Spent(x) == /\ closed[x.entry] <= 1 + Failures
            /\ audited[x.entry] <= x.attempts + 1 + Failures

\* The labels at which lines of the batch have been written.
Auditing == {"audit", "requeue", "clear"}

\* The in-flight file is what makes entries come again: while a batch is
\* audited it names items as they were before, and they are paid for only by
\* the failure that brings them back.
LinesInv ==
  /\ \A e \in EntryNumbers : e > entries => audited[e] = 0 /\ closed[e] = 0
  /\ RepeatsNeedFailures
  /\ \A x \in Live : Unspent(x)
  /\ \A x \in ItemsOf(inflight) :
       Spent(x) /\ (pc["worker"] \notin Auditing => Unspent(x))
  /\ \A e \in gaveUp : closed[e] >= 1

\* The numbers that are compared are numbers.
LEMMA LinesType ==
  ASSUME TypeOK
  PROVE  /\ crashes \in Nat /\ faults \in Nat /\ Failures \in Nat
         /\ entries \in Nat /\ MaxLines \in Nat /\ MaxLines >= 1
         /\ \A e \in EntryNumbers : audited[e] \in Nat /\ closed[e] \in Nat /\ e \in Nat
         /\ \A x \in Item : /\ x.entry \in EntryNumbers
                            /\ x.attempts \in Nat /\ x.attempts + 1 <= MaxAttempts
BY BoundsAssumption, MaxAttemptsAssumption
   DEF TypeOK, Failures, MaxLines, EntryNumbers, Item

LEMMA SumsAssociate ==
  ASSUME NEW a \in Nat, NEW b \in Nat
  PROVE  1 + (a + b) = 1 + a + b /\ MaxAttempts + (a + b) = MaxAttempts + a + b
BY MaxAttemptsAssumption

LEMMA InitLinesInv == Init => LinesInv
<1> SUFFICES ASSUME Init PROVE LinesInv
  OBVIOUS
<1>1. "worker" \in Runners
  BY RunnersFact
<1>2. /\ queue = <<>> /\ inflight = <<>>
      /\ todo["worker"] = <<>> /\ requeue["worker"] = <<>>
      /\ audited = [e \in EntryNumbers |-> 0] /\ closed = [e \in EntryNumbers |-> 0]
      /\ crashes = 0 /\ faults = 0 /\ gaveUp = {}
  BY <1>1 DEF Init, EmptyMemory
<1>3. RepeatsNeedFailures
  BY <1>2, MaxAttemptsAssumption DEF RepeatsNeedFailures
<1> QED BY <1>2, <1>3, EmptyItems DEF LinesInv, Live

\* A step that writes no audit line and is no failure.
LEMMA QuietStep ==
  ASSUME LinesInv, UNCHANGED <<audited, closed, gaveUp, entries, crashes, faults>>,
         \A x \in Live' : Unspent(x),
         \A x \in ItemsOf(inflight') :
           Spent(x) /\ (pc'["worker"] \notin Auditing => Unspent(x))
  PROVE  LinesInv'
<1>1. \A x : (Unspent(x)' <=> Unspent(x)) /\ (Spent(x)' <=> Spent(x))
  BY DEF Unspent, Spent, Failures
<1> QED BY <1>1 DEF LinesInv, RepeatsNeedFailures

\* A failure pays for one more line of each kind.
LEMMA FailureStep ==
  ASSUME TypeOK, TypeOK', LinesInv,
         Failures' = Failures + 1, UNCHANGED <<audited, closed, gaveUp, entries, files>>,
         todo'["worker"] = <<>>, requeue'["worker"] = <<>>
  PROVE  LinesInv'
<1>0. ASSUME NEW x \in Item
      PROVE  /\ closed'[x.entry] = closed[x.entry] /\ audited'[x.entry] = audited[x.entry]
             /\ closed[x.entry] \in Nat /\ audited[x.entry] \in Nat
             /\ x.attempts \in Nat /\ Failures \in Nat /\ Failures' = Failures + 1
  BY LinesType
<1>1. ASSUME NEW x \in Item, Spent(x)
      PROVE  Spent(x)' /\ Unspent(x)'
  BY <1>0, <1>1 DEF Spent, Unspent
<1>2. ASSUME NEW x \in Item, Unspent(x)
      PROVE  Spent(x)' /\ Unspent(x)'
  BY <1>0, <1>2 DEF Spent, Unspent
<1>3. ItemsOf(queue) \subseteq Item /\ ItemsOf(inflight) \subseteq Item
  BY ItemsType DEF TypeOK
<1>4. Live' = ItemsOf(queue)
  BY EmptyItems DEF Live, files
<1>5. \A x \in Live' : Unspent(x)'
  BY <1>2, <1>3, <1>4 DEF LinesInv, Live
<1>6. \A x \in ItemsOf(inflight') : Spent(x)' /\ Unspent(x)'
  BY <1>1, <1>3 DEF LinesInv, files
<1>7. RepeatsNeedFailures'
  <2>1. ASSUME NEW e \in EntryNumbers
        PROVE  /\ closed[e] <= 1 + (Failures + 1)
               /\ audited[e] <= MaxAttempts + (Failures + 1)
    <3>1. closed[e] <= 1 + Failures /\ audited[e] <= MaxAttempts + Failures
      <4>1. closed[e] <= 1 + crashes + faults /\ audited[e] <= MaxAttempts + crashes + faults
        BY DEF LinesInv, RepeatsNeedFailures
      <4> QED BY <4>1, LinesType, MaxAttemptsAssumption DEF Failures
    <3> QED BY <3>1, LinesType, MaxAttemptsAssumption
  <2>2. /\ 1 + (Failures + 1) = 1 + crashes' + faults'
        /\ MaxAttempts + (Failures + 1) = MaxAttempts + crashes' + faults'
    <3>1. crashes' + faults' = Failures + 1
      BY DEF Failures
    <3>2. crashes' \in Nat /\ faults' \in Nat
      BY LinesType, BoundsAssumption DEF TypeOK
    <3> QED BY <3>1, <3>2, SumsAssociate
  <2> QED BY <2>1, <2>2 DEF RepeatsNeedFailures
<1> QED BY <1>5, <1>6, <1>7 DEF LinesInv

\* One audit line, of the item at the front of the batch: the in-flight file
\* names this item, and no other of its entry, and nothing else that is live
\* is of its entry.
LEMMA AuditStep ==
  ASSUME AutoRun = FALSE, TypeOK, TypeOK', EntryInv, LinesInv, NextItem("worker"),
         NEW item, item = Head(todo["worker"]),
         WroteAuditLine(item),
         closed' = closed \/ closed' = Count(closed, item),
         ItemsOf(requeue'["worker"]) \subseteq
           ItemsOf(requeue["worker"]) \union {Retried(item)},
         closed' # closed => ItemsOf(requeue'["worker"]) \subseteq ItemsOf(requeue["worker"]),
         \/ gaveUp' = gaveUp
         \/ /\ gaveUp' = gaveUp \union {item.entry}
            /\ closed' = Count(closed, item)
  PROVE  LinesInv'
<1> DEFINE w == "worker"  n == item.entry  F == Failures
<1>1. /\ UNCHANGED <<queue, inflight, pc, entries, crashes, faults>>
      /\ pc[w] = "audit" /\ todo[w] # <<>> /\ todo'[w] = Tail(todo[w])
      /\ w \in Runners /\ todo[w] \in Seq(Item) /\ requeue[w] \in Seq(Item)
  <2>1. w \in Runners
    BY RunnersFact
  <2> QED BY <2>1 DEF NextItem, files, bounds, TypeOK
<1>2. /\ item \in Item /\ item \in ItemsOf(todo[w])
      /\ ItemsOf(todo'[w]) \subseteq ItemsOf(todo[w])
      /\ \A x \in ItemsOf(todo'[w]) : x.entry # n
  BY <1>1, ItemsOfHeadTail DEF EntryInv
<1>3. /\ n \in EntryNumbers /\ Failures' = F /\ item.attempts \in Nat /\ item.attempts + 1 <= MaxAttempts
      /\ F \in Nat /\ MaxLines \in Nat /\ MaxLines >= 1
      /\ audited[n] \in Nat /\ closed[n] \in Nat
  BY <1>1, <1>2, LinesType DEF Failures
<1>4. closed[n] <= F /\ audited[n] <= item.attempts + F
  BY <1>2 DEF LinesInv, Live, Unspent
<1>5. /\ audited' = [audited EXCEPT ![n] = Least(audited[n] + 1, MaxLines)]
      /\ closed' = closed \/ closed' = [closed EXCEPT ![n] = Least(closed[n] + 1, MaxLines)]
  BY DEF WroteAuditLine, Count
<1>6. \A e \in EntryNumbers : e # n => audited'[e] = audited[e] /\ closed'[e] = closed[e]
  BY <1>5 DEF TypeOK
<1>7. /\ audited'[n] <= audited[n] + 1 /\ audited'[n] \in Nat
      /\ closed'[n] <= closed[n] + 1 /\ closed'[n] \in Nat
      /\ closed'[n] >= closed[n] \/ closed'[n] >= 1
  <2>1. /\ audited'[n] = Least(audited[n] + 1, MaxLines)
        /\ closed'[n] = closed[n] \/ closed'[n] = Least(closed[n] + 1, MaxLines)
    BY <1>3, <1>5 DEF TypeOK
  <2> QED BY <1>3, <2>1 DEF Least
<1>8. item \in ItemsOf(inflight) /\ \A x \in ItemsOf(inflight) : x.entry = n => x = item
  <2>1. item \in ItemsOf(inflight)
    BY <1>1, <1>2 DEF EntryInv, BatchInHand
  <2>2. OneEach(inflight)
    BY DEF EntryInv
  <2> QED BY <2>1, <2>2 DEF OneEach, ItemsOf
<1> HIDE DEF n, F
<1>9. \A e \in EntryNumbers : e > entries => audited'[e] = 0 /\ closed'[e] = 0
  <2>1. ~(n > entries)
    <3>1. n <= entries
      BY <1>2 DEF EntryInv, Known, n
    <3> QED BY <3>1, <1>1, <1>3, LinesType
  <2> QED BY <1>6, <2>1 DEF LinesInv
<1>10. RepeatsNeedFailures'
  <2>1. ASSUME NEW e \in EntryNumbers
        PROVE  closed'[e] <= 1 + F /\ audited'[e] <= MaxAttempts + F
    <3>1. CASE e = n
      BY <1>3, <1>4, <1>7, <3>1, MaxAttemptsAssumption
    <3>2. CASE e # n
      BY <1>6, <3>2, LinesType, MaxAttemptsAssumption DEF LinesInv, RepeatsNeedFailures, Failures, F
    <3> QED BY <3>1, <3>2
  <2>2. 1 + F = 1 + crashes' + faults' /\ MaxAttempts + F = MaxAttempts + crashes' + faults'
    BY <1>1, LinesType, SumsAssociate DEF Failures, F
  <2> QED BY <2>1, <2>2 DEF RepeatsNeedFailures
<1>11. ASSUME NEW x \in Item, x.entry # n
       PROVE  (Unspent(x)' <=> Unspent(x)) /\ (Spent(x)' <=> Spent(x))
  <2>1. audited'[x.entry] = audited[x.entry] /\ closed'[x.entry] = closed[x.entry]
    BY <1>6, <1>11, LinesType
  <2>2. Failures' = Failures
    BY <1>3 DEF F
  <2> QED BY <2>1, <2>2 DEF Unspent, Spent
<1>12. \A x \in Live' : Unspent(x)'
  <2>1. ASSUME NEW x \in ItemsOf(queue) \union ItemsOf(todo'[w]) \union ItemsOf(requeue[w])
        PROVE  Unspent(x)'
    <3>1. x \in Item /\ x \in Live
      BY <1>1, <1>2, <2>1, ItemsType DEF Live, TypeOK
    <3>2. x.entry # n
      BY <1>1, <1>2, <2>1 DEF EntryInv, Apart, n
    <3>3. Unspent(x)
      BY <3>1 DEF LinesInv
    <3> QED BY <1>11, <3>1, <3>2, <3>3
  <2>2. closed' = closed => Unspent(Retried(item))'
    <3>1. Retried(item).entry = n /\ Retried(item).attempts = item.attempts + 1
      BY <1>2 DEF Retried, Item, n
    <3>2. audited'[n] <= (item.attempts + 1) + F
      BY <1>3, <1>4, <1>7
    <3>3. closed' = closed => closed'[n] <= F
      BY <1>4
    <3>4. Failures' = F
      BY <1>3
    <3> QED BY <3>1, <3>2, <3>3, <3>4 DEF Unspent
  <2>3. CASE closed' = closed
    BY <1>1, <2>1, <2>2, <2>3 DEF Live
  <2>4. CASE closed' # closed
    BY <1>1, <2>1, <2>4 DEF Live
  <2> QED BY <2>3, <2>4
<1>13. \A x \in ItemsOf(inflight') : Spent(x)'
  <2>1. Spent(item)'
    <3>1. audited'[n] <= item.attempts + 1 + F /\ closed'[n] <= 1 + F
      BY <1>3, <1>4, <1>7
    <3>2. Failures' = F
      BY <1>3
    <3> QED BY <3>1, <3>2 DEF Spent, n
  <2>2. ASSUME NEW x \in ItemsOf(inflight), x # item
        PROVE  Spent(x)'
    <3>1. x \in Item /\ x.entry # n
      BY <1>8, <2>2, ItemsType DEF TypeOK
    <3>2. Spent(x)
      BY <2>2 DEF LinesInv
    <3> QED BY <1>11, <3>1, <3>2
  <2> QED BY <1>1, <2>1, <2>2
<1>14. \A e \in gaveUp' : closed'[e] >= 1
  <2>1. ASSUME NEW e \in gaveUp
        PROVE  closed'[e] >= 1
    <3>1. e \in EntryNumbers /\ closed[e] >= 1
      BY DEF LinesInv, TypeOK
    <3> QED BY <1>3, <1>6, <1>7, <3>1
  <2>2. closed' = Count(closed, item) => closed'[n] >= 1
    <3>1. closed' = Count(closed, item) => closed'[n] = Least(closed[n] + 1, MaxLines)
      BY <1>3 DEF Count, TypeOK, n
    <3> QED BY <1>3, <3>1 DEF Least
  <2> QED BY <2>1, <2>2 DEF n
<1>15. pc'[w] \in Auditing
  BY <1>1 DEF Auditing
<1> QED BY <1>1, <1>9, <1>10, <1>12, <1>13, <1>14, <1>15 DEF LinesInv

LEMMA NextLinesInv ==
  ASSUME AutoRun = FALSE, TypeOK, EntryInv, LinesInv, [Next]_vars
  PROVE  LinesInv'
<1> DEFINE w == "worker"
<1>0. Runners = {w} /\ w \in Runners
  BY DEF Runners
<1>T. TypeOK /\ TypeOK'
  BY NextType
<1>E. ItemsOf(<<>>) = {}
  BY EmptyItems
<1>I. /\ ItemsOf(queue) \subseteq Item /\ ItemsOf(inflight) \subseteq Item
      /\ todo[w] \in Seq(Item) /\ requeue[w] \in Seq(Item)
  BY <1>0, <1>T, ItemsType DEF TypeOK
<1>U. \A x \in Item : Unspent(x) => Spent(x)
  <2> TAKE x \in Item
  <2>1. /\ closed[x.entry] \in Nat /\ audited[x.entry] \in Nat
        /\ x.attempts \in Nat /\ Failures \in Nat
    BY LinesType
  <2> QED BY <2>1 DEF Unspent, Spent
<1>1. ASSUME NEW p \in Paths, Enqueue(p) PROVE LinesInv'
  <2>1. UNCHANGED <<inflight, todo, requeue, pc, crashes, faults, audited, closed, gaveUp>>
    BY <1>1 DEF Enqueue, StartAutoRun, memory
  <2>2. CASE AlreadyQueued(p)
    <3>1. UNCHANGED <<queue, entries>>
      BY <1>1, <2>2 DEF Enqueue
    <3> QED BY <2>1, <3>1, QuietStep DEF LinesInv, Live
  <2>3. CASE ~AlreadyQueued(p)
    <3> DEFINE new == [path |-> p, attempts |-> 0, entry |-> entries + 1]
    <3>1. queue' = Append(queue, new) /\ entries < MaxEntries /\ entries' = entries + 1
      BY <1>1, <2>3 DEF Enqueue, Append0
    <3>2. new \in Item /\ new.entry = entries + 1 /\ new.attempts = 0
      BY <3>1, <1>T, BoundsAssumption, MaxAttemptsAssumption DEF TypeOK, Item, EntryNumbers
    <3> HIDE DEF new
    <3>3. ItemsOf(queue') = ItemsOf(queue) \union {new}
      BY <3>1, <3>2, <1>T, ItemsOfAppend DEF TypeOK
    <3>4. audited[new.entry] = 0 /\ closed[new.entry] = 0
      <4>1. new.entry \in EntryNumbers /\ new.entry > entries
        BY <3>2, LinesType
      <4> QED BY <4>1 DEF LinesInv
    <3>5. Unspent(new)
      BY <3>2, <3>4, LinesType DEF Unspent
    <3>6. \A x : (Unspent(x)' <=> Unspent(x)) /\ (Spent(x)' <=> Spent(x))
      BY <2>1 DEF Unspent, Spent, Failures
    <3>7. \A x \in Live' : Unspent(x)'
      BY <2>1, <3>3, <3>5, <3>6 DEF LinesInv, Live
    <3>8. \A e \in EntryNumbers : e > entries' => audited'[e] = 0 /\ closed'[e] = 0
      <4>1. \A e \in EntryNumbers : e > entries + 1 => e > entries
        BY LinesType
      <4> QED BY <2>1, <3>1, <4>1 DEF LinesInv
    <3>9. RepeatsNeedFailures'
      BY <2>1 DEF LinesInv, RepeatsNeedFailures
    <3> QED BY <2>1, <3>6, <3>7, <3>8, <3>9 DEF LinesInv
  <2> QED BY <2>2, <2>3
<1>2. ASSUME Restore(w) PROVE LinesInv'
  <2>1. /\ pc'[w] = "clearRestored" /\ pc[w] \in {"idle", "pick"}
        /\ queue' = Restored \o queue
        /\ UNCHANGED <<inflight, todo, requeue, bounds, history>>
    BY <1>2, <1>0, <1>T DEF Restore, AtStart, Goto, TypeOK, memory
  <2>2. ItemsOf(Restored) \subseteq ItemsOf(inflight) /\ Restored \in Seq(Item)
    BY <1>T, RestoredType, ItemsOfWithout DEF Restored, TypeOK
  <2>3. ItemsOf(queue') = ItemsOf(Restored) \union ItemsOf(queue)
    BY <2>1, <2>2, <1>T, ItemsOfConcat DEF TypeOK
  <2>4. Live' \subseteq Live \union ItemsOf(inflight)
    BY <2>1, <2>2, <2>3 DEF Live
  <2>5. \A x \in ItemsOf(inflight) : Spent(x) /\ Unspent(x)
    BY <2>1 DEF LinesInv, Auditing
  <2>6. \A x \in Live' : Unspent(x)
    BY <2>4, <2>5 DEF LinesInv
  <2> QED BY <2>1, <2>5, <2>6, QuietStep DEF bounds, history
<1>3. ASSUME ClearRestored(w) PROVE LinesInv'
  <2>1. inflight' = <<>> /\ UNCHANGED <<queue, todo, requeue, bounds, history>>
    BY <1>3 DEF ClearRestored, memory
  <2>2. \A x \in Live' : Unspent(x)
    BY <2>1 DEF LinesInv, Live
  <2> QED BY <1>E, <2>1, <2>2, QuietStep DEF bounds, history
<1>4. ASSUME FindEmpty(w) PROVE LinesInv'
  <2>1. /\ pc[w] = "saveInflight"
        /\ UNCHANGED <<queue, inflight, todo, requeue, bounds, history>>
    BY <1>4 DEF FindEmpty, files, memory
  <2>2. /\ \A x \in Live' : Unspent(x)
        /\ \A x \in ItemsOf(inflight') : Spent(x) /\ Unspent(x)
    BY <2>1 DEF LinesInv, Live, Auditing
  <2> QED BY <2>1, <2>2, QuietStep DEF bounds, history
<1>5. ASSUME SaveInflight(w) PROVE LinesInv'
  <2>1. inflight' = Batch(queue) /\ UNCHANGED <<queue, todo, requeue, bounds, history>>
    BY <1>5 DEF SaveInflight, memory
  <2>2. ItemsOf(inflight') \subseteq ItemsOf(queue)
    BY <2>1, <1>T, ItemsOfBatch DEF TypeOK
  <2>3. /\ \A x \in Live' : Unspent(x)
        /\ \A x \in ItemsOf(inflight') : Spent(x) /\ Unspent(x)
    BY <1>I, <1>U, <2>1, <2>2 DEF LinesInv, Live
  <2> QED BY <2>1, <2>3, QuietStep DEF bounds, history
<1>6. ASSUME SaveRest(w) PROVE LinesInv'
  <2>1. /\ pc[w] = "saveRest" /\ todo'[w] = Batch(queue) /\ queue' = Rest(queue)
        /\ UNCHANGED <<inflight, requeue, bounds, history>>
    BY <1>6, <1>0, <1>T DEF SaveRest, TypeOK
  <2>2. ItemsOf(queue) = ItemsOf(todo'[w]) \union ItemsOf(queue')
    BY <2>1, <1>T, ItemsOfBatch DEF TypeOK
  <2>3. /\ \A x \in Live' : Unspent(x)
        /\ \A x \in ItemsOf(inflight') : Spent(x) /\ Unspent(x)
    BY <2>1, <2>2 DEF LinesInv, Live, Auditing
  <2> QED BY <2>1, <2>3, QuietStep DEF bounds, history
<1>7. ASSUME Answer(w) PROVE LinesInv'
  <2>1. /\ pc'[w] = "audit"
        /\ UNCHANGED <<queue, inflight, todo, requeue, bounds, history>>
    BY <1>7, <1>0, <1>T DEF Answer, Goto, TypeOK, files
  <2>2. /\ \A x \in Live' : Unspent(x)
        /\ \A x \in ItemsOf(inflight') : Spent(x)
    BY <2>1 DEF LinesInv, Live
  <2> QED BY <2>1, <2>2, QuietStep DEF bounds, history, Auditing
<1>8. ASSUME AuditSuccess(w) PROVE LinesInv'
  <2> DEFINE item == Head(todo[w])
  <2>1. /\ NextItem(w) /\ WroteAuditLine(item) /\ closed' = Count(closed, item)
        /\ UNCHANGED <<requeue, gaveUp>>
    BY <1>8 DEF AuditSuccess, WroteClosingLine
  <2> QED BY <1>T, <2>1, AuditStep
<1>9. ASSUME AuditRetrying(w) PROVE LinesInv'
  <2> DEFINE item == Head(todo[w])
  <2>1. /\ NextItem(w) /\ MayRetry(item) /\ WroteAuditLine(item)
        /\ requeue'[w] = Append(requeue[w], Retried(item))
        /\ UNCHANGED <<closed, gaveUp>>
    BY <1>9, <1>0, <1>T DEF AuditRetrying, TypeOK
  <2>2. Retried(item) \in Item
    BY <1>I, <2>1, ItemsOfHeadTail, RetriedType DEF NextItem
  <2>3. ItemsOf(requeue'[w]) = ItemsOf(requeue[w]) \union {Retried(item)}
    BY <1>I, <2>1, <2>2, ItemsOfAppend
  <2> QED BY <1>T, <2>1, <2>3, AuditStep
<1>10. ASSUME AuditFailed(w) PROVE LinesInv'
  <2> DEFINE item == Head(todo[w])
  <2>1. /\ NextItem(w) /\ WroteAuditLine(item) /\ closed' = Count(closed, item)
        /\ gaveUp' = gaveUp \union {item.entry} /\ UNCHANGED requeue
    BY <1>10 DEF AuditFailed, WroteClosingLine
  <2> QED BY <1>T, <2>1, AuditStep
<1>11. ASSUME EndAudit(w) PROVE LinesInv'
  <2>1. /\ pc'[w] \in Auditing
        /\ UNCHANGED <<queue, inflight, todo, requeue, bounds, history>>
    BY <1>11, <1>0, <1>T DEF EndAudit, Goto, TypeOK, files, memory, Auditing
  <2>2. /\ \A x \in Live' : Unspent(x)
        /\ \A x \in ItemsOf(inflight') : Spent(x)
    BY <2>1 DEF LinesInv, Live
  <2> QED BY <2>1, <2>2, QuietStep DEF bounds, history
<1>12. ASSUME Requeue(w) PROVE LinesInv'
  <2>1. /\ pc'[w] \in Auditing /\ queue' = requeue[w] \o queue
        /\ UNCHANGED <<inflight, todo, requeue, bounds, history>>
    BY <1>12, <1>0, <1>T DEF Requeue, Goto, TypeOK, memory, Auditing
  <2>2. ItemsOf(queue') = ItemsOf(requeue[w]) \union ItemsOf(queue)
    BY <1>I, <1>T, <2>1, ItemsOfConcat DEF TypeOK
  <2>3. /\ \A x \in Live' : Unspent(x)
        /\ \A x \in ItemsOf(inflight') : Spent(x)
    BY <2>1, <2>2 DEF LinesInv, Live
  <2> QED BY <2>1, <2>3, QuietStep DEF bounds, history
<1>13. ASSUME Clear(w) PROVE LinesInv'
  <2>1. /\ inflight' = <<>> /\ todo'[w] = <<>> /\ requeue'[w] = <<>>
        /\ UNCHANGED <<queue, bounds, history>>
    BY <1>13, <1>0, <1>T DEF Clear, DropMemory, TypeOK
  <2>2. \A x \in Live' : Unspent(x)
    BY <1>E, <2>1 DEF LinesInv, Live
  <2> QED BY <1>E, <2>1, <2>2, QuietStep DEF bounds, history
<1>14. ASSUME Crash PROVE LinesInv'
  <2>1. /\ crashes' = crashes + 1 /\ UNCHANGED <<files, entries, faults, history>>
        /\ todo'[w] = <<>> /\ requeue'[w] = <<>>
    BY <1>14, <1>0 DEF Crash, Reborn
  <2>2. Failures' = Failures + 1
    BY <2>1, LinesType DEF Failures
  <2> QED BY <1>T, <2>1, <2>2, FailureStep DEF history
<1>15. ASSUME Fault(w) PROVE LinesInv'
  <2>1. /\ faults' = faults + 1 /\ UNCHANGED <<files, entries, crashes, history>>
        /\ todo'[w] = <<>> /\ requeue'[w] = <<>>
    BY <1>15, <1>0, <1>T DEF Fault, Reborn, DropMemory, TypeOK
  <2>2. Failures' = Failures + 1
    BY <2>1, LinesType DEF Failures
  <2> QED BY <1>T, <2>1, <2>2, FailureStep DEF history
<1>16. CASE UNCHANGED vars
  <2>1. \A x : (Unspent(x)' <=> Unspent(x)) /\ (Spent(x)' <=> Spent(x))
    BY <1>16 DEF vars, Unspent, Spent, Failures
  <2>2. Live' = Live
    BY <1>16 DEF vars, Live
  <2> QED BY <1>16, <2>1, <2>2 DEF vars, LinesInv, RepeatsNeedFailures
<1> QED BY <1>0, <1>1, <1>2, <1>3, <1>4, <1>5, <1>6, <1>7, <1>8, <1>9, <1>10, <1>11, <1>12,
           <1>13, <1>14, <1>15, <1>16 DEF Next, RunnerStep

\* The two invariants hold together with the types.
LEMMA LinesArePaidFor == ASSUME AutoRun = FALSE
                         PROVE  Spec => [](TypeOK /\ EntryInv /\ LinesInv)
<1>1. Init => TypeOK /\ EntryInv /\ LinesInv
  BY InitType, InitEntryInv, InitLinesInv
<1>2. TypeOK /\ EntryInv /\ LinesInv /\ [Next]_vars => (TypeOK /\ EntryInv /\ LinesInv)'
  BY NextType, NextEntryInv, NextLinesInv
<1> QED BY <1>1, <1>2, PTL DEF Spec

\* With auto-run off, for any paths, batch size and number of attempts, each
\* crash and each OSError between two file operations costs at most one more
\* closing line and one more audit line of an entry.
THEOREM WorkIsRepeatedForCause == ASSUME AutoRun = FALSE
                                  PROVE  Spec => []RepeatsNeedFailures
<1>1. LinesInv => RepeatsNeedFailures
  BY DEF LinesInv
<1> QED BY <1>1, LinesArePaidFor, PTL

\* With auto-run off, as long as nothing has failed, an entry that was audited
\* as failed for good is never sent to the tagger and audited again.
THEOREM GivenUpIsFinal == ASSUME AutoRun = FALSE
                          PROVE  Spec => GivenUpStaysGivenUp
<1> DEFINE Stays == crashes' = 0 /\ faults' = 0 =>
                      \A e \in gaveUp : audited'[e] = audited[e]
<1>1. ASSUME TypeOK, EntryInv, LinesInv, [Next]_vars
      PROVE  [Stays]_vars
  <2>1. SUFFICES ASSUME crashes' = 0, faults' = 0, NEW e \in gaveUp, audited'[e] # audited[e]
                 PROVE  FALSE
    OBVIOUS
  <2>2. PICK r \in Runners : AuditSuccess(r) \/ AuditRetrying(r) \/ AuditFailed(r)
    <3>1. audited' # audited
      BY <2>1
    <3> QED BY <1>1, <3>1
            DEF Next, RunnerStep, Enqueue, Restore, ClearRestored, FindEmpty, SaveInflight,
                SaveRest, Answer, EndAudit, Requeue, Clear, Crash, Fault, history, vars
  <2>3. r = "worker"
    BY DEF Runners
  <2> DEFINE item == Head(todo[r])
  <2>4. /\ NextItem(r) /\ WroteAuditLine(item)
        /\ item \in ItemsOf(todo[r]) /\ item \in Item
    <3>1. NextItem(r) /\ WroteAuditLine(item)
      BY <2>2 DEF AuditSuccess, AuditRetrying, AuditFailed, WroteClosingLine
    <3>2. todo[r] \in Seq(Item) /\ todo[r] # <<>>
      BY <1>1, <3>1 DEF NextItem, TypeOK
    <3> QED BY <3>1, <3>2, ItemsOfHeadTail
  <2>5. e = item.entry /\ e \in EntryNumbers
    BY <1>1, <2>1, <2>4 DEF WroteAuditLine, Count, TypeOK
  <2>6. Failures = 0
    <3>1. crashes = 0 /\ faults = 0
      BY <2>1, <2>4 DEF NextItem, bounds
    <3> QED BY <3>1 DEF Failures
  <2>7. closed[e] <= 0
    BY <1>1, <2>3, <2>4, <2>5, <2>6 DEF LinesInv, Live, Unspent
  <2>8. closed[e] >= 1 /\ closed[e] \in Nat
    BY <1>1, <2>5, LinesType DEF LinesInv
  <2> QED BY <2>7, <2>8
<1>2. Spec => [][Stays]_vars
  BY <1>1, LinesArePaidFor, PTL DEF Spec
<1> QED BY <1>2 DEF GivenUpStaysGivenUp
=============================================================================
