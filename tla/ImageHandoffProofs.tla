------------------------- MODULE ImageHandoffProofs -------------------------
(***************************************************************************)
(* Theorems about ImageHandoff for every value of its constants, and their *)
(* proofs.                                                                 *)
(***************************************************************************)
EXTENDS ImageHandoff, SelectionProofs, SequenceTheorems, TLAPS

-----------------------------------------------------------------------------
(* Images *)

LEMMA ImageOfEvent ==
  ASSUME NEW e \in Events, NEW k \in Nat \ {0}, k <= ImagesIn[e]
  PROVE  <<e, k>> \in Images
<1>1. ImagesIn[e] \in Nat /\ k \in 1..ImagesIn[e]
  BY ImagesInAssumption
<1> QED BY <1>1 DEF Images

\* The image a handler is at is an image.
LEMMA CurrentIsImage == ASSUME TypeOK, NEW e \in Events
                        PROVE  Current(e) \in Images
BY ImageOfEvent DEF TypeOK, Current

-----------------------------------------------------------------------------
(* Type correctness *)

LEMMA InitType == Init => TypeOK
<1> SUFFICES ASSUME Init
             PROVE  TypeOK
  OBVIOUS
<1>1. <<>> \in Seq(Images)
  BY EmptySeq
<1>2. \A e \in Events : ImagesIn[e] \in Nat /\ 1 <= ImagesIn[e]
  BY ImagesInAssumption
<1>3. /\ row \in [Images -> RowStatus] /\ dispatch \in [Images -> DispatchStatus]
      /\ attempts \in [Images -> 0..MaxAttempts]
  BY RelayAssumption DEF Init, RowStatus, DispatchStatus
<1>4. /\ pc \in [Events -> Resting \union Working]
      /\ pos \in [Events -> Nat \ {0}] /\ \A e \in Events : pos[e] <= ImagesIn[e]
  BY <1>2 DEF Init, Resting, Working
<1>5. recorded \in [Events -> BOOLEAN] /\ sent \in [Events -> BOOLEAN]
  BY DEF Init
<1>6. faults \in 0..MaxFaults /\ crashes \in 0..MaxCrashes
  BY HandoffBounds DEF Init
<1> QED BY <1>1, <1>3, <1>4, <1>5, <1>6 DEF Init, TypeOK

\* The loop over the images goes on within the event's images.
LEMMA NextImageType ==
  ASSUME TypeOK, NEW e \in Events, NextImage(e)
  PROVE  /\ pc' \in [Events -> Resting \union Working]
         /\ pos' \in [Events -> Nat \ {0}] /\ \A d \in Events : pos'[d] <= ImagesIn[d]
<1>1. pos[e] \in Nat \ {0} /\ ImagesIn[e] \in Nat
  BY ImagesInAssumption DEF TypeOK
<1> QED BY <1>1 DEF TypeOK, NextImage, NextLabel, Goto, Resting, Working

\* An UPDATE of a dispatch row.
LEMMA MarkDispatchType ==
  ASSUME TypeOK, NEW i \in Images, NEW ok \in BOOLEAN, MarkDispatch(i, ok)
  PROVE  dispatch' \in [Images -> DispatchStatus] /\ attempts' \in [Images -> 0..MaxAttempts]
BY RelayAssumption DEF TypeOK, MarkDispatch, StatusAfter, CountedAttempt, DispatchStatus

\* The rows of a relay pass are dispatch rows that are there, the oldest first.
LEMMA PickedRows ==
  ASSUME TypeOK
  PROVE  /\ Picked \in Seq(Images)
         /\ \A n \in DOMAIN Picked : \E m \in DOMAIN created : Picked[n] = created[m]
<1> DEFINE K == {n \in DOMAIN created : Fetchable(created[n])}
           rows == Selected(created, K)
           limit == IF Len(rows) < RelayBatch THEN Len(rows) ELSE RelayBatch
<1>1. created \in Seq(Images) /\ K \in SUBSET (DOMAIN created)
  BY DEF TypeOK
<1>2. /\ rows \in Seq(Images)
      /\ \A n \in DOMAIN rows : \E m \in K : rows[n] = created[m]
  <2> HIDE DEF K
  <2> QED BY <1>1, SelectedItems
<1>3. Picked = SubSeq(rows, 1, limit)
  BY DEF Picked, FirstOf
<1> HIDE DEF rows
<1>4. Len(rows) \in Nat /\ DOMAIN rows = 1..Len(rows)
  BY <1>2, LenProperties
<1>5. limit \in 0..Len(rows)
  BY <1>4, RelayAssumption
<1> HIDE DEF limit
<1>6. \A n \in 1..Len(rows) : rows[n] \in Images
  BY <1>2, ElementOfSeq
<1>7. /\ Picked \in Seq(Images)
      /\ DOMAIN Picked = 1..limit
      /\ \A n \in 1..limit : Picked[n] = rows[n]
  <2>1. /\ SubSeq(rows, 1, limit) = [n \in 1..limit |-> rows[n]]
    BY <1>4, <1>5
  <2>2. [n \in 1..limit |-> rows[n]] \in [1..limit -> Images] /\ limit \in Nat
    BY <1>4, <1>5, <1>6
  <2> QED BY <1>3, <2>1, <2>2, SeqDef
<1> QED BY <1>2, <1>4, <1>5, <1>7 DEF K

LEMMA NextType == TypeOK /\ [Next]_handoffVars => TypeOK'
<1> SUFFICES ASSUME TypeOK, [Next]_handoffVars
             PROVE  TypeOK'
  OBVIOUS
<1> USE HandoffBounds DEF db, handlers, relaying, NoFault, AFault
<1> DEFINE PosOK == pos \in [Events -> Nat \ {0}] /\ \A d \in Events : pos[d] <= ImagesIn[d]
           PcOK == pc \in [Events -> Resting \union Working]
           RowOK == row \in [Images -> RowStatus]
           FileOK == file \subseteq Images
           OutboxOK == /\ dispatch \in [Images -> DispatchStatus]
                       /\ attempts \in [Images -> 0..MaxAttempts]
                       /\ aged \subseteq Images /\ created \in Seq(Images)
           BusOK == bus \subseteq Images
           FlagsOK == recorded \in [Events -> BOOLEAN] /\ sent \in [Events -> BOOLEAN]
           RelayOK == /\ relay \in {"wait", "publish", "mark"}
                      /\ relayRows \in Seq(Images)
                      /\ relay # "wait" => relayRows # <<>>
                      /\ relaySent \in BOOLEAN
           CountsOK == faults \in 0..MaxFaults /\ crashes \in 0..MaxCrashes
<1>1. PosOK /\ PcOK /\ RowOK /\ FileOK /\ OutboxOK /\ BusOK /\ FlagsOK /\ RelayOK /\ CountsOK
  BY DEF TypeOK
<1>2. ASSUME PosOK', PcOK', RowOK', FileOK', OutboxOK', BusOK', FlagsOK', RelayOK', CountsOK'
      PROVE  TypeOK'
  BY <1>2 DEF TypeOK
<1>3. ASSUME NEW e \in Events, HandlerStep(e)
      PROVE  TypeOK'
  <2>1. Current(e) \in Images
    BY CurrentIsImage
  <2>2. ASSUME NextImage(e)
        PROVE  PosOK' /\ PcOK'
    BY <2>2, NextImageType
  <2>3. ASSUME StartEvent(e) \/ Download(e) \/ Select(e) \/ AuditSaved(e)
        PROVE  PosOK' /\ PcOK' /\ RowOK' /\ FileOK'
    BY <1>1, <2>1, <2>3
       DEF StartEvent, Download, DownloadEnds, AfterBadDownload, Select, AuditSaved, Abandon, Goto, Resting, Working
  <2>4. ASSUME InsertImage(e)
        PROVE  PosOK' /\ PcOK' /\ RowOK' /\ FileOK'
    BY <1>1, <2>1, <2>2, <2>4 DEF InsertImage, Goto, Working, Resting, RowStatus
  <2>5. ASSUME NEW label, NEW status \in {"duplicate", "failed"}, Conclude(e, label, status)
        PROVE  PosOK' /\ PcOK' /\ RowOK' /\ FileOK'
    BY <1>1, <2>1, <2>5 DEF Conclude, Goto, Working, RowStatus
  <2>6. ASSUME MarkSaved(e)
        PROVE  PosOK' /\ PcOK' /\ RowOK' /\ FileOK'
    BY <1>1, <2>1, <2>6 DEF MarkSaved, AfterFailedSave, Goto, Working, RowStatus
  <2>7. ASSUME AuditOther(e)
        PROVE  PosOK' /\ PcOK' /\ RowOK' /\ FileOK'
    BY <1>1, <2>2, <2>7 DEF AuditOther, Abandon, Goto, Resting
  <2>8. ASSUME \/ StartEvent(e) \/ Download(e) \/ Select(e) \/ AuditSaved(e) \/ InsertImage(e)
               \/ MarkDuplicate(e) \/ MarkFailed(e) \/ MarkSaved(e) \/ AuditOther(e)
        PROVE  OutboxOK' /\ BusOK' /\ FlagsOK' /\ RelayOK' /\ CountsOK'
    BY <1>1, <2>8 DEF StartEvent, Download, Select, AuditSaved, InsertImage, MarkDuplicate,
                      MarkFailed, Conclude, MarkSaved, AuditOther
  <2>9. ASSUME InsertDispatch(e)
        PROVE  TypeOK'
    <3>1. created' \in Seq(Images) /\ dispatch' \in [Images -> DispatchStatus]
      <4>1. Append(created, Current(e)) \in Seq(Images)
        BY <1>1, <2>1, AppendProperties
      <4> QED BY <1>1, <2>9, <4>1 DEF InsertDispatch, InsertRow, DispatchStatus
    <3>2. PcOK' /\ PosOK' /\ CountsOK'
      BY <1>1, <2>9 DEF InsertDispatch, Goto, Working
    <3>4. FlagsOK'
      <4>1. recorded' \in {[recorded EXCEPT ![e] = TRUE], [recorded EXCEPT ![e] = FALSE]} /\ sent' = sent
        BY <2>9 DEF InsertDispatch
      <4> QED BY <1>1, <4>1
    <3>3. UNCHANGED <<row, file, attempts, aged, bus, relaying>>
      BY <2>9 DEF InsertDispatch
    <3> QED BY <1>1, <1>2, <3>1, <3>2, <3>3, <3>4
  <2>10. ASSUME Publish(e)
         PROVE  TypeOK'
    <3>1. BusOK' /\ FlagsOK'
      BY <1>1, <2>1, <2>10 DEF Publish, PublishEnds
    <3>2. PcOK' /\ PosOK'
      BY <1>1, <2>2, <2>10 DEF Publish, Goto, Working
    <3>3. UNCHANGED <<db, file, relaying, faults, crashes>>
      BY <2>10 DEF Publish
    <3> QED BY <1>1, <1>2, <3>1, <3>2, <3>3
  <2>11. ASSUME Settle(e)
         PROVE  TypeOK'
    <3>1. sent[e] \in BOOLEAN
      BY <1>1
    <3>2. dispatch' \in [Images -> DispatchStatus] /\ attempts' \in [Images -> 0..MaxAttempts]
      BY <1>1, <2>1, <2>11, <3>1, MarkDispatchType DEF Settle
    <3>3. PcOK' /\ PosOK'
      BY <2>2, <2>11 DEF Settle
    <3>4. UNCHANGED <<row, file, aged, created, bus, recorded, sent, relaying, crashes>> /\ CountsOK'
      BY <1>1, <2>11 DEF Settle
    <3> QED BY <1>1, <1>2, <3>2, <3>3, <3>4
  <2> QED BY <1>2, <1>3, <2>3, <2>4, <2>5, <2>6, <2>7, <2>8, <2>9, <2>10, <2>11
          DEF HandlerStep, MarkDuplicate, MarkFailed
<1>4. ASSUME NEW i \in Images, Age(i)
      PROVE  TypeOK'
  BY <1>4 DEF Age, TypeOK
<1>5. ASSUME RelayFetch
      PROVE  TypeOK'
  <2>1. Picked \in Seq(Images)
    BY PickedRows
  <2>2. RelayOK'
    BY <1>1, <1>5, <2>1 DEF RelayFetch
  <2>3. UNCHANGED <<db, file, bus, handlers, faults, crashes>>
    BY <1>5 DEF RelayFetch
  <2> QED BY <1>1, <1>2, <2>2, <2>3
<1>6. ASSUME NEW ok \in BOOLEAN, RelayPublish(ok)
      PROVE  TypeOK'
  <2>1. Head(relayRows) \in Images /\ relayRows # <<>>
    BY <1>1, <1>6, HeadTailProperties DEF RelayPublish
  <2>2. RelayOK' /\ BusOK'
    BY <1>1, <1>6, <2>1 DEF RelayPublish, PublishEnds
  <2>3. UNCHANGED <<db, file, handlers, faults, crashes>>
    BY <1>6 DEF RelayPublish
  <2> QED BY <1>1, <1>2, <2>2, <2>3
<1>7. ASSUME RelayMark
      PROVE  TypeOK'
  <2>1. Head(relayRows) \in Images /\ Tail(relayRows) \in Seq(Images) /\ relaySent \in BOOLEAN
    BY <1>1, <1>7, HeadTailProperties DEF RelayMark
  <2>2. dispatch' \in [Images -> DispatchStatus] /\ attempts' \in [Images -> 0..MaxAttempts]
    BY <1>1, <1>7, <2>1, MarkDispatchType DEF RelayMark
  <2>3. RelayOK' /\ CountsOK'
    <3>1. CountsOK' /\ relaySent' = relaySent
      BY <1>1, <1>7 DEF RelayMark
    <3>2. \/ relayRows' = Tail(relayRows) /\ relay' = IF relayRows' = <<>> THEN "wait" ELSE "publish"
          \/ relayRows' = <<>> /\ relay' = "wait"
      BY <1>7 DEF RelayMark
    <3> QED BY <1>1, <2>1, <3>1, <3>2, EmptySeq
  <2>4. UNCHANGED <<row, file, aged, created, bus, handlers>>
    BY <1>7 DEF RelayMark
  <2> QED BY <1>1, <1>2, <2>2, <2>3, <2>4
<1>8. ASSUME Crash
      PROVE  TypeOK'
  <2>1. PcOK' /\ RelayOK' /\ CountsOK'
    BY <1>1, <1>8, EmptySeq DEF Crash, Resting
  <2>2. UNCHANGED <<db, file, bus, pos, recorded, sent>>
    BY <1>8 DEF Crash
  <2> QED BY <1>1, <1>2, <2>1, <2>2
<1>9. CASE UNCHANGED handoffVars
  BY <1>1, <1>2, <1>9 DEF handoffVars
<1> QED BY <1>3, <1>4, <1>5, <1>6, <1>7, <1>8, <1>9 DEF Next, RelayStep

\* The variables keep their types, and the relay only works on rows it has.
THEOREM HandoffTypeCorrect == Spec => []TypeOK
BY InitType, NextType, PTL DEF Spec

-----------------------------------------------------------------------------
(* The inductive invariant *)

\* Where the handler's image has not been saved, and where it has.
BeforeSave == {"new", "insert", "download", "select", "markDuplicate", "markFailed", "markSaved"}
AfterSave  == {"auditSaved", "dispatch", "publish", "settle"}

\* The outbox and the bus know nothing of the images a handler has yet to save,
\* so its UPDATEs never touch the row of an image that was handed over.
ToBeSaved(e, k) == k > pos[e] \/ (k = pos[e] /\ pc[e] \in BeforeSave)

AheadIsUntouched ==
  \A e \in Events : \A k \in 1..ImagesIn[e] :
    ToBeSaved(e, k) => dispatch[<<e, k>>] = "none" /\ <<e, k>> \notin bus

\* A handler hands over what it saved.
HandlersSaved ==
  \A e \in Events :
    /\ pc[e] = "markSaved" => Current(e) \in file
    /\ pc[e] \in AfterSave => row[Current(e)] = "saved" /\ Current(e) \in file

\* Who is about to mark a row published knows that the task is on the bus.
MarkersKnow ==
  /\ \A e \in Events : pc[e] = "settle" /\ sent[e] => Current(e) \in bus
  /\ relay = "mark" /\ relaySent => Head(relayRows) \in bus

\* The relay's rows are rows of the outbox.
RowsExist ==
  /\ \A n \in DOMAIN created : dispatch[created[n]] # "none"
  /\ \A n \in DOMAIN relayRows : dispatch[relayRows[n]] # "none"

HandoffInv ==
  /\ TypeOK
  /\ PublishedIsOnBus
  /\ TasksAreOfSavedImages
  /\ AheadIsUntouched
  /\ HandlersSaved
  /\ MarkersKnow
  /\ RowsExist

LEMMA InitHandoffInv == Init => HandoffInv
<1> SUFFICES ASSUME Init
             PROVE  HandoffInv
  OBVIOUS
<1>1. TypeOK
  BY InitType
<1>2. /\ dispatch = [i \in Images |-> "none"] /\ bus = {} /\ created = <<>> /\ relayRows = <<>>
      /\ relay = "wait"
      /\ \A e \in Events : pc[e] = "new"
  BY DEF Init
<1>3. PublishedIsOnBus /\ TasksAreOfSavedImages
  BY <1>2 DEF PublishedIsOnBus, TasksAreOfSavedImages
<1>4. AheadIsUntouched
  <2>1. \A e \in Events : \A k \in 1..ImagesIn[e] : <<e, k>> \in Images
    BY DEF Images
  <2> QED BY <1>2, <2>1 DEF AheadIsUntouched
<1>5. HandlersSaved /\ MarkersKnow
  BY <1>2 DEF HandlersSaved, MarkersKnow, AfterSave
<1>6. RowsExist
  BY <1>2 DEF RowsExist
<1> QED BY <1>1, <1>3, <1>4, <1>5, <1>6 DEF HandoffInv

\* A handler on its way to a saved image: it writes the row of its own image,
\* and only before that image was handed over.
SavingStep(e) ==
  /\ UNCHANGED <<dispatch, bus, created, relay, relayRows, relaySent, sent>>
  /\ \A d \in Events \ {e} : pc'[d] = pc[d] /\ pos'[d] = pos[d]
  /\ file \subseteq file'
  /\ \A i \in Images \ {Current(e)} : row'[i] = row[i]
  /\ row'[Current(e)] # row[Current(e)] => pc[e] \in BeforeSave
  /\ \A k \in 1..ImagesIn[e] : ToBeSaved(e, k)' => ToBeSaved(e, k)
  /\ pc'[e] # "settle"
  /\ pc'[e] = "markSaved" => Current(e)' \in file'
  /\ pc'[e] \in AfterSave => row'[Current(e)'] = "saved" /\ Current(e)' \in file'

LEMMA SavingStepKeepsInv ==
  ASSUME HandoffInv, TypeOK', NEW e \in Events, SavingStep(e)
  PROVE  HandoffInv'
<1>1. PublishedIsOnBus'
  BY DEF HandoffInv, PublishedIsOnBus, SavingStep
<1>2. \A d \in Events : pos[d] \in 1..ImagesIn[d] /\ Current(d) = <<d, pos[d]>> /\ Current(d) \in Images
  <2> SUFFICES ASSUME NEW d \in Events
               PROVE  pos[d] \in 1..ImagesIn[d] /\ Current(d) = <<d, pos[d]>> /\ Current(d) \in Images
    OBVIOUS
  <2>1. TypeOK
    BY DEF HandoffInv
  <2>2. ImagesIn[d] \in Nat /\ pos[d] \in Nat \ {0} /\ pos[d] <= ImagesIn[d]
    BY <2>1, ImagesInAssumption DEF TypeOK
  <2>3. pos[d] \in 1..ImagesIn[d]
    BY <2>2
  <2> QED BY <2>1, <2>3, CurrentIsImage DEF Current
<1>3. TasksAreOfSavedImages'
  <2> SUFFICES ASSUME NEW i \in Images, dispatch[i] # "none" \/ i \in bus
               PROVE  row'[i] = "saved" /\ i \in file'
    BY DEF TasksAreOfSavedImages, SavingStep
  <2>1. row[i] = "saved" /\ i \in file
    BY DEF HandoffInv, TasksAreOfSavedImages
  <2>2. i = Current(e) => pc[e] \notin BeforeSave
    BY <1>2 DEF HandoffInv, AheadIsUntouched, ToBeSaved
  <2> QED BY <2>1, <2>2 DEF SavingStep
<1>4. AheadIsUntouched'
  <2> SUFFICES ASSUME NEW d \in Events, NEW k \in 1..ImagesIn[d], ToBeSaved(d, k)'
               PROVE  dispatch[<<d, k>>] = "none" /\ <<d, k>> \notin bus
    BY DEF AheadIsUntouched, SavingStep
  <2>1. ToBeSaved(d, k)
    BY DEF SavingStep, ToBeSaved
  <2> QED BY <2>1 DEF HandoffInv, AheadIsUntouched
<1>5. HandlersSaved'
  <2> SUFFICES ASSUME NEW d \in Events
               PROVE  /\ pc'[d] = "markSaved" => Current(d)' \in file'
                      /\ pc'[d] \in AfterSave => row'[Current(d)'] = "saved" /\ Current(d)' \in file'
    BY DEF HandlersSaved
  <2>1. CASE d = e
    BY <2>1 DEF SavingStep
  <2>2. CASE d # e
    <3>1. pc'[d] = pc[d] /\ Current(d)' = Current(d)
      BY <2>2 DEF SavingStep, Current
    <3>2. Current(d) # Current(e) /\ Current(d) \in Images
      BY <1>2, <2>2
    <3> QED BY <3>1, <3>2 DEF HandoffInv, HandlersSaved, SavingStep
  <2> QED BY <2>1, <2>2
<1>6. MarkersKnow'
  <2>1. \A d \in Events : pc'[d] = "settle" => pc[d] = "settle" /\ Current(d)' = Current(d)
    BY DEF SavingStep, Current
  <2> QED BY <2>1 DEF HandoffInv, MarkersKnow, SavingStep
<1>7. RowsExist'
  BY DEF HandoffInv, RowsExist, SavingStep
<1> QED BY <1>1, <1>3, <1>4, <1>5, <1>6, <1>7 DEF HandoffInv

\* The loop over the images goes on to one that is still ahead.
LEMMA NextImageGoesAhead ==
  ASSUME TypeOK, NEW e \in Events, NextImage(e)
  PROVE  /\ \A d \in Events \ {e} : pc'[d] = pc[d] /\ pos'[d] = pos[d]
         /\ pc'[e] \in {"insert", "done"}
         /\ \A k \in 1..ImagesIn[e] : ToBeSaved(e, k)' => k > pos[e]
<1>1. pos[e] \in Nat /\ ImagesIn[e] \in Nat
  BY ImagesInAssumption DEF TypeOK
<1>2. \/ pos[e] < ImagesIn[e] /\ pos'[e] = pos[e] + 1 /\ pc'[e] = "insert"
      \/ ~(pos[e] < ImagesIn[e]) /\ pos'[e] = pos[e] /\ pc'[e] = "done"
  BY DEF TypeOK, NextImage, NextLabel, Goto
<1>3. \A d \in Events \ {e} : pc'[d] = pc[d] /\ pos'[d] = pos[d]
  BY DEF TypeOK, NextImage, NextLabel, Goto
<1>4. \A k \in 1..ImagesIn[e] : ToBeSaved(e, k)' => k > pos[e]
  BY <1>1, <1>2 DEF ToBeSaved, BeforeSave
<1> QED BY <1>2, <1>3, <1>4

\* From here to the next image is such a step.
LEMMA SavingActions ==
  ASSUME HandoffInv, NEW e \in Events,
         \/ StartEvent(e) \/ InsertImage(e) \/ Download(e) \/ Select(e)
         \/ MarkDuplicate(e) \/ MarkFailed(e) \/ MarkSaved(e)
         \/ AuditSaved(e) \/ AuditOther(e)
  PROVE  SavingStep(e)
<1> USE DEF db, handlers, relaying
<1>1. TypeOK /\ HandlersSaved
  BY DEF HandoffInv
<1>2. UNCHANGED <<dispatch, bus, created, relay, relayRows, relaySent, sent>>
  BY DEF StartEvent, InsertImage, Download, Select, MarkDuplicate, MarkFailed, Conclude,
         MarkSaved, AuditSaved, AuditOther
<1>3. Current(e) \in Images /\ pos[e] \in Nat
  BY <1>1, CurrentIsImage DEF TypeOK
<1>4. file \subseteq file' /\ \A i \in Images \ {Current(e)} : row'[i] = row[i]
  BY <1>1, <1>3 DEF TypeOK, StartEvent, InsertImage, Download, Select, MarkDuplicate, MarkFailed,
                    Conclude, MarkSaved, AuditSaved, AuditOther
<1>5. row'[Current(e)] # row[Current(e)] => pc[e] \in BeforeSave
  BY DEF StartEvent, InsertImage, Download, Select, MarkDuplicate, MarkFailed,
         Conclude, MarkSaved, AuditSaved, AuditOther, BeforeSave
\* What the step does to the handler: it stays at its image, or the loop goes on.
<1>6. ASSUME UNCHANGED pos, NEW label, pc' = [pc EXCEPT ![e] = label],
             label # "settle",
             label \in BeforeSave => pc[e] \in BeforeSave,
             label = "markSaved" => Current(e) \in file',
             label \in AfterSave => row'[Current(e)] = "saved" /\ Current(e) \in file'
      PROVE  SavingStep(e)
  <2>1. pc'[e] = label /\ Current(e)' = Current(e) /\ \A d \in Events \ {e} : pc'[d] = pc[d] /\ pos'[d] = pos[d]
    BY <1>1, <1>6 DEF TypeOK, Current
  <2>2. \A k \in 1..ImagesIn[e] : ToBeSaved(e, k)' => ToBeSaved(e, k)
    BY <1>6, <2>1 DEF ToBeSaved
  <2> QED BY <1>2, <1>4, <1>5, <1>6, <2>1, <2>2 DEF SavingStep
<1>7. ASSUME NextImage(e)
      PROVE  SavingStep(e)
  <2>1. /\ \A d \in Events \ {e} : pc'[d] = pc[d] /\ pos'[d] = pos[d]
        /\ pc'[e] \in {"insert", "done"}
        /\ \A k \in 1..ImagesIn[e] : ToBeSaved(e, k)' => k > pos[e]
    BY <1>1, <1>7, NextImageGoesAhead
  <2>2. \A k \in 1..ImagesIn[e] : ToBeSaved(e, k)' => ToBeSaved(e, k)
    BY <2>1 DEF ToBeSaved
  <2>3. pc'[e] \notin AfterSave /\ pc'[e] # "markSaved" /\ pc'[e] # "settle"
    BY <2>1 DEF AfterSave
  <2> QED BY <1>2, <1>4, <1>5, <2>1, <2>2, <2>3 DEF SavingStep
<1>8. CASE StartEvent(e) \/ Download(e)
  BY <1>6, <1>8 DEF StartEvent, Download, DownloadEnds, AfterBadDownload, Goto, BeforeSave, AfterSave
<1>9. CASE InsertImage(e)
  BY <1>6, <1>7, <1>9 DEF InsertImage, Goto, BeforeSave, AfterSave
<1>10. CASE Select(e)
  BY <1>6, <1>10 DEF Select, Abandon, Goto, BeforeSave, AfterSave
<1>11. CASE MarkDuplicate(e) \/ MarkFailed(e)
  BY <1>6, <1>11 DEF MarkDuplicate, MarkFailed, Conclude, Goto, BeforeSave, AfterSave
<1>12. CASE MarkSaved(e)
  <2>1. Current(e) \in file /\ file' = file /\ UNCHANGED pos
    BY <1>1, <1>12 DEF HandlersSaved, MarkSaved
  <2>2. \/ row'[Current(e)] = "saved" /\ Goto(e, "auditSaved")
        \/ Goto(e, "auditOther")
    BY <1>1, <1>3, <1>12 DEF MarkSaved, AfterFailedSave, TypeOK
  <2> QED BY <1>6, <2>1, <2>2 DEF Goto, BeforeSave, AfterSave
<1>13. CASE AuditSaved(e)
  <2>1. Current(e) \in file /\ row[Current(e)] = "saved" /\ UNCHANGED <<file, row, pos>>
    BY <1>1, <1>13 DEF HandlersSaved, AfterSave, AuditSaved, Abandon
  <2>2. Goto(e, "dispatch") \/ Goto(e, "done")
    BY <1>13 DEF AuditSaved, Abandon
  <2> QED BY <1>6, <2>1, <2>2 DEF Goto, BeforeSave, AfterSave
<1>14. CASE AuditOther(e)
  BY <1>6, <1>7, <1>14 DEF AuditOther, Abandon, Goto, BeforeSave, AfterSave
<1> QED BY <1>8, <1>9, <1>10, <1>11, <1>12, <1>13, <1>14

-----------------------------------------------------------------------------
(* The steps that hand an image over *)

\* The outbox or the bus learns of the saved image i, and nothing else of it.
HandingStep(i) ==
  /\ row[i] = "saved" /\ i \in file
  /\ UNCHANGED <<row, file>>
  /\ bus \subseteq bus' /\ bus' \subseteq bus \union {i}
  /\ \A j \in Images \ {i} : dispatch'[j] = dispatch[j]
  /\ dispatch[i] # "none" => dispatch'[i] # "none"
  /\ dispatch'[i] = "published" => dispatch[i] = "published" \/ i \in bus'
  /\ \A e \in Events : \A k \in 1..ImagesIn[e] :
       ToBeSaved(e, k)' => ToBeSaved(e, k) /\ <<e, k>> # i
  /\ \A e \in Events : pc'[e] = "markSaved" => pc[e] = "markSaved" /\ pos'[e] = pos[e]
  /\ \A e \in Events : pc'[e] \in AfterSave => pc[e] \in AfterSave /\ pos'[e] = pos[e]

LEMMA HandingStepKeepsInv ==
  ASSUME HandoffInv, TypeOK', NEW i \in Images, HandingStep(i), MarkersKnow', RowsExist'
  PROVE  HandoffInv'
<1>1. TypeOK /\ PublishedIsOnBus /\ TasksAreOfSavedImages /\ AheadIsUntouched /\ HandlersSaved
  BY DEF HandoffInv
<1>2. PublishedIsOnBus'
  BY <1>1 DEF PublishedIsOnBus, HandingStep
<1>3. TasksAreOfSavedImages'
  BY <1>1 DEF TasksAreOfSavedImages, HandingStep
<1>4. AheadIsUntouched'
  <2> SUFFICES ASSUME NEW e \in Events, NEW k \in 1..ImagesIn[e], ToBeSaved(e, k)'
               PROVE  dispatch'[<<e, k>>] = "none" /\ <<e, k>> \notin bus'
    BY DEF AheadIsUntouched
  <2>1. ToBeSaved(e, k) /\ <<e, k>> # i
    BY DEF HandingStep
  <2>2. <<e, k>> \in Images
    BY DEF Images
  <2> QED BY <1>1, <2>1, <2>2 DEF AheadIsUntouched, HandingStep
<1>5. HandlersSaved'
  <2>1. \A e \in Events : pos'[e] = pos[e] => Current(e)' = Current(e)
    BY DEF Current
  <2> QED BY <1>1, <2>1 DEF HandlersSaved, HandingStep
<1> QED BY <1>2, <1>3, <1>4, <1>5 DEF HandoffInv

\* A handler that has saved its image may hand it over: no handler has it ahead.
LEMMA SavedIsBehind ==
  ASSUME HandoffInv, NEW e \in Events, pc[e] \in AfterSave
  PROVE  /\ row[Current(e)] = "saved" /\ Current(e) \in file
         /\ \A d \in Events : \A k \in 1..ImagesIn[d] :
              ToBeSaved(d, k) => <<d, k>> # Current(e)
<1>1. row[Current(e)] = "saved" /\ Current(e) \in file
  BY DEF HandoffInv, HandlersSaved
<1>2. pos[e] \in Nat
  BY DEF HandoffInv, TypeOK
<1>3. ASSUME NEW d \in Events, NEW k \in 1..ImagesIn[d], ToBeSaved(d, k), <<d, k>> = Current(e)
      PROVE  FALSE
  <2>1. d = e /\ k = pos[e]
    BY <1>3 DEF Current
  <2> QED BY <1>2, <1>3, <2>1 DEF ToBeSaved, BeforeSave, AfterSave
<1> QED BY <1>1, <1>3

\* What the handler's own steps do to the handlers.
LEMMA HandlerStays ==
  ASSUME HandoffInv, NEW e \in Events, pc[e] \in AfterSave, NEW label \in AfterSave,
         Goto(e, label), UNCHANGED pos
  PROVE  /\ pc'[e] = label
         /\ \A d \in Events \ {e} : pc'[d] = pc[d]
         /\ \A d \in Events : \A k \in 1..ImagesIn[d] : ToBeSaved(d, k)' => ToBeSaved(d, k)
         /\ \A d \in Events : pc'[d] = "markSaved" => pc[d] = "markSaved"
         /\ \A d \in Events : pc'[d] \in AfterSave => pc[d] \in AfterSave
<1>1. pc'[e] = label /\ \A d \in Events \ {e} : pc'[d] = pc[d]
  BY DEF HandoffInv, TypeOK, Goto
<1> QED BY <1>1 DEF ToBeSaved, BeforeSave, AfterSave

LEMMA HandlerMovesOn ==
  ASSUME HandoffInv, NEW e \in Events, pc[e] \in AfterSave, NextImage(e)
  PROVE  /\ pc'[e] \in {"insert", "done"}
         /\ \A d \in Events \ {e} : pc'[d] = pc[d] /\ pos'[d] = pos[d]
         /\ \A d \in Events : \A k \in 1..ImagesIn[d] : ToBeSaved(d, k)' => ToBeSaved(d, k)
         /\ \A d \in Events : pc'[d] = "markSaved" => pc[d] = "markSaved" /\ pos'[d] = pos[d]
         /\ \A d \in Events : pc'[d] \in AfterSave => pc[d] \in AfterSave /\ pos'[d] = pos[d]
<1>1. /\ \A d \in Events \ {e} : pc'[d] = pc[d] /\ pos'[d] = pos[d]
      /\ pc'[e] \in {"insert", "done"}
      /\ \A k \in 1..ImagesIn[e] : ToBeSaved(e, k)' => k > pos[e]
  BY NextImageGoesAhead DEF HandoffInv
<1> QED BY <1>1 DEF ToBeSaved, BeforeSave, AfterSave

LEMMA InsertDispatchKeepsInv ==
  ASSUME HandoffInv, TypeOK', NEW e \in Events, InsertDispatch(e)
  PROVE  HandoffInv'
<1> DEFINE i == Current(e)
<1> USE DEF relaying
<1>1. TypeOK /\ MarkersKnow /\ RowsExist /\ i \in Images
  BY CurrentIsImage DEF HandoffInv
<1>2. /\ pc[e] \in AfterSave /\ Goto(e, "publish") /\ UNCHANGED pos
      /\ UNCHANGED <<row, file, bus, sent, relay, relayRows, relaySent>>
  BY DEF InsertDispatch, AfterSave
<1>3. \/ dispatch' = [dispatch EXCEPT ![i] = "pending"] /\ created' = Append(created, i)
      \/ dispatch' = dispatch /\ created' = created
  BY DEF InsertDispatch, InsertRow
<1> HIDE DEF i
<1>4. /\ \A j \in Images \ {i} : dispatch'[j] = dispatch[j]
      /\ \A j \in Images : dispatch[j] # "none" => dispatch'[j] # "none"
      /\ dispatch'[i] = "published" => dispatch[i] = "published"
  BY <1>1, <1>3 DEF TypeOK
<1>5. HandingStep(i)
  <2>1. /\ \A d \in Events : \A k \in 1..ImagesIn[d] : ToBeSaved(d, k)' => ToBeSaved(d, k)
        /\ \A d \in Events : pc'[d] = "markSaved" => pc[d] = "markSaved"
        /\ \A d \in Events : pc'[d] \in AfterSave => pc[d] \in AfterSave
    BY <1>2, HandlerStays DEF AfterSave
  <2>2. /\ row[i] = "saved" /\ i \in file
        /\ \A d \in Events : \A k \in 1..ImagesIn[d] : ToBeSaved(d, k) => <<d, k>> # i
    BY <1>2, SavedIsBehind DEF i
  <2> QED BY <1>1, <1>2, <1>4, <2>1, <2>2 DEF HandingStep
<1>6. MarkersKnow'
  <2>1. \A d \in Events : pc'[d] = "settle" => pc[d] = "settle" /\ Current(d)' = Current(d)
    BY <1>2, HandlerStays DEF AfterSave, Current
  <2> QED BY <1>1, <1>2, <2>1 DEF MarkersKnow
<1>7. RowsExist'
  <2>1. \A n \in DOMAIN relayRows' : dispatch'[relayRows'[n]] # "none"
    <3>1. \A n \in DOMAIN relayRows : relayRows[n] \in Images
      BY <1>1, ElementOfSeq, LenProperties DEF TypeOK
    <3> QED BY <1>1, <1>2, <1>4, <3>1 DEF RowsExist
  <2>2. \A n \in DOMAIN created : created[n] \in Images
    BY <1>1, ElementOfSeq, LenProperties DEF TypeOK
  <2>3. CASE dispatch' = [dispatch EXCEPT ![i] = "pending"] /\ created' = Append(created, i)
    <3>1. /\ Len(created') = Len(created) + 1 /\ Len(created) \in Nat
          /\ DOMAIN created = 1..Len(created) /\ DOMAIN created' = 1..Len(created')
          /\ created'[Len(created) + 1] = i
          /\ \A n \in 1..Len(created) : created'[n] = created[n]
      BY <1>1, <2>3, AppendProperties, LenProperties DEF TypeOK
    <3>2. dispatch'[i] # "none"
      BY <1>1, <2>3 DEF TypeOK
    <3>3. \A n \in 1..Len(created) : dispatch'[created'[n]] # "none"
      BY <1>1, <1>4, <2>2, <3>1 DEF RowsExist
    <3>4. \A n \in DOMAIN created' : dispatch'[created'[n]] # "none"
      BY <3>1, <3>2, <3>3
    <3> QED BY <2>1, <3>4 DEF RowsExist
  <2>4. CASE dispatch' = dispatch /\ created' = created
    BY <1>1, <2>1, <2>4 DEF RowsExist
  <2> QED BY <1>3, <2>3, <2>4
<1> QED BY <1>1, <1>5, <1>6, <1>7, HandingStepKeepsInv

\* The rows of the outbox are still its rows when no status goes back to "none".
LEMMA RowsStay ==
  ASSUME HandoffInv, \A j \in Images : dispatch[j] # "none" => dispatch'[j] # "none",
         created' = created, relayRows' = relayRows
  PROVE  RowsExist'
<1>1. \A n \in DOMAIN relayRows : relayRows[n] \in Images
  BY ElementOfSeq, LenProperties DEF HandoffInv, TypeOK
<1>2. \A n \in DOMAIN created : created[n] \in Images
  BY ElementOfSeq, LenProperties DEF HandoffInv, TypeOK
<1> QED BY <1>1, <1>2 DEF HandoffInv, RowsExist

LEMMA PublishKeepsInv ==
  ASSUME HandoffInv, TypeOK', NEW e \in Events, Publish(e)
  PROVE  HandoffInv'
<1> DEFINE i == Current(e)
<1> USE DEF relaying, db
<1>1. TypeOK /\ MarkersKnow /\ RowsExist /\ i \in Images
  BY CurrentIsImage DEF HandoffInv
<1>2. /\ pc[e] \in AfterSave
      /\ UNCHANGED <<row, file, dispatch, created, relay, relayRows, relaySent>>
  BY DEF Publish, AfterSave
<1>3. PICK ok \in BOOLEAN : PublishEnds(i, ok) /\ sent' = [sent EXCEPT ![e] = ok]
  BY DEF Publish
<1>4. (Goto(e, "settle") /\ UNCHANGED pos) \/ NextImage(e)
  BY DEF Publish
<1>5. bus \subseteq bus' /\ bus' \subseteq bus \union {i} /\ (ok => i \in bus')
  BY <1>3 DEF PublishEnds
<1>6. /\ \A d \in Events : \A k \in 1..ImagesIn[d] : ToBeSaved(d, k)' => ToBeSaved(d, k)
      /\ \A d \in Events : pc'[d] = "markSaved" => pc[d] = "markSaved" /\ pos'[d] = pos[d]
      /\ \A d \in Events : pc'[d] \in AfterSave => pc[d] \in AfterSave /\ pos'[d] = pos[d]
      /\ \A d \in Events \ {e} : pc'[d] = pc[d]
  BY <1>2, <1>4, HandlerStays, HandlerMovesOn DEF AfterSave
<1>7. HandingStep(i)
  BY <1>2, <1>5, <1>6, SavedIsBehind DEF HandingStep
<1>8. MarkersKnow'
  <2>1. ASSUME NEW d \in Events, pc'[d] = "settle", sent'[d]
        PROVE  Current(d)' \in bus'
    <3>1. Current(d)' = Current(d)
      BY <1>6, <2>1 DEF AfterSave, Current
    <3>2. CASE d = e
      <4>1. sent'[e] = ok
        BY <1>1, <1>3 DEF TypeOK
      <4> QED BY <1>5, <2>1, <3>1, <3>2, <4>1
    <3>3. CASE d # e
      <4>1. sent'[d] = sent[d] /\ pc[d] = "settle"
        BY <1>1, <1>3, <1>6, <2>1, <3>3 DEF TypeOK
      <4> QED BY <1>1, <1>5, <2>1, <3>1, <4>1 DEF MarkersKnow
    <3> QED BY <3>2, <3>3
  <2> QED BY <1>1, <1>2, <1>5, <2>1 DEF MarkersKnow
<1>9. RowsExist'
  BY <1>2, RowsStay
<1> QED BY <1>1, <1>7, <1>8, <1>9, HandingStepKeepsInv

\* An UPDATE of a row of the outbox by one who knows what became of its task.
LEMMA MarkingARow ==
  ASSUME HandoffInv, NEW i \in Images, NEW ok \in BOOLEAN, ok => i \in bus,
         MarkDispatch(i, ok) \/ UNCHANGED <<dispatch, attempts>>
  PROVE  /\ \A j \in Images \ {i} : dispatch'[j] = dispatch[j]
         /\ \A j \in Images : dispatch[j] # "none" => dispatch'[j] # "none"
         /\ dispatch'[i] = "published" => dispatch[i] = "published" \/ i \in bus
BY DEF HandoffInv, TypeOK, MarkDispatch, StatusAfter

LEMMA SettleKeepsInv ==
  ASSUME HandoffInv, TypeOK', NEW e \in Events, Settle(e)
  PROVE  HandoffInv'
<1> DEFINE i == Current(e)
<1> USE DEF relaying
<1>1. TypeOK /\ MarkersKnow /\ RowsExist /\ i \in Images
  BY CurrentIsImage DEF HandoffInv
<1>2. /\ pc[e] = "settle" /\ pc[e] \in AfterSave /\ NextImage(e)
      /\ UNCHANGED <<row, file, created, bus, sent, relay, relayRows, relaySent>>
      /\ MarkDispatch(i, sent[e]) \/ UNCHANGED <<dispatch, attempts>>
  BY DEF Settle, AfterSave
<1>3. sent[e] \in BOOLEAN /\ (sent[e] => i \in bus)
  BY <1>1, <1>2 DEF TypeOK, MarkersKnow
<1>4. /\ \A j \in Images \ {i} : dispatch'[j] = dispatch[j]
      /\ \A j \in Images : dispatch[j] # "none" => dispatch'[j] # "none"
      /\ dispatch'[i] = "published" => dispatch[i] = "published" \/ i \in bus
  BY <1>1, <1>2, <1>3, MarkingARow
<1>5. HandingStep(i)
  BY <1>1, <1>2, <1>4, SavedIsBehind, HandlerMovesOn DEF HandingStep
<1>6. MarkersKnow'
  <2>1. \A d \in Events : pc'[d] = "settle" => pc[d] = "settle" /\ Current(d)' = Current(d)
    BY <1>2, HandlerMovesOn DEF Current
  <2> QED BY <1>1, <1>2, <2>1 DEF MarkersKnow
<1>7. RowsExist'
  BY <1>2, <1>4, RowsStay
<1> QED BY <1>1, <1>5, <1>6, <1>7, HandingStepKeepsInv

LEMMA RelayPublishKeepsInv ==
  ASSUME HandoffInv, TypeOK', NEW ok \in BOOLEAN, RelayPublish(ok)
  PROVE  HandoffInv'
<1> DEFINE i == Head(relayRows)
<1> USE DEF db, handlers
<1>1. TypeOK /\ MarkersKnow /\ RowsExist /\ AheadIsUntouched /\ TasksAreOfSavedImages
  BY DEF HandoffInv
<1>2. /\ PublishEnds(i, ok) /\ relaySent' = ok /\ relay = "publish"
      /\ UNCHANGED <<row, file, dispatch, created, pc, pos, sent, relayRows>>
  BY DEF RelayPublish
<1>3. i = relayRows[1] /\ 1 \in DOMAIN relayRows /\ i \in Images
  BY <1>1, <1>2, HeadTailProperties, LenProperties, EmptySeq DEF TypeOK
<1>4. dispatch[i] # "none"
  BY <1>1, <1>3 DEF RowsExist
<1>5. bus \subseteq bus' /\ bus' \subseteq bus \union {i} /\ (ok => i \in bus')
  BY <1>2 DEF PublishEnds
<1>6. HandingStep(i)
  <2>1. row[i] = "saved" /\ i \in file
    BY <1>1, <1>3, <1>4 DEF TasksAreOfSavedImages
  <2>2. \A e \in Events : \A k \in 1..ImagesIn[e] : ToBeSaved(e, k) => <<e, k>> # i
    BY <1>1, <1>4 DEF AheadIsUntouched
  <2>3. \A e \in Events : \A k \in 1..ImagesIn[e] : ToBeSaved(e, k)' => ToBeSaved(e, k)
    BY <1>2 DEF ToBeSaved
  <2> HIDE DEF i
  <2> QED BY <1>2, <1>5, <2>1, <2>2, <2>3 DEF HandingStep
<1>7. MarkersKnow'
  <2>1. \A e \in Events : Current(e)' = Current(e)
    BY <1>2 DEF Current
  <2>2. relaySent' => Head(relayRows') \in bus'
    BY <1>2, <1>5
  <2> QED BY <1>1, <1>2, <1>5, <2>1, <2>2 DEF MarkersKnow
<1>8. RowsExist'
  BY <1>2, RowsStay
<1> QED BY <1>3, <1>6, <1>7, <1>8, HandingStepKeepsInv

LEMMA RelayMarkKeepsInv ==
  ASSUME HandoffInv, TypeOK', RelayMark
  PROVE  HandoffInv'
<1> DEFINE i == Head(relayRows)
<1> USE DEF handlers
<1>1. TypeOK /\ MarkersKnow /\ RowsExist /\ AheadIsUntouched /\ TasksAreOfSavedImages
  BY DEF HandoffInv
<1>2. /\ relay = "mark" /\ relay' # "mark"
      /\ UNCHANGED <<row, file, bus, created, pc, pos, sent>>
      /\ relayRows' \in {Tail(relayRows), <<>>}
      /\ MarkDispatch(i, relaySent) \/ UNCHANGED <<dispatch, attempts>>
  BY DEF RelayMark
<1>3. /\ relayRows # <<>> /\ i = relayRows[1] /\ 1 \in DOMAIN relayRows /\ i \in Images
      /\ relaySent \in BOOLEAN /\ (relaySent => i \in bus)
  BY <1>1, <1>2, HeadTailProperties, LenProperties, EmptySeq DEF TypeOK, MarkersKnow
<1>4. dispatch[i] # "none"
  BY <1>1, <1>3 DEF RowsExist
<1>5. /\ \A j \in Images \ {i} : dispatch'[j] = dispatch[j]
      /\ \A j \in Images : dispatch[j] # "none" => dispatch'[j] # "none"
      /\ dispatch'[i] = "published" => dispatch[i] = "published" \/ i \in bus
  <2> HIDE DEF i
  <2> QED BY <1>2, <1>3, MarkingARow
<1>6. HandingStep(i)
  <2>1. row[i] = "saved" /\ i \in file
    BY <1>1, <1>3, <1>4 DEF TasksAreOfSavedImages
  <2>2. \A e \in Events : \A k \in 1..ImagesIn[e] : ToBeSaved(e, k) => <<e, k>> # i
    BY <1>1, <1>4 DEF AheadIsUntouched
  <2>3. \A e \in Events : \A k \in 1..ImagesIn[e] : ToBeSaved(e, k)' => ToBeSaved(e, k)
    BY <1>2 DEF ToBeSaved
  <2> HIDE DEF i
  <2> QED BY <1>2, <1>3, <1>5, <2>1, <2>2, <2>3 DEF HandingStep
<1>7. MarkersKnow'
  <2>1. \A e \in Events : Current(e)' = Current(e)
    BY <1>2 DEF Current
  <2> QED BY <1>1, <1>2, <2>1 DEF MarkersKnow
<1>8. RowsExist'
  <2>1. \A n \in DOMAIN relayRows' : \E m \in DOMAIN relayRows : relayRows'[n] = relayRows[m]
    <3>1. /\ \A n \in 1..Len(Tail(relayRows)) : Tail(relayRows)[n] = relayRows[n + 1]
          /\ Len(Tail(relayRows)) = Len(relayRows) - 1
          /\ Len(relayRows) \in Nat /\ DOMAIN relayRows = 1..Len(relayRows)
          /\ DOMAIN Tail(relayRows) = 1..Len(Tail(relayRows))
      BY <1>1, <1>3, HeadTailProperties, LenProperties DEF TypeOK
    <3>2. \A n \in DOMAIN Tail(relayRows) : n + 1 \in DOMAIN relayRows /\ Tail(relayRows)[n] = relayRows[n + 1]
      BY <3>1
    <3>3. CASE relayRows' = Tail(relayRows)
      BY <3>2, <3>3
    <3>4. CASE relayRows' = <<>>
      <4>1. DOMAIN relayRows' = {}
        BY <3>4
      <4> QED BY <4>1
    <3> QED BY <1>2, <3>3, <3>4
  <2>2. \A n \in DOMAIN relayRows : relayRows[n] \in Images
    BY <1>1, ElementOfSeq, LenProperties DEF TypeOK
  <2>3. \A n \in DOMAIN created : created[n] \in Images
    BY <1>1, ElementOfSeq, LenProperties DEF TypeOK
  <2>4. \A n \in DOMAIN created' : dispatch'[created'[n]] # "none"
    BY <1>1, <1>2, <1>5, <2>3 DEF RowsExist
  <2>5. \A n \in DOMAIN relayRows' : dispatch'[relayRows'[n]] # "none"
    BY <1>1, <1>5, <2>1, <2>2 DEF RowsExist
  <2> QED BY <2>4, <2>5 DEF RowsExist
<1> QED BY <1>3, <1>6, <1>7, <1>8, HandingStepKeepsInv

-----------------------------------------------------------------------------
(* The theorems *)

\* Crash, the relay's SELECT and the passing of time tell nobody anything new.
LEMMA QuietStepsKeepInv ==
  ASSUME HandoffInv, TypeOK', (\E i \in Images : Age(i)) \/ RelayFetch \/ Crash
  PROVE  HandoffInv'
<1> USE DEF db, handlers, relaying
<1>1. TypeOK /\ PublishedIsOnBus /\ TasksAreOfSavedImages /\ AheadIsUntouched
      /\ HandlersSaved /\ MarkersKnow /\ RowsExist
  BY DEF HandoffInv
<1>2. /\ UNCHANGED <<row, file, dispatch, created, bus, pos, sent>>
      /\ \A e \in Events : pc'[e] = pc[e] \/ pc'[e] = "done"
  <2>1. pc' = pc \/ pc' = [e \in Events |-> IF pc[e] \in Working THEN "done" ELSE pc[e]]
    BY DEF Age, RelayFetch, Crash
  <2>2. \A e \in Events : pc'[e] = pc[e] \/ pc'[e] = "done"
    BY <2>1
  <2> QED BY <2>2 DEF Age, RelayFetch, Crash
<1>3. \A e \in Events : Current(e)' = Current(e)
  BY <1>2 DEF Current
<1>4. PublishedIsOnBus' /\ TasksAreOfSavedImages'
  BY <1>1, <1>2 DEF PublishedIsOnBus, TasksAreOfSavedImages
<1>5. AheadIsUntouched'
  BY <1>1, <1>2 DEF AheadIsUntouched, ToBeSaved, BeforeSave
<1>6. HandlersSaved'
  BY <1>1, <1>2, <1>3 DEF HandlersSaved, AfterSave
<1>7. MarkersKnow'
  <2>1. \/ UNCHANGED relaying
        \/ relay' # "mark"
    BY DEF Age, RelayFetch, Crash
  <2> QED BY <1>1, <1>2, <1>3, <2>1 DEF MarkersKnow
<1>8. RowsExist'
  <2>1. relayRows' \in {relayRows, Picked, <<>>}
    BY DEF Age, RelayFetch, Crash
  <2>2. \A n \in DOMAIN Picked : \E m \in DOMAIN created : Picked[n] = created[m]
    BY <1>1, PickedRows
  <2> QED BY <1>1, <1>2, <2>1, <2>2 DEF RowsExist
<1> QED BY <1>4, <1>5, <1>6, <1>7, <1>8 DEF HandoffInv

LEMMA NextHandoffInv == HandoffInv /\ [Next]_handoffVars => HandoffInv'
<1> SUFFICES ASSUME HandoffInv, [Next]_handoffVars
             PROVE  HandoffInv'
  OBVIOUS
<1>1. TypeOK'
  BY NextType DEF HandoffInv
<1>2. ASSUME NEW e \in Events, HandlerStep(e)
      PROVE  HandoffInv'
  <2>1. CASE \/ StartEvent(e) \/ InsertImage(e) \/ Download(e) \/ Select(e)
             \/ MarkDuplicate(e) \/ MarkFailed(e) \/ MarkSaved(e)
             \/ AuditSaved(e) \/ AuditOther(e)
    BY <1>1, <2>1, SavingActions, SavingStepKeepsInv
  <2>2. CASE InsertDispatch(e)
    BY <1>1, <2>2, InsertDispatchKeepsInv
  <2>3. CASE Publish(e)
    BY <1>1, <2>3, PublishKeepsInv
  <2>4. CASE Settle(e)
    BY <1>1, <2>4, SettleKeepsInv
  <2> QED BY <1>2, <2>1, <2>2, <2>3, <2>4 DEF HandlerStep
<1>3. ASSUME NEW ok \in BOOLEAN, RelayPublish(ok)
      PROVE  HandoffInv'
  BY <1>1, <1>3, RelayPublishKeepsInv
<1>4. CASE RelayMark
  BY <1>1, <1>4, RelayMarkKeepsInv
<1>5. CASE (\E i \in Images : Age(i)) \/ RelayFetch \/ Crash
  BY <1>1, <1>5, QuietStepsKeepInv
<1>6. CASE UNCHANGED handoffVars
  <2>1. \A e \in Events : Current(e)' = Current(e)
    BY <1>6 DEF handoffVars, Current
  <2> QED BY <1>1, <1>6, <2>1
          DEF HandoffInv, handoffVars, PublishedIsOnBus, TasksAreOfSavedImages, AheadIsUntouched,
              ToBeSaved, HandlersSaved, MarkersKnow, RowsExist
<1> QED BY <1>2, <1>3, <1>4, <1>5, <1>6 DEF Next, RelayStep

LEMMA HandoffInvariant == Spec => []HandoffInv
BY InitHandoffInv, NextHandoffInv, PTL DEF Spec

\* A dispatch row that says published is never wrong: the handler and the relay
\* may both send a task, in any order, fail and retry, and yet no row is marked
\* whose task the stream does not have.
THEOREM PublishedIsTheTruth == Spec => []PublishedIsOnBus
<1>1. HandoffInv => PublishedIsOnBus
  BY DEF HandoffInv
<1> QED BY <1>1, HandoffInvariant, PTL

\* Only images that were written and whose row says so are handed over.
THEOREM OnlySavedImagesAreHandedOver == Spec => []TasksAreOfSavedImages
<1>1. HandoffInv => TasksAreOfSavedImages
  BY DEF HandoffInv
<1> QED BY <1>1, HandoffInvariant, PTL

-----------------------------------------------------------------------------
(* Nothing is lost in a calm run *)

\* A saved image that is neither on the bus nor in the outbox has a handler
\* that has yet to write its row: the insert comes before the publish.
NotForgotten ==
  Calm => \A i \in Images : row[i] = "saved" =>
            \/ i \in bus \/ dispatch[i] # "none"
            \/ \E e \in Events : Current(e) = i /\ pc[e] \in {"auditSaved", "dispatch"}

\* Neither the bus nor the outbox forgets a task.
LEMMA HandedOverStays ==
  ASSUME TypeOK, [Next]_handoffVars, NEW i \in Images
  PROVE  (i \in bus => i \in bus') /\ (dispatch[i] # "none" => dispatch'[i] # "none")
<1> USE DEF db, handlers, relaying
<1>1. ASSUME NEW j \in Images, NEW ok \in BOOLEAN, MarkDispatch(j, ok)
      PROVE  dispatch[i] # "none" => dispatch'[i] # "none"
  BY <1>1 DEF MarkDispatch, StatusAfter, TypeOK
<1>2. ASSUME NEW e \in Events, HandlerStep(e)
      PROVE  (i \in bus => i \in bus') /\ (dispatch[i] # "none" => dispatch'[i] # "none")
  <2>1. CASE \/ StartEvent(e) \/ InsertImage(e) \/ Download(e) \/ Select(e)
             \/ MarkDuplicate(e) \/ MarkFailed(e) \/ MarkSaved(e)
             \/ AuditSaved(e) \/ AuditOther(e)
    BY <2>1 DEF StartEvent, InsertImage, Download, Select, MarkDuplicate, MarkFailed,
                Conclude, MarkSaved, AuditSaved, AuditOther
  <2>2. CASE InsertDispatch(e)
    BY <2>2 DEF InsertDispatch, InsertRow, TypeOK
  <2>3. CASE Publish(e)
    BY <2>3 DEF Publish, PublishEnds
  <2>4. CASE Settle(e)
    BY <1>1, <2>4, CurrentIsImage DEF Settle, TypeOK
  <2> QED BY <1>2, <2>1, <2>2, <2>3, <2>4 DEF HandlerStep
<1>3. ASSUME NEW ok \in BOOLEAN, RelayPublish(ok)
      PROVE  (i \in bus => i \in bus') /\ UNCHANGED dispatch
  BY <1>3 DEF RelayPublish, PublishEnds
<1>4. CASE RelayMark
  <2>1. Head(relayRows) \in Images /\ relaySent \in BOOLEAN /\ UNCHANGED bus
    BY <1>4, HeadTailProperties DEF RelayMark, TypeOK
  <2> QED BY <1>1, <1>4, <2>1 DEF RelayMark
<1>5. CASE (\E j \in Images : Age(j)) \/ RelayFetch \/ Crash \/ UNCHANGED handoffVars
  BY <1>5 DEF Age, RelayFetch, Crash, handoffVars
<1> QED BY <1>2, <1>3, <1>4, <1>5 DEF Next, RelayStep

\* A calm state comes from a calm one.
LEMMA CalmBefore ==
  ASSUME TypeOK, [Next]_handoffVars, Calm'
  PROVE  Calm /\ UNCHANGED <<faults, crashes>>
<1>1. faults \in Nat /\ crashes \in Nat
  BY HandoffBounds DEF TypeOK
<1>2. faults' \in {faults, faults + 1} /\ crashes' \in {crashes, crashes + 1}
  BY DEF Next, HandlerStep, StartEvent, InsertImage, Download, Select, MarkDuplicate, MarkFailed,
         Conclude, MarkSaved, AuditSaved, AuditOther, InsertDispatch, Publish, Settle,
         RelayStep, RelayFetch, RelayPublish, RelayMark, Age, Crash, NoFault, AFault, handoffVars
<1> QED BY <1>1, <1>2 DEF Calm

LEMMA NextNotForgotten == TypeOK /\ NotForgotten /\ [Next]_handoffVars => NotForgotten'
<1> SUFFICES ASSUME TypeOK, NotForgotten, [Next]_handoffVars, Calm',
                    NEW i \in Images, row'[i] = "saved",
                    i \notin bus', dispatch'[i] = "none"
             PROVE  \E e \in Events : Current(e)' = i /\ pc'[e] \in {"auditSaved", "dispatch"}
  BY DEF NotForgotten
<1> USE DEF db, handlers, relaying
<1>1. Calm /\ faults' = faults /\ crashes' = crashes /\ faults \in Nat /\ crashes \in Nat
  BY CalmBefore, HandoffBounds DEF TypeOK
<1>2. i \notin bus /\ dispatch[i] = "none"
  BY HandedOverStays
<1>3. row[i] = "saved" => \E e \in Events : Current(e) = i /\ pc[e] \in {"auditSaved", "dispatch"}
  BY <1>1, <1>2 DEF NotForgotten
<1>4. ~AFault /\ ~Crash
  BY <1>1 DEF AFault, Crash
<1>5. ASSUME NEW e \in Events, HandlerStep(e)
      PROVE  \E d \in Events : Current(d)' = i /\ pc'[d] \in {"auditSaved", "dispatch"}
  <2>1. \A d \in Events \ {e} : pc'[d] = pc[d] /\ Current(d)' = Current(d)
    BY <1>5 DEF HandlerStep, StartEvent, InsertImage, Download, Select, MarkDuplicate, MarkFailed,
                Conclude, MarkSaved, AuditSaved, AuditOther, InsertDispatch, Publish, Settle,
                Goto, NextImage, Abandon, Current, TypeOK
  <2>2. CASE AuditSaved(e)
    BY <1>3, <1>4, <2>1, <2>2 DEF AuditSaved, Goto, Current, TypeOK
  <2>3. CASE InsertDispatch(e)
    <3>1. Current(e) # i /\ row' = row
      BY <1>4, <2>3, CurrentIsImage DEF InsertDispatch, InsertRow, TypeOK
    <3> QED BY <1>3, <2>1, <3>1
  <2>4. CASE MarkSaved(e)
    <3>1. pc[e] = "markSaved" /\ pc'[e] = "auditSaved" /\ Current(e)' = Current(e)
          /\ row' = [row EXCEPT ![Current(e)] = "saved"]
      BY <1>4, <2>4 DEF MarkSaved, Goto, Current, TypeOK
    <3>2. Current(e) = i \/ row[i] = "saved"
      BY <3>1 DEF TypeOK
    <3> QED BY <1>3, <2>1, <3>1, <3>2
  <2>5. CASE \/ StartEvent(e) \/ InsertImage(e) \/ Download(e) \/ Select(e)
             \/ MarkDuplicate(e) \/ MarkFailed(e) \/ AuditOther(e) \/ Publish(e) \/ Settle(e)
    <3>1. pc[e] \notin {"auditSaved", "dispatch"}
      BY <2>5 DEF StartEvent, InsertImage, Download, Select, MarkDuplicate, MarkFailed,
                  Conclude, AuditOther, Publish, Settle
    <3>2. row[i] = "saved"
      BY <2>5, CurrentIsImage
         DEF StartEvent, InsertImage, Download, Select, MarkDuplicate, MarkFailed,
             Conclude, AuditOther, Publish, Settle, TypeOK
    <3> QED BY <1>3, <2>1, <3>1, <3>2
  <2> QED BY <1>5, <2>2, <2>3, <2>4, <2>5 DEF HandlerStep
<1>6. CASE (\E j \in Images : Age(j)) \/ RelayStep \/ UNCHANGED handoffVars
  <2>1. UNCHANGED <<row, pc, pos>>
    BY <1>6 DEF Age, RelayStep, RelayFetch, RelayPublish, RelayMark, handoffVars
  <2>2. \A e \in Events : Current(e)' = Current(e) /\ pc'[e] = pc[e]
    BY <2>1 DEF Current
  <2> QED BY <1>3, <2>1, <2>2
<1> QED BY <1>4, <1>5, <1>6 DEF Next

\* As long as nothing but NATS fails, a saved image is on the bus, in the outbox
\* or in the hands of its handler, whatever the relay and other handlers do.
THEOREM CalmRunsLoseNothing == Spec => []CalmLosesNothing
<1>1. Init => NotForgotten
  BY DEF Init, NotForgotten
<1>2. NotForgotten => CalmLosesNothing
  BY DEF NotForgotten, CalmLosesNothing, SavedIsAccountedFor, BeingHandedOver
<1> QED BY <1>1, <1>2, NextNotForgotten, HandoffTypeCorrect, PTL DEF Spec

-----------------------------------------------------------------------------
(* One connection saves equal content once *)

\* While one event is in work nobody else saves, so what the look-up of the
\* hash found is still true when the row is marked.
OneByOne ==
  /\ \A d, e \in Events : pc[d] \in Working /\ pc[e] \in Working => d = e
  /\ \A e \in Events : pc[e] = "markSaved" => ~SavedTwin(Current(e))
  /\ SavedOncePerContent

LEMMA NextOneByOne ==
  ~Concurrent /\ TypeOK /\ OneByOne /\ [Next]_handoffVars => OneByOne'
<1> SUFFICES ASSUME ~Concurrent, TypeOK, OneByOne, [Next]_handoffVars
             PROVE  OneByOne'
  OBVIOUS
<1> USE DEF db, handlers, relaying
<1>1. ASSUME NEW e \in Events, HandlerStep(e)
      PROVE  OneByOne'
  <2>1. Current(e) \in Images
    BY CurrentIsImage
  <2>2. \A d \in Events \ {e} : pc'[d] = pc[d] /\ pc[d] \notin Working
    <3>1. \A d \in Events \ {e} : pc'[d] = pc[d]
      BY <1>1 DEF HandlerStep, StartEvent, InsertImage, Download, Select, MarkDuplicate, MarkFailed,
                  Conclude, MarkSaved, AuditSaved, AuditOther, InsertDispatch, Publish, Settle,
                  Goto, NextImage, Abandon, TypeOK
    <3>2. CASE StartEvent(e)
      BY <3>1, <3>2 DEF StartEvent, Resting, Working
    <3>3. CASE ~StartEvent(e)
      <4>1. pc[e] \in Working
        BY <1>1, <3>3 DEF HandlerStep, InsertImage, Download, Select, MarkDuplicate, MarkFailed,
                Conclude, MarkSaved, AuditSaved, AuditOther, InsertDispatch, Publish, Settle, Working
      <4> QED BY <3>1, <4>1 DEF OneByOne
    <3> QED BY <3>2, <3>3
  <2>3. \A c, d \in Events : pc'[c] \in Working /\ pc'[d] \in Working => c = d
    BY <2>2
  <2>4. CASE MarkSaved(e)
    <3>1. ~SavedTwin(Current(e)) /\ pc[e] = "markSaved"
      BY <2>4 DEF MarkSaved, OneByOne
    <3>2. row' \in {row, [row EXCEPT ![Current(e)] = "saved"]} /\ pc'[e] # "markSaved"
      BY <2>4 DEF MarkSaved, AfterFailedSave, Goto, TypeOK
    <3>3. SavedOncePerContent'
      BY <2>1, <3>1, <3>2 DEF OneByOne, SavedOncePerContent, SavedTwin, TypeOK
    <3> QED BY <2>2, <2>3, <3>2, <3>3 DEF OneByOne, Working
  <2>5. CASE Select(e)
    <3>1. row' = row /\ (pc'[e] = "markSaved" => ~SavedTwin(Current(e)) /\ pos' = pos)
      BY <2>5 DEF Select, Abandon, Goto, TypeOK
    <3>2. \A d \in Events : pc'[d] = "markSaved" => ~SavedTwin(Current(d))'
      BY <2>2, <3>1 DEF Working, SavedTwin, Current
    <3>3. SavedOncePerContent'
      BY <3>1 DEF OneByOne, SavedOncePerContent
    <3> QED BY <2>3, <3>2, <3>3 DEF OneByOne
  <2>6. CASE \/ StartEvent(e) \/ InsertImage(e) \/ Download(e)
             \/ MarkDuplicate(e) \/ MarkFailed(e) \/ AuditSaved(e) \/ AuditOther(e)
             \/ InsertDispatch(e) \/ Publish(e) \/ Settle(e)
    <3>1. pc'[e] # "markSaved"
      BY <2>6 DEF StartEvent, InsertImage, Download, DownloadEnds, AfterBadDownload, MarkDuplicate,
                  MarkFailed, Conclude, AuditSaved, AuditOther, InsertDispatch, Publish, Settle,
                  Goto, NextImage, NextLabel, Abandon, TypeOK
    <3>2. \A i \in Images : row'[i] = "saved" => row[i] = "saved"
      BY <2>1, <2>6 DEF StartEvent, InsertImage, Download, MarkDuplicate, MarkFailed, Conclude,
                  AuditSaved, AuditOther, InsertDispatch, Publish, Settle, TypeOK
    <3>3. SavedOncePerContent'
      BY <3>2 DEF OneByOne, SavedOncePerContent
    <3> QED BY <2>2, <2>3, <3>1, <3>3 DEF OneByOne, Working
  <2> QED BY <1>1, <2>4, <2>5, <2>6 DEF HandlerStep
<1>2. CASE Crash
  <2>1. row' = row /\ \A e \in Events : pc'[e] \notin Working
    BY <1>2 DEF Crash, Working, TypeOK
  <2> QED BY <2>1 DEF OneByOne, SavedOncePerContent, Working
<1>3. CASE (\E j \in Images : Age(j)) \/ RelayStep \/ UNCHANGED handoffVars
  <2>1. UNCHANGED <<row, pc, pos>>
    BY <1>3 DEF Age, RelayStep, RelayFetch, RelayPublish, RelayMark, handoffVars
  <2> QED BY <2>1 DEF OneByOne, SavedOncePerContent, SavedTwin, Current
<1> QED BY <1>1, <1>2, <1>3 DEF Next

\* With one connection, whatever fails and whenever the process dies, images
\* with the same bytes are saved once.
THEOREM OneLinkSavesOnce ==
  ASSUME ~Concurrent
  PROVE  Spec => []SavedOncePerContent
<1>1. Init => OneByOne
  BY DEF Init, OneByOne, SavedOncePerContent, Working
<1>2. OneByOne => SavedOncePerContent
  BY DEF OneByOne
<1>3. TypeOK /\ OneByOne /\ [Next]_handoffVars => OneByOne'
  BY NextOneByOne
<1> QED BY <1>1, <1>2, <1>3, HandoffTypeCorrect, PTL DEF Spec

-----------------------------------------------------------------------------
(* The hand-off implements the ledger *)

\* The images whose row is not there yet.
Unseen(e, k) == k > pos[e] \/ (k = pos[e] /\ pc[e] \in {"new", "insert"})

\* Where a handler has the row of its image and no status for it.
Undecided == {"download", "select", "markDuplicate", "markFailed", "markSaved"}

\* A handler finds its image's row as it left it: an INSERT never meets a row,
\* an UPDATE of the status never a final one.
RowsOpen ==
  \A e \in Events :
    /\ \A k \in 1..ImagesIn[e] : Unseen(e, k) => row[<<e, k>>] = "none"
    /\ pc[e] \in Undecided => row[Current(e)] = "pending"

\* A handler writes the row of its own image, and nobody else writes rows.
LEMMA OwnRow ==
  ASSUME TypeOK, NEW e \in Events, HandlerStep(e)
  PROVE  /\ \A d \in Events \ {e} : pc'[d] = pc[d] /\ pos'[d] = pos[d]
         /\ \A i \in Images \ {Current(e)} : row'[i] = row[i]
<1> USE DEF db
<1>1. \A d \in Events \ {e} : pc'[d] = pc[d] /\ pos'[d] = pos[d]
  BY DEF HandlerStep, StartEvent, InsertImage, Download, Select, MarkDuplicate, MarkFailed,
         Conclude, MarkSaved, AuditSaved, AuditOther, InsertDispatch, Publish, Settle,
         Goto, NextImage, Abandon, TypeOK
<1>2. row' = row \/ \E status : row' = [row EXCEPT ![Current(e)] = status]
  BY DEF HandlerStep, StartEvent, InsertImage, Download, Select, MarkDuplicate, MarkFailed,
         Conclude, MarkSaved, AuditSaved, AuditOther, InsertDispatch, Publish, Settle
<1>3. \A i \in Images \ {Current(e)} : row'[i] = row[i]
  BY <1>2 DEF TypeOK
<1> QED BY <1>1, <1>3

\* On to the next image, or to the end: the rest of the event is as it was.
LEMMA NextImageUnseen ==
  ASSUME TypeOK, NEW e \in Events, NextImage(e) \/ (Abandon(e) /\ pc[e] # "new"),
         NEW k \in 1..ImagesIn[e], Unseen(e, k)'
  PROVE  k > pos[e]
<1>1. pos[e] \in Nat \ {0} /\ ImagesIn[e] \in Nat /\ pos[e] <= ImagesIn[e] /\ k \in Nat
  BY ImagesInAssumption DEF TypeOK
<1>2. CASE NextImage(e)
  <2>1. CASE pos[e] < ImagesIn[e]
    <3>1. pos'[e] = pos[e] + 1
      BY <1>2, <2>1 DEF NextImage, TypeOK
    <3> QED BY <1>1, <3>1 DEF Unseen
  <2>2. CASE ~(pos[e] < ImagesIn[e])
    <3>1. pos'[e] = pos[e] /\ pc'[e] = "done"
      BY <1>2, <2>2 DEF NextImage, NextLabel, Goto, TypeOK
    <3> QED BY <3>1 DEF Unseen
  <2> QED BY <2>1, <2>2
<1>3. CASE Abandon(e)
  <2>1. pos'[e] = pos[e] /\ pc'[e] = "done"
    BY <1>3 DEF Abandon, Goto, TypeOK
  <2> QED BY <2>1 DEF Unseen
<1> QED BY <1>2, <1>3

LEMMA NextRowsOpen == TypeOK /\ RowsOpen /\ [Next]_handoffVars => RowsOpen'
<1> SUFFICES ASSUME TypeOK, RowsOpen, [Next]_handoffVars
             PROVE  RowsOpen'
  OBVIOUS
<1> USE DEF db, handlers, relaying
<1>1. ASSUME NEW e \in Events, HandlerStep(e)
      PROVE  RowsOpen'
  <2>1. /\ \A d \in Events \ {e} : pc'[d] = pc[d] /\ pos'[d] = pos[d] /\ Current(d)' = Current(d)
        /\ \A i \in Images \ {Current(e)} : row'[i] = row[i]
    BY <1>1, OwnRow DEF Current
  <2>2. Current(e) \in Images /\ Current(e) = <<e, pos[e]>>
    BY CurrentIsImage DEF Current
  <2>3. \A d \in Events : \A k \in 1..ImagesIn[d] : <<d, k>> \in Images
    BY DEF Images
  <2>4. \A k \in 1..ImagesIn[e] : Unseen(e, k)' => Unseen(e, k) /\ row'[<<e, k>>] = row[<<e, k>>]
    <3> SUFFICES ASSUME NEW k \in 1..ImagesIn[e], Unseen(e, k)'
                 PROVE  Unseen(e, k) /\ row'[<<e, k>>] = row[<<e, k>>]
      OBVIOUS
    <3>1. pos[e] \in Nat /\ k \in Nat
      BY ImagesInAssumption DEF TypeOK
    <3>2. ASSUME k > pos[e]
          PROVE  Unseen(e, k) /\ row'[<<e, k>>] = row[<<e, k>>]
      <4>1. <<e, k>> # Current(e)
        BY <2>2, <3>1, <3>2
      <4> QED BY <2>1, <2>3, <3>2, <4>1 DEF Unseen
    <3>3. CASE StartEvent(e)
      <4>1. row' = row /\ pos' = pos /\ pc[e] = "new"
        BY <3>3 DEF StartEvent
      <4> QED BY <3>3, <4>1 DEF Unseen
    <3>4. CASE InsertImage(e) \/ AuditOther(e) \/ Publish(e) \/ Settle(e) \/ AuditSaved(e) \/ Select(e)
      <4>1. pc[e] # "new"
        BY <3>4 DEF InsertImage, AuditOther, Publish, Settle, AuditSaved, Select
      <4>2. NextImage(e) \/ Abandon(e) \/ (pos' = pos /\ pc'[e] \notin {"new", "insert"})
        BY <3>4 DEF InsertImage, AuditOther, Publish, Settle, AuditSaved, Select, Goto, TypeOK
      <4>3. CASE NextImage(e) \/ Abandon(e)
        BY <3>2, <4>1, <4>3, NextImageUnseen
      <4>4. CASE pos' = pos /\ pc'[e] \notin {"new", "insert"}
        BY <3>2, <4>4 DEF Unseen
      <4> QED BY <4>2, <4>3, <4>4
    <3>5. CASE Download(e) \/ MarkDuplicate(e) \/ MarkFailed(e) \/ MarkSaved(e) \/ InsertDispatch(e)
      <4>1. pos' = pos /\ pc'[e] \notin {"new", "insert"}
        BY <3>5 DEF Download, DownloadEnds, AfterBadDownload, MarkDuplicate, MarkFailed, Conclude,
                    MarkSaved, AfterFailedSave, InsertDispatch, Goto, TypeOK
      <4> QED BY <3>2, <4>1 DEF Unseen
    <3> QED BY <1>1, <3>3, <3>4, <3>5 DEF HandlerStep
  <2>5. pc'[e] \in Undecided => row'[Current(e)'] = "pending"
    <3>1. ASSUME pc'[e] \in Undecided, InsertImage(e)
          PROVE  row'[Current(e)'] = "pending"
      <4>1. row' = [row EXCEPT ![Current(e)] = "pending"] /\ pos' = pos
        BY <3>1 DEF InsertImage, NextImage, NextLabel, Goto, Undecided, TypeOK
      <4> QED BY <2>2, <4>1 DEF Current, TypeOK
    <3>2. ASSUME pc'[e] \in Undecided, Download(e) \/ Select(e)
          PROVE  row'[Current(e)'] = "pending"
      <4>1. row' = row /\ pos' = pos /\ pc[e] \in Undecided
        BY <3>2 DEF Download, Select, Abandon, Undecided
      <4> QED BY <4>1 DEF Current, RowsOpen
    <3>3. ASSUME \/ StartEvent(e) \/ MarkDuplicate(e) \/ MarkFailed(e) \/ MarkSaved(e) \/ AuditSaved(e)
                 \/ AuditOther(e) \/ InsertDispatch(e) \/ Publish(e) \/ Settle(e)
          PROVE  pc'[e] \notin Undecided
      BY <3>3 DEF StartEvent, MarkDuplicate, MarkFailed, Conclude, MarkSaved, AfterFailedSave, AuditSaved,
                  AuditOther, InsertDispatch, Publish, Settle, Goto, NextImage, NextLabel, Abandon,
                  Undecided, TypeOK
    <3> QED BY <1>1, <3>1, <3>2, <3>3 DEF HandlerStep
  <2>6. \A d \in Events \ {e} : pos[d] \in 1..ImagesIn[d] /\ Current(d) = <<d, pos[d]>>
    BY ImagesInAssumption DEF TypeOK, Current
  <2>7. ASSUME NEW d \in Events \ {e}
        PROVE  /\ \A k \in 1..ImagesIn[d] : Unseen(d, k)' => row'[<<d, k>>] = "none"
               /\ pc'[d] \in Undecided => row'[Current(d)'] = "pending"
    <3>1. \A k \in 1..ImagesIn[d] : row'[<<d, k>>] = row[<<d, k>>]
      BY <2>1, <2>2, <2>3
    <3>2. row'[Current(d)] = row[Current(d)]
      BY <2>6, <3>1
    <3> QED BY <2>1, <3>1, <3>2 DEF RowsOpen, Unseen
  <2> QED BY <2>4, <2>5, <2>7 DEF RowsOpen
<1>2. CASE (\E i \in Images : Age(i)) \/ RelayStep \/ UNCHANGED handoffVars
  <2>1. UNCHANGED <<row, pc, pos>>
    BY <1>2 DEF Age, RelayStep, RelayFetch, RelayPublish, RelayMark, handoffVars
  <2> QED BY <2>1 DEF RowsOpen, Unseen, Current
<1>3. CASE Crash
  <2>1. UNCHANGED <<row, pos>> /\ pc' = [e \in Events |-> IF pc[e] \in Working THEN "done" ELSE pc[e]]
    BY <1>3 DEF Crash
  <2>2. \A e \in Events : /\ pc'[e] = pc[e] \/ pc'[e] = "done"
                          /\ Current(e)' = Current(e)
    BY <2>1 DEF Current
  <2> QED BY <2>1, <2>2 DEF RowsOpen, Unseen, Undecided
<1> QED BY <1>1, <1>2, <1>3 DEF Next

\* An UPDATE of a dispatch row: the mark, set or withdrawn.
LEMMA MarkDispatchInLedger ==
  ASSUME TypeOK, NEW i \in Images, NEW ok \in BOOLEAN, MarkDispatch(i, ok), ok => i \in bus,
         UNCHANGED <<row, bus>>
  PROVE  Ledger!LedgerNext
<1> DEFINE marked == {j \in Images : dispatch[j] = "published"}
<1>1. dispatch' = [dispatch EXCEPT ![i] = StatusAfter(ok)]
  BY DEF MarkDispatch
<1>2. CASE ok
  <2>1. marked' = marked \union {i}
    BY <1>1, <1>2 DEF TypeOK, StatusAfter
  <2> QED BY <1>2, <2>1 DEF Ledger!LedgerNext, Ledger!Mark
<1>3. CASE ~ok
  <2>1. marked' = marked \ {i}
    BY <1>1, <1>3 DEF TypeOK, StatusAfter
  <2> QED BY <2>1 DEF Ledger!LedgerNext, Ledger!Withdraw
<1> QED BY <1>2, <1>3

\* A send that may have reached the stream.
LEMMA PublishInLedger ==
  ASSUME NEW i \in Images, NEW ok \in BOOLEAN, PublishEnds(i, ok), row[i] = "saved",
         UNCHANGED <<row, dispatch>>
  PROVE  Ledger!LedgerNext \/ UNCHANGED Ledger!ledgerVars
<1>1. CASE bus' = bus
  BY <1>1 DEF Ledger!ledgerVars
<1>2. CASE bus' = bus \union {i}
  BY <1>2 DEF Ledger!LedgerNext, Ledger!Tell
<1> QED BY <1>1, <1>2 DEF PublishEnds

\* A step that writes the status of the row of an undecided image, or nothing.
LEMMA StatusInLedger ==
  ASSUME TypeOK, NEW i \in Images, UNCHANGED <<dispatch, bus>>,
         \/ row' = row
         \/ row[i] = "none" /\ row' = [row EXCEPT ![i] = "pending"]
         \/ /\ row[i] = "pending"
            /\ \E final \in {"saved", "duplicate", "failed"} : row' = [row EXCEPT ![i] = final]
  PROVE  Ledger!LedgerNext \/ UNCHANGED Ledger!ledgerVars
BY DEF Ledger!LedgerNext, Ledger!Record, Ledger!Conclude, Ledger!ledgerVars

LEMMA NextInLedger ==
  HandoffInv /\ RowsOpen /\ [Next]_handoffVars => [Ledger!LedgerNext]_Ledger!ledgerVars
<1> SUFFICES ASSUME HandoffInv, RowsOpen, [Next]_handoffVars
             PROVE  Ledger!LedgerNext \/ UNCHANGED Ledger!ledgerVars
  BY DEF Ledger!ledgerVars
<1> USE DEF db, handlers, relaying
<1>1. TypeOK /\ TasksAreOfSavedImages /\ HandlersSaved /\ MarkersKnow /\ RowsExist
  BY DEF HandoffInv
<1>2. ASSUME NEW e \in Events, HandlerStep(e)
      PROVE  Ledger!LedgerNext \/ UNCHANGED Ledger!ledgerVars
  <2>1. Current(e) \in Images /\ Current(e) = <<e, pos[e]>> /\ pos[e] \in 1..ImagesIn[e]
    BY <1>1, CurrentIsImage, ImagesInAssumption DEF Current, TypeOK
  <2>2. CASE InsertImage(e)
    <3>1. row[Current(e)] = "none"
      BY <2>1, <2>2 DEF InsertImage, RowsOpen, Unseen
    <3> QED BY <1>1, <2>1, <2>2, <3>1, StatusInLedger DEF InsertImage
  <2>3. CASE MarkDuplicate(e) \/ MarkFailed(e) \/ MarkSaved(e)
    <3>1. row[Current(e)] = "pending"
      BY <2>3 DEF MarkDuplicate, MarkFailed, MarkSaved, Conclude, RowsOpen, Undecided
    <3>2. /\ UNCHANGED <<dispatch, bus>>
          /\ \/ row' = row
             \/ \E final \in {"saved", "duplicate", "failed"} : row' = [row EXCEPT ![Current(e)] = final]
      BY <2>3 DEF MarkDuplicate, MarkFailed, MarkSaved, Conclude
    <3> QED BY <1>1, <2>1, <3>1, <3>2, StatusInLedger
  <2>4. CASE InsertDispatch(e)
    <3>1. \/ dispatch' = dispatch
          \/ dispatch' = [dispatch EXCEPT ![Current(e)] = "pending"]
      BY <2>4 DEF InsertDispatch, InsertRow
    <3>2. UNCHANGED <<row, bus>>
      BY <2>4 DEF InsertDispatch
    <3>3. CASE dispatch' = dispatch
      BY <3>2, <3>3 DEF Ledger!ledgerVars
    <3>4. CASE dispatch' = [dispatch EXCEPT ![Current(e)] = "pending"]
      <4>1. {j \in Images : dispatch[j] = "published"}' = {j \in Images : dispatch[j] = "published"} \ {Current(e)}
        BY <1>1, <2>1, <3>4 DEF TypeOK
      <4> QED BY <2>1, <3>2, <4>1 DEF Ledger!LedgerNext, Ledger!Withdraw
    <3> QED BY <3>1, <3>3, <3>4
  <2>5. CASE Publish(e)
    <3>1. row[Current(e)] = "saved"
      BY <1>1, <2>5 DEF Publish, HandlersSaved, AfterSave
    <3> QED BY <2>1, <2>5, <3>1, PublishInLedger DEF Publish
  <2>6. CASE Settle(e)
    <3>1. (sent[e] => Current(e) \in bus) /\ sent[e] \in BOOLEAN /\ UNCHANGED <<row, bus>>
      BY <1>1, <2>6 DEF Settle, MarkersKnow, TypeOK
    <3>2. CASE MarkDispatch(Current(e), sent[e])
      BY <1>1, <2>1, <3>1, <3>2, MarkDispatchInLedger
    <3>3. CASE UNCHANGED dispatch
      BY <3>1, <3>3 DEF Ledger!ledgerVars
    <3> QED BY <2>6, <3>2, <3>3 DEF Settle
  <2>7. CASE StartEvent(e) \/ Download(e) \/ Select(e) \/ AuditSaved(e) \/ AuditOther(e)
    BY <2>7 DEF StartEvent, Download, Select, AuditSaved, AuditOther, Ledger!ledgerVars
  <2> QED BY <1>2, <2>2, <2>3, <2>4, <2>5, <2>6, <2>7 DEF HandlerStep
<1>3. ASSUME NEW ok \in BOOLEAN, RelayPublish(ok)
      PROVE  Ledger!LedgerNext \/ UNCHANGED Ledger!ledgerVars
  <2>1. relayRows # <<>> /\ relayRows \in Seq(Images)
    BY <1>1, <1>3 DEF RelayPublish, TypeOK
  <2>2. Head(relayRows) \in Images /\ 1 \in DOMAIN relayRows /\ Head(relayRows) = relayRows[1]
    BY <2>1, HeadTailProperties, LenProperties, EmptySeq
  <2>3. row[Head(relayRows)] = "saved"
    BY <1>1, <2>2 DEF RowsExist, TasksAreOfSavedImages
  <2> QED BY <1>3, <2>2, <2>3, PublishInLedger DEF RelayPublish
<1>4. CASE RelayMark
  <2>1. /\ Head(relayRows) \in Images /\ relaySent \in BOOLEAN /\ UNCHANGED <<row, bus>>
        /\ relaySent => Head(relayRows) \in bus
    BY <1>1, <1>4, HeadTailProperties DEF RelayMark, TypeOK, MarkersKnow
  <2>2. CASE MarkDispatch(Head(relayRows), relaySent)
    BY <1>1, <2>1, <2>2, MarkDispatchInLedger
  <2>3. CASE UNCHANGED dispatch
    BY <2>1, <2>3 DEF Ledger!ledgerVars
  <2> QED BY <1>4, <2>2, <2>3 DEF RelayMark
<1>5. CASE (\E i \in Images : Age(i)) \/ RelayFetch \/ Crash \/ UNCHANGED handoffVars
  BY <1>5 DEF Age, RelayFetch, Crash, handoffVars, Ledger!ledgerVars
<1> QED BY <1>2, <1>3, <1>4, <1>5 DEF Next, RelayStep

\* Handlers, relay and restarted processes, in any order and with any failures,
\* keep to the ledger: a row gets one final status, a task is sent only of a
\* saved image, and a row is marked as published only when its task is stored.
THEOREM HandoffImplementsLedger == Spec => ImplementsLedger
<1>1. Init => Ledger!LedgerInit /\ RowsOpen
  <2> SUFFICES ASSUME Init
               PROVE  Ledger!LedgerInit /\ RowsOpen
    OBVIOUS
  <2>1. \A e \in Events : \A k \in 1..ImagesIn[e] : <<e, k>> \in Images
    BY DEF Images
  <2> QED BY <2>1 DEF Init, RowsOpen, Undecided, Ledger!LedgerInit
<1>2. Spec => []RowsOpen
  BY <1>1, NextRowsOpen, HandoffTypeCorrect, PTL DEF Spec
<1> QED BY <1>1, <1>2, NextInLedger, HandoffInvariant, PTL DEF Spec, ImplementsLedger, Ledger!LedgerSpec
=============================================================================
