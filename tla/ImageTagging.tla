---------------------------- MODULE ImageTagging -----------------------------
(***************************************************************************)
(* From the picture to its tags: the logger writes files (ImageFiles), the *)
(* processor finds the file of each task and queues its path, and batches  *)
(* of paths go to the tagger service, whose results are matched to images  *)
(* again (TaggerBatch).  Each hand-over goes by another key: message id    *)
(* and hash, path, path or position.  Attempts, crashes and the queue file *)
(* are the business of TaggerQueue and left out here.                      *)
(***************************************************************************)
EXTENDS ImageFiles, TaggerBatch

CONSTANT MaxItems  \* bound: of the items in the queue and in work together

ASSUME ItemsAssumption == MaxItems \in Nat \ {0}
ASSUME PathsAssumption == Paths = Files

Item == [of : Images, at : Files]   \* context and image_path of a queue item

VARIABLES
  queue,         \* the items that wait, in order
  batch,         \* the items in work
  seen,          \* the picture the service saw for each of its results
  tags,          \* the picture whose tags are recorded for each image
  doubt          \* history: an answer has left open which result is for whom

taggingVars == <<now, disk, newest, savedAt, overwritten, request, results, spare,
                 fallback, given, stage, queue, batch, seen, tags, doubt>>

Init == /\ FilesInit /\ BatchInit
        /\ queue = <<>> /\ batch = <<>> /\ seen = <<>>
        /\ tags = [i \in Images |-> "none"]
        /\ doubt = FALSE

\* The logger is at work.
Log == /\ Tick \/ \E i \in Images : SaveFile(i)
       /\ UNCHANGED batchVars
       /\ UNCHANGED <<queue, batch, seen, tags, doubt>>

\* From the answer to the record the processor awaits nothing.
Free == stage \in {"idle", "post"}

\* The task of an image arrives, for the first time or again.  A path that
\* waits already is not queued twice; a path in work is.
Receive(i) ==
  /\ Free
  /\ Saved(i)
  /\ Len(queue) + Len(batch) < MaxItems
  /\ \E f \in Resolved(i) :
       /\ \A k \in DOMAIN queue : queue[k].at # f
       /\ queue' = Append(queue, [of |-> i, at |-> f])
  /\ UNCHANGED fileVars /\ UNCHANGED batchVars
  /\ UNCHANGED <<batch, seen, tags, doubt>>

\* run_tagger_once takes what waits.
Start ==
  /\ queue # <<>>
  /\ StartBatch([k \in DOMAIN queue |-> queue[k].at], DOMAIN disk)
  /\ batch' = queue /\ queue' = <<>>
  /\ UNCHANGED fileVars /\ UNCHANGED <<seen, tags, doubt>>

\* The service answers, for the files as they are now: for each of the images
\* in order, or leaving some out, or in another order, or for one twice; and
\* it gives any of the results a name.
Answer(answer) ==
  /\ Answered(answer)
  /\ seen' = [n \in DOMAIN answer |-> disk[answer[n].path]]
  /\ doubt' = (doubt \/ ~((InOrder /\ Clear)' \/ Unnamed(answer) = {}))
  /\ UNCHANGED fileVars /\ UNCHANGED <<queue, batch, tags>>

Answers == UNION {[1..n -> {r \in Result : \E k \in DOMAIN request : r.path = request[k]}] :
                  n \in 0..Len(request)}

Step == /\ PostFails \/ Match
        /\ UNCHANGED fileVars /\ UNCHANGED <<queue, batch, seen, tags, doubt>>

\* result_by_path: the results go back to the items by path, the last one stays.
Taken(item) ==
  LET for == {k \in DOMAIN given : request[k] = item.at}
  IN IF for = {} THEN 0 ELSE given[LastOf(for)]

\* The items whose result is good have their tags recorded; of the others some
\* have attempts left and go back to the head of the queue.
Record ==
  /\ Return
  /\ \E good \in SUBSET (DOMAIN results), again \in SUBSET (DOMAIN batch) :
       LET tagged  == {k \in DOMAIN batch : Taken(batch[k]) \in good}
           done(i) == {k \in tagged : batch[k].of = i}
       IN /\ again \intersect tagged = {}
          /\ tags' = [i \in Images |-> IF done(i) = {} THEN tags[i]
                                       ELSE seen[Taken(batch[LastOf(done(i))])]]
          /\ queue' = Selected(batch, again) \o queue
  /\ batch' = <<>> /\ seen' = <<>>
  /\ UNCHANGED fileVars /\ UNCHANGED doubt

Next == \/ Log
        \/ \E i \in Images : Receive(i)
        \/ Start \/ (\E answer \in Answers : Answer(answer)) \/ Step
        \/ Record

Spec == Init /\ [][Next]_taggingVars

-----------------------------------------------------------------------------
(* Properties *)

\* Every variable has its type.
TypeOK == /\ BatchTypeOK
          /\ now \in 0..LastSecond
          /\ DOMAIN disk \subseteq Files /\ DOMAIN newest = DOMAIN disk
          /\ \A f \in DOMAIN disk : disk[f] \in Pictures
          /\ savedAt \in [Images -> Files \union {Nowhere}]
          /\ overwritten \subseteq Images
          /\ queue \in Seq(Item) /\ batch \in Seq(Item)
          /\ tags \in [Images -> Pictures \union {"none"}]
          /\ doubt \in BOOLEAN

\* The processor finds a file for every image that was saved, and one with the
\* image's own picture, whatever other files look like it, unless the logger
\* has itself written one image over another.
FoundIsOwn ==
  \A i \in Images : Saved(i) =>
    /\ Resolved(i) # {}
    /\ overwritten = {} => \A f \in Resolved(i) : disk[f] = Bytes[i]

\* The tags recorded for an image are those of its own picture, as long as no
\* image was overwritten and no answer left open which result is for whom.
TagsAreOfImage ==
  overwritten = {} /\ ~doubt => \A i \in Images : tags[i] \in {"none", Bytes[i]}
=============================================================================
