------------------------- MODULE ImageTaggingProofs --------------------------
(***************************************************************************)
(* Proofs about ImageTagging, for any images, names, patterns and bounds.  *)
(*                                                                         *)
(* That the pictures on the disk are the right ones rests on FilesInv; that*)
(* results go to the right items on MatchInv, whose point is that the      *)
(* fallback index counts the unnamed results up to the item that is next;  *)
(* and that tags are those of the own picture on both, with GoodInv, which *)
(* follows a picture from its file through the queue, the batch and the    *)
(* answer to the record.                                                   *)
(***************************************************************************)
EXTENDS ImageTagging, SelectionProofs

USE NamesAssumption, ImagesAssumption, ClockAssumption, ItemsAssumption, PathsAssumption

-----------------------------------------------------------------------------
(* The last of some positions *)

\* LastOf returns what its name says.
LEMMA LastIsThere ==
  ASSUME NEW n \in Nat, NEW K \in SUBSET (1..n), K # {}
  PROVE  LastOf(K) \in K /\ \A j \in K : j <= LastOf(K)
<1> DEFINE c == Cardinality(K)
<1>1. IsFiniteSet(K) /\ c \in Nat /\ c # 0
  <2>1. IsFiniteSet(1..n)
    BY FS_Interval
  <2> QED BY <2>1, FS_Subset, FS_CardinalityType, FS_EmptySet
<1>2. PICK i \in K : RankIn(K, i) = c
  <2>1. c \in 1..c
    BY <1>1
  <2> QED BY <2>1, RanksOfSubset
<1>3. {j \in K : j <= i} = K
  <2>1. {j \in K : j <= i} \in SUBSET K /\ Cardinality({j \in K : j <= i}) = c
    BY <1>2 DEF RankIn
  <2> QED BY <1>1, <2>1, FS_Subset
<1>4. \A j \in K : j <= i
  BY <1>3
<1> QED BY <1>4 DEF LastOf

\* Some member of a finite set has the largest rank.
LEMMA NewestIsThere ==
  ASSUME NEW n \in Nat, NEW C, C # {}, NEW rank, \A f \in C : rank[f] \in 0..n
  PROVE  \E f \in C : \A g \in C : rank[g] <= rank[f]
<1> DEFINE K == {rank[f] + 1 : f \in C}
<1>1. K \in SUBSET (1..(n + 1)) /\ K # {}
  OBVIOUS
<1>2. LastOf(K) \in K /\ \A j \in K : j <= LastOf(K)
  <2>1. n + 1 \in Nat
    OBVIOUS
  <2> HIDE DEF K
  <2> QED BY <1>1, <2>1, LastIsThere
<1>3. PICK f \in C : LastOf(K) = rank[f] + 1
  BY <1>2
<1>4. ASSUME NEW g \in C
      PROVE  rank[g] <= rank[f]
  <2>1. rank[g] + 1 \in K
    OBVIOUS
  <2>2. rank[g] + 1 <= rank[f] + 1
    BY <1>2, <1>3, <2>1
  <2> QED BY <2>2
<1> QED BY <1>4

-----------------------------------------------------------------------------
(* The files *)

\* Every saved image has its file, under its own name, every file is that of
\* an image, and what is in it is right as long as nothing was overwritten.
FilesInv ==
  /\ now \in 0..LastSecond
  /\ DOMAIN disk \subseteq Files
  /\ newest \in [DOMAIN disk -> 0..Cardinality(Images)]
  /\ \A f \in DOMAIN disk : disk[f] \in Pictures
  /\ savedAt \in [Images -> Files \union {Nowhere}]
  /\ overwritten \subseteq Images
  /\ \A i \in Images : Saved(i) => savedAt[i] \in DOMAIN disk /\ savedAt[i][1] = NameOf[i]
  /\ \A f \in DOMAIN disk : \E i \in Images : savedAt[i] = f
  /\ overwritten = {} => \A i \in Images : Saved(i) => disk[savedAt[i]] = Bytes[i]

\* The disk grows, and changes under nobody unless that is recorded.
DiskGrows ==
  /\ DOMAIN disk \subseteq DOMAIN disk'
  /\ overwritten' = {} => overwritten = {} /\ \A f \in DOMAIN disk : disk'[f] = disk[f]

LEMMA InitFiles == FilesInit => FilesInv
BY DEF FilesInit, FilesInv, Saved, Nowhere

LEMMA SaveKeepsFiles ==
  ASSUME FilesInv, NEW i \in Images, SaveFile(i)
  PROVE  FilesInv' /\ DiskGrows
<1> DEFINE r == Cardinality({j \in Images : Saved(j)})
<1>0. PICK second \in 0..now :
        LET f == <<NameOf[i], second>>
        IN /\ disk' = With(disk, f, Bytes[i])
           /\ newest' = With(newest, f, r)
           /\ savedAt' = [savedAt EXCEPT ![i] = f]
           /\ overwritten' = overwritten \union {j \in Images : savedAt[j] = f}
  BY DEF SaveFile
<1> DEFINE f == <<NameOf[i], second>>
<1>1. f \in Files /\ f[1] = NameOf[i] /\ f # Nowhere
  BY NamesAssumption, ClockAssumption DEF FilesInv, Files, Nowhere
<1>2. r \in 0..Cardinality(Images)
  <2>1. {j \in Images : Saved(j)} \in SUBSET Images
    OBVIOUS
  <2> QED BY <2>1, FS_Subset, FS_CardinalityType
<1>3. /\ DOMAIN disk' = DOMAIN disk \union {f} /\ disk'[f] = Bytes[i]
      /\ \A g \in DOMAIN disk : g # f => disk'[g] = disk[g]
  BY <1>0 DEF With
<1>4. newest' = [g \in DOMAIN disk' |-> IF g = f THEN r ELSE newest[g]]
  BY <1>0, <1>3 DEF With, FilesInv
<1>5. newest' \in [DOMAIN disk' -> 0..Cardinality(Images)]
  BY <1>2, <1>3, <1>4 DEF FilesInv
<1>6. /\ ~Saved(i) /\ savedAt' = [savedAt EXCEPT ![i] = f]
      /\ overwritten' = overwritten \union {j \in Images : savedAt[j] = f}
      /\ now' = now
  BY <1>0 DEF SaveFile
<1>7. savedAt' \in [Images -> Files \union {Nowhere}] /\ overwritten' \subseteq Images
  BY <1>1, <1>6 DEF FilesInv
<1>8. savedAt'[i] = f /\ \A j \in Images \ {i} : savedAt'[j] = savedAt[j]
  BY <1>6 DEF FilesInv
<1>9. \A j \in Images : Saved(j)' => savedAt'[j] \in DOMAIN disk' /\ savedAt'[j][1] = NameOf[j]
  BY <1>1, <1>3, <1>8 DEF FilesInv, Saved
<1>10. ASSUME NEW g \in DOMAIN disk'
       PROVE  \E j \in Images : savedAt'[j] = g
  <2>1. CASE g = f
    BY <1>8, <2>1
  <2>2. CASE g # f
    <3>1. PICK j \in Images : savedAt[j] = g
      BY <1>3, <2>2 DEF FilesInv
    <3>2. g # Nowhere
      BY <1>3, <2>2 DEF FilesInv, Files, Nowhere
    <3> QED BY <1>6, <1>8, <3>1, <3>2 DEF Saved
  <2> QED BY <2>1, <2>2
<1>11. ASSUME overwritten' = {}
       PROVE  /\ overwritten = {} /\ \A g \in DOMAIN disk : disk'[g] = disk[g]
              /\ \A j \in Images : Saved(j)' => disk'[savedAt'[j]] = Bytes[j]
  <2>1. overwritten = {} /\ \A j \in Images : savedAt[j] # f
    BY <1>6, <1>11
  <2>2. f \notin DOMAIN disk
    BY <2>1 DEF FilesInv
  <2> QED BY <1>3, <1>8, <2>1, <2>2 DEF FilesInv, Saved
<1>12. \A g \in DOMAIN disk' : disk'[g] \in Pictures
  BY <1>3 DEF FilesInv, Pictures
<1> HIDE DEF f, r
<1> QED BY <1>1, <1>3, <1>5, <1>6, <1>7, <1>9, <1>10, <1>11, <1>12 DEF FilesInv, DiskGrows

LEMMA NextFiles ==
  ASSUME FilesInv, [Next]_taggingVars
  PROVE  FilesInv' /\ DiskGrows
<1>1. CASE \E i \in Images : SaveFile(i)
  BY <1>1, SaveKeepsFiles
<1>2. CASE Tick
  BY <1>2 DEF Tick, FilesInv, DiskGrows, Saved
<1>3. CASE UNCHANGED fileVars
  BY <1>3 DEF fileVars, FilesInv, DiskGrows, Saved
<1>4. ASSUME NEW i \in Images, Receive(i)
      PROVE  UNCHANGED fileVars
  BY <1>4 DEF Receive
<1>5. ASSUME Start \/ (\E answer \in Answers : Answer(answer)) \/ Step \/ Record
      PROVE  UNCHANGED fileVars
  BY <1>5 DEF Start, Answer, Step, Record
<1>6. UNCHANGED taggingVars => UNCHANGED fileVars
  BY DEF taggingVars, fileVars
<1> QED BY <1>1, <1>2, <1>3, <1>4, <1>5, <1>6 DEF Next, Log

LEMMA FilesAreFound == FilesInv => FoundIsOwn
<1> SUFFICES ASSUME FilesInv, NEW i \in Images, Saved(i)
             PROVE  /\ Resolved(i) # {}
                    /\ overwritten = {} => \A f \in Resolved(i) : disk[f] = Bytes[i]
  BY DEF FoundIsOwn
<1>1. savedAt[i] \in DOMAIN disk /\ savedAt[i] \in Candidates(i)
  BY DEF FilesInv, Candidates
<1>2. overwritten = {} => disk[savedAt[i]] = Bytes[i]
  BY DEF FilesInv
<1>3. CASE i \in Legacy
  BY <1>1, <1>2, <1>3 DEF Resolved, Carried
<1>4. CASE i \notin Legacy
  <2> DEFINE same == {f \in Candidates(i) : disk[f] = Bytes[i]}
  <2>1. CASE same # {}
    BY <1>4, <2>1 DEF Resolved, Carried, Found
  <2>2. CASE same = {}
    <3>1. overwritten # {}
      BY <1>1, <1>2, <2>2
    <3>2. \A f \in Candidates(i) : newest[f] \in 0..Cardinality(Images)
      BY DEF FilesInv, Candidates
    <3>3. \E f \in Candidates(i) : \A g \in Candidates(i) : newest[g] <= newest[f]
      BY <1>1, <3>2, FS_CardinalityType, NewestIsThere
    <3> QED BY <1>4, <2>2, <3>1, <3>3 DEF Resolved, Carried, Found
  <2> QED BY <2>1, <2>2
<1> QED BY <1>3, <1>4

\* The processor finds every image that was saved, and its own picture unless
\* the logger has written one over another, whatever the names look like.
THEOREM ImagesAreFound == Spec => []FoundIsOwn
<1>1. Init => FilesInv
  BY InitFiles DEF Init
<1>2. FilesInv /\ [Next]_taggingVars => FilesInv'
  BY NextFiles
<1> QED BY <1>1, <1>2, FilesAreFound, PTL DEF Spec
-----------------------------------------------------------------------------
(* Types *)

\* What the locals of a call are before its answer, and how long an answer is.
BatchShape ==
  /\ stage \in {"idle", "post"} => results = <<>> /\ fallback = 0 /\ given = <<>>
  /\ stage = "match" =>
       spare = Selected([n \in DOMAIN results |-> n], Unnamed(results))
  /\ DOMAIN seen = DOMAIN results
  /\ \A k \in DOMAIN request : request[k] \in DOMAIN disk
  /\ seen \in Seq(Pictures)

TypeInv == TypeOK /\ FilesInv /\ BatchShape

LEMMA InitTypes == Init => TypeInv
<1> SUFFICES ASSUME Init
             PROVE  TypeInv
  OBVIOUS
<1>1. FilesInv
  BY InitFiles DEF Init
<1>2. BatchTypeOK
  BY DEF Init, BatchInit, BatchTypeOK
<1>3. BatchShape
  BY DEF Init, BatchInit, BatchShape
<1>4. queue \in Seq(Item) /\ batch \in Seq(Item)
  <2>1. queue = <<>> /\ batch = <<>>
    BY DEF Init
  <2> QED BY <2>1, EmptySeq
<1>5. tags \in [Images -> Pictures \union {"none"}] /\ doubt \in BOOLEAN
  BY DEF Init
<1> QED BY <1>1, <1>2, <1>3, <1>4, <1>5 DEF TypeInv, TypeOK, FilesInv

\* The positions of a sequence, and those of any part of them.
LEMMA Positions ==
  ASSUME NEW S, NEW s \in Seq(S)
  PROVE  Len(s) \in Nat /\ DOMAIN s = 1..Len(s) /\ \A k \in DOMAIN s : s[k] \in S
BY LenProperties, ElementOfSeq

\* A list of positions is a list.
LEMMA PositionsOf ==
  ASSUME NEW S, NEW s \in Seq(S)
  PROVE  [n \in DOMAIN s |-> n] \in Seq(DOMAIN s)
<1>1. [n \in DOMAIN s |-> n] \in [1..Len(s) -> DOMAIN s] /\ Len(s) \in Nat
  BY Positions
<1> QED BY <1>1, SeqDef

\* The result an item takes by name is one of the results.
LEMMA NamingIsThere ==
  ASSUME BatchTypeOK, NEW path, Naming(path) # {}
  PROVE  /\ LastOf(Naming(path)) \in DOMAIN results
         /\ LastOf(Naming(path)) \in Naming(path)
<1>1. Len(results) \in Nat /\ Naming(path) \in SUBSET (1..Len(results))
  BY Positions DEF BatchTypeOK, Naming
<1> QED BY <1>1, LastIsThere DEF Naming

LEMMA MatchType ==
  ASSUME BatchTypeOK, Match
  PROVE  BatchTypeOK'
<1> DEFINE G == {0} \union DOMAIN results
<1>1. given \in Seq(G) /\ request \in Seq(Paths) /\ spare \in Seq(DOMAIN results)
      /\ Len(given) \in Nat /\ Len(request) \in Nat /\ Len(spare) \in Nat
  BY LenProperties DEF BatchTypeOK
<1>2. ASSUME NEW r \in G, NextItem <= Len(request), given' = Append(given, r),
             UNCHANGED <<request, results, spare, stage>>, fallback' \in 0..Len(spare)
      PROVE  BatchTypeOK'
  <2>1. given' \in Seq(G) /\ Len(given') = Len(given) + 1
    BY <1>1, <1>2, AppendProperties
  <2> QED BY <1>1, <1>2, <2>1 DEF BatchTypeOK, NextItem
<1>3. CASE MatchNamed
  BY <1>2, <1>3, NamingIsThere DEF MatchNamed, Pending, BatchTypeOK
<1>4. CASE MatchByPosition
  <2>1. fallback + 1 \in 1..Len(spare) /\ spare[fallback + 1] \in DOMAIN results
    BY <1>1, <1>4, Positions DEF MatchByPosition, FallbackOf, BatchTypeOK
  <2>2. /\ NextItem <= Len(request) /\ given' = Append(given, spare[fallback + 1])
        /\ UNCHANGED <<request, results, spare, stage>> /\ fallback' = fallback + 1
    BY <1>4 DEF MatchByPosition, Pending, FallbackOf, Advance
  <2>3. fallback' \in 0..Len(spare) /\ spare[fallback + 1] \in G
    BY <1>1, <2>1, <2>2
  <2> HIDE DEF G
  <2> QED BY <1>2, <2>2, <2>3
<1>5. CASE MatchNothing
  BY <1>2, <1>5 DEF MatchNothing, Pending, BatchTypeOK
<1>6. CASE MatchEnds
  BY <1>6 DEF MatchEnds, BatchTypeOK
<1> QED BY <1>3, <1>4, <1>5, <1>6 DEF Match

LEMMA MatchShape ==
  ASSUME BatchShape, Match, UNCHANGED <<seen, disk>>
  PROVE  BatchShape'
<1>1. /\ UNCHANGED <<request, results, spare>> /\ stage = "match"
      /\ stage' \in {"match", "done"}
  BY DEF Match, MatchNamed, MatchByPosition, MatchNothing, MatchEnds, Pending
<1> QED BY <1>1 DEF BatchShape, Unnamed

\* The call, the answer and the return, as far as the types of the locals go.
LEMMA StartType ==
  ASSUME TypeInv, Start
  PROVE  BatchTypeOK' /\ BatchShape' /\ request' \in Seq(Paths)
         /\ \A k \in DOMAIN request' : \E j \in DOMAIN queue : request'[k] = queue[j].at
<1> DEFINE b == [k \in DOMAIN queue |-> queue[k].at]
           K == {k \in DOMAIN b : b[k] \in DOMAIN disk}
<1>1. b \in Seq(Paths)
  <2>1. Len(queue) \in Nat /\ DOMAIN queue = 1..Len(queue)
        /\ \A k \in DOMAIN queue : queue[k].at \in Files
    <3>1. queue \in Seq(Item)
      BY DEF TypeInv, TypeOK
    <3>2. Len(queue) \in Nat /\ DOMAIN queue = 1..Len(queue)
          /\ \A k \in DOMAIN queue : queue[k] \in Item
      BY <3>1, Positions
    <3> QED BY <3>2 DEF Item
  <2> QED BY <2>1, SeqDef
<1>2. /\ request' = Selected(b, K) /\ stage = "idle" /\ stage' \in {"done", "post"}
      /\ UNCHANGED <<results, spare, fallback, given, seen, disk>>
  BY DEF Start, StartBatch, fileVars
<1>3. K \in SUBSET (DOMAIN b)
  OBVIOUS
<1>4. /\ request' \in Seq(Paths)
      /\ \A k \in DOMAIN request' : \E i \in K : request'[k] = b[i]
  <2> HIDE DEF b, K
  <2> QED BY <1>1, <1>2, <1>3, SelectedItems
<1>5. \A k \in DOMAIN request' : request'[k] \in DOMAIN disk
  BY <1>4
<1>6. Len(request') \in Nat /\ Len(<<>>) = 0
  BY <1>4, LenProperties
<1> HIDE DEF b, K
<1>7. BatchTypeOK'
  BY <1>2, <1>4, <1>6 DEF TypeInv, TypeOK, BatchShape, BatchTypeOK
<1>8. BatchShape'
  BY <1>2, <1>5 DEF TypeInv, BatchShape
<1>9. \A k \in DOMAIN request' : \E j \in DOMAIN queue : request'[k] = queue[j].at
  BY <1>4 DEF b, K
<1> QED BY <1>4, <1>7, <1>8, <1>9

LEMMA AnswerType ==
  ASSUME TypeInv, NEW answer \in Answers, Answer(answer)
  PROVE  /\ BatchTypeOK' /\ BatchShape'
         /\ \A n \in DOMAIN answer : answer[n].path \in DOMAIN disk
<1>1. /\ stage = "post" /\ stage' = "match" /\ results' = answer
      /\ spare' = Selected([n \in DOMAIN answer |-> n], Unnamed(answer))
      /\ seen' = [n \in DOMAIN answer |-> disk[answer[n].path]]
      /\ UNCHANGED <<request, fallback, given, disk>>
  BY DEF Answer, Answered, fileVars
<1>2. request \in Seq(Paths) /\ Len(request) \in Nat
  BY LenProperties DEF TypeInv, TypeOK, BatchTypeOK
<1>3. PICK n \in 0..Len(request) :
        answer \in [1..n -> {r \in Result : \E k \in DOMAIN request : r.path = request[k]}]
  BY DEF Answers
<1>4. answer \in Seq(Result) /\ DOMAIN answer = 1..n /\ n \in Nat
  <2>1. answer \in [1..n -> Result] /\ n \in Nat
    BY <1>2, <1>3
  <2> QED BY <2>1, SeqDef
<1>5. \A k \in DOMAIN answer : answer[k].path \in DOMAIN disk
  BY <1>3 DEF TypeInv, BatchShape
<1>6. spare' \in Seq(DOMAIN answer)
  <2>1. [k \in DOMAIN answer |-> k] \in Seq(DOMAIN answer)
    BY <1>4, PositionsOf
  <2>2. Unnamed(answer) \in SUBSET (DOMAIN [k \in DOMAIN answer |-> k])
    BY DEF Unnamed
  <2> QED BY <1>1, <2>1, <2>2, SelectedItems
<1>7. seen' \in Seq(Pictures) /\ DOMAIN seen' = DOMAIN answer
  <2>1. seen' \in [1..n -> Pictures]
    BY <1>1, <1>4, <1>5 DEF TypeInv, FilesInv
  <2> QED BY <1>1, <1>4, <2>1, SeqDef
<1>8. results = <<>> /\ fallback = 0 /\ given = <<>>
  BY <1>1 DEF TypeInv, BatchShape
<1>9. BatchTypeOK'
  <2>1. Len(spare') \in Nat /\ Len(given) = 0 /\ given \in Seq({0} \union DOMAIN answer)
    BY <1>6, <1>8, LenProperties
  <2> QED BY <1>1, <1>2, <1>4, <1>6, <1>8, <2>1 DEF BatchTypeOK
<1>10. BatchShape'
  BY <1>1, <1>7 DEF TypeInv, BatchShape
<1> QED BY <1>1, <1>4, <1>5, <1>8, <1>9, <1>10

\* result_by_path gives every item a result of the call, or none.
LEMMA TakenIsGiven ==
  ASSUME BatchTypeOK, NEW item
  PROVE  /\ Taken(item) \in {0} \union DOMAIN results
         /\ Taken(item) # 0 =>
              \E k \in DOMAIN given : request[k] = item.at /\ Taken(item) = given[k]
<1> DEFINE for == {k \in DOMAIN given : request[k] = item.at}
<1>1. Len(given) \in Nat /\ for \in SUBSET (1..Len(given))
      /\ \A k \in DOMAIN given : given[k] \in {0} \union DOMAIN results
  BY Positions DEF BatchTypeOK
<1>2. CASE for = {}
  BY <1>2 DEF Taken
<1>3. CASE for # {}
  <2>1. LastOf(for) \in for
    BY <1>1, <1>3, LastIsThere
  <2>2. Taken(item) = given[LastOf(for)]
    BY <1>3 DEF Taken
  <2> QED BY <1>1, <2>1, <2>2
<1> QED BY <1>2, <1>3

\* Every image has the tags it had or those of an item of its own, and the
\* items that are queued again are items of the batch.
LEMMA RecordResult ==
  ASSUME TypeInv, Record
  PROVE  /\ tags' = [i \in Images |-> tags'[i]]
         /\ \A i \in Images :
              \/ tags'[i] = tags[i]
              \/ \E k \in DOMAIN batch : /\ batch[k].of = i /\ Taken(batch[k]) # 0
                                         /\ tags'[i] = seen[Taken(batch[k])]
         /\ \E again \in SUBSET (DOMAIN batch) : queue' = Selected(batch, again) \o queue
<1>1. PICK good \in SUBSET (DOMAIN results), again \in SUBSET (DOMAIN batch) :
        LET tagged  == {k \in DOMAIN batch : Taken(batch[k]) \in good}
            done(i) == {k \in tagged : batch[k].of = i}
        IN /\ tags' = [i \in Images |-> IF done(i) = {} THEN tags[i]
                                        ELSE seen[Taken(batch[LastOf(done(i))])]]
           /\ queue' = Selected(batch, again) \o queue
  BY DEF Record
<1> DEFINE done(i) == {k \in {l \in DOMAIN batch : Taken(batch[l]) \in good} : batch[k].of = i}
           T(i) == IF done(i) = {} THEN tags[i] ELSE seen[Taken(batch[LastOf(done(i))])]
<1>2. tags' = [i \in Images |-> T(i)] /\ queue' = Selected(batch, again) \o queue
  BY <1>1
<1>3. ASSUME NEW i \in Images, done(i) # {}
      PROVE  LastOf(done(i)) \in done(i)
  <2>1. Len(batch) \in Nat /\ done(i) \in SUBSET (1..Len(batch))
    BY Positions DEF TypeInv, TypeOK
  <2> HIDE DEF done
  <2> QED BY <1>3, <2>1, LastIsThere
<1>4. \A k \in DOMAIN results : k # 0
  <2>1. results \in Seq(Result)
    BY DEF TypeInv, TypeOK, BatchTypeOK
  <2> QED BY <2>1, Positions
<1>5. \A i \in Images :
        \/ tags'[i] = tags[i]
        \/ \E k \in DOMAIN batch : /\ batch[k].of = i /\ Taken(batch[k]) # 0
                                   /\ tags'[i] = seen[Taken(batch[k])]
  BY <1>2, <1>3, <1>4
<1>6. tags' = [i \in Images |-> tags'[i]]
  <2> HIDE DEF T
  <2> QED BY <1>2
<1> QED BY <1>2, <1>5, <1>6

LEMMA RecordType ==
  ASSUME TypeInv, Record
  PROVE  /\ BatchTypeOK' /\ BatchShape' /\ tags' \in [Images -> Pictures \union {"none"}]
         /\ queue' \in Seq(Item) /\ batch' \in Seq(Item)
<1>1. /\ request' = <<>> /\ results' = <<>> /\ spare' = <<>> /\ fallback' = 0
      /\ given' = <<>> /\ stage' = "idle" /\ batch' = <<>> /\ seen' = <<>>
  BY DEF Record, Return
<1>2. BatchTypeOK'
  <2>1. fallback' \in 0..Len(spare') /\ Len(given') <= Len(request')
    BY <1>1
  <2>2. request' \in Seq(Paths) /\ results' \in Seq(Result)
        /\ spare' \in Seq(DOMAIN results') /\ given' \in Seq({0} \union DOMAIN results')
    BY <1>1, EmptySeq, Zenon
  <2> QED BY <1>1, <2>1, <2>2 DEF BatchTypeOK
<1>3. BatchShape'
  <2>1. seen' \in Seq(Pictures)
    BY <1>1, EmptySeq
  <2> QED BY <1>1, <2>1 DEF BatchShape
<1>4. ASSUME NEW k \in DOMAIN batch, Taken(batch[k]) # 0
      PROVE  seen[Taken(batch[k])] \in Pictures
  <2>1. Taken(batch[k]) \in DOMAIN seen
    BY <1>4, TakenIsGiven DEF TypeInv, TypeOK, BatchShape
  <2>2. seen \in Seq(Pictures)
    BY DEF TypeInv, BatchShape
  <2> QED BY <2>1, <2>2, Positions
<1>5. tags' \in [Images -> Pictures \union {"none"}]
  <2>1. \A i \in Images : tags'[i] \in Pictures \union {"none"}
    BY <1>4, RecordResult DEF TypeInv, TypeOK
  <2>2. tags' = [i \in Images |-> tags'[i]]
    BY RecordResult
  <2> QED BY <2>1, <2>2
<1>6. queue' \in Seq(Item)
  <2>1. queue \in Seq(Item) /\ batch \in Seq(Item)
    BY DEF TypeInv, TypeOK
  <2>2. PICK again \in SUBSET (DOMAIN batch) : queue' = Selected(batch, again) \o queue
    BY RecordResult
  <2>3. Selected(batch, again) \in Seq(Item)
    BY <2>1, SelectedItems
  <2> QED BY <2>1, <2>2, <2>3, ConcatProperties
<1>7. batch' \in Seq(Item)
  BY <1>1, EmptySeq
<1> QED BY <1>2, <1>3, <1>5, <1>6, <1>7

LEMMA NextTypes ==
  ASSUME TypeInv, [Next]_taggingVars
  PROVE  TypeInv'
<1>1. FilesInv' /\ DiskGrows
  BY NextFiles DEF TypeInv
<1>2. /\ now' \in 0..LastSecond /\ DOMAIN disk' \subseteq Files
      /\ DOMAIN newest' = DOMAIN disk' /\ (\A f \in DOMAIN disk' : disk'[f] \in Pictures)
      /\ savedAt' \in [Images -> Files \union {Nowhere}] /\ overwritten' \subseteq Images
  BY <1>1 DEF FilesInv
<1>3. SUFFICES /\ BatchTypeOK' /\ BatchShape' /\ doubt' \in BOOLEAN
               /\ queue' \in Seq(Item) /\ batch' \in Seq(Item)
               /\ tags' \in [Images -> Pictures \union {"none"}]
  BY <1>1, <1>2 DEF TypeInv, TypeOK
<1>4. /\ BatchTypeOK /\ BatchShape /\ doubt \in BOOLEAN
      /\ queue \in Seq(Item) /\ batch \in Seq(Item)
      /\ tags \in [Images -> Pictures \union {"none"}]
  BY DEF TypeInv, TypeOK
<1>5. UNCHANGED batchVars => BatchTypeOK'
  BY <1>4 DEF BatchTypeOK, batchVars
<1>6. UNCHANGED <<batchVars, seen>> => BatchShape'
  BY <1>1, <1>4, Zenon DEF BatchShape, DiskGrows, batchVars, Unnamed
<1>7. CASE Log
  BY <1>4, <1>5, <1>6, <1>7 DEF Log
<1>8. ASSUME NEW i \in Images, Receive(i)
      PROVE  queue' \in Seq(Item) /\ UNCHANGED <<batchVars, batch, seen, tags, doubt>>
  <2>1. PICK f \in Resolved(i) : queue' = Append(queue, [of |-> i, at |-> f])
    BY <1>8 DEF Receive
  <2>2. f \in Files
    BY DEF Resolved, Carried, Found, Candidates, TypeInv, FilesInv
  <2>3. [of |-> i, at |-> f] \in Item
    BY <2>2 DEF Item
  <2>4. UNCHANGED <<batchVars, batch, seen, tags, doubt>>
    BY <1>8 DEF Receive
  <2> QED BY <1>4, <2>1, <2>3, <2>4, AppendProperties
<1>9. CASE Start
  <2>1. queue' = <<>> /\ batch' = queue /\ UNCHANGED <<tags, doubt>>
    BY <1>9 DEF Start
  <2> QED BY <1>4, <1>9, <2>1, StartType, EmptySeq
<1>10. ASSUME NEW answer \in Answers, Answer(answer)
       PROVE  /\ BatchTypeOK' /\ BatchShape' /\ doubt' \in BOOLEAN
              /\ UNCHANGED <<queue, batch, tags>>
  <2>1. doubt' \in BOOLEAN /\ UNCHANGED <<queue, batch, tags>>
    BY <1>4, <1>10, Zenon DEF Answer
  <2> QED BY <1>10, <2>1, AnswerType
<1>11. CASE Step
  <2>1. UNCHANGED <<queue, batch, seen, tags, doubt, disk>>
    BY <1>11 DEF Step, fileVars
  <2>2. CASE Match
    BY <1>4, <2>1, <2>2, MatchType, MatchShape
  <2>3. CASE PostFails
    <3>1. /\ given' = [k \in DOMAIN request |-> 0] /\ stage' = "done"
          /\ UNCHANGED <<request, results, spare, fallback>>
      BY <2>3 DEF PostFails
    <3>2. given' \in Seq({0} \union DOMAIN results) /\ Len(given') = Len(request)
      <4>1. Len(request) \in Nat /\ DOMAIN request = 1..Len(request)
        BY <1>4, LenProperties DEF BatchTypeOK
      <4>2. given' \in [1..Len(request) -> {0} \union DOMAIN results]
        BY <3>1, <4>1
      <4> QED BY <4>1, <4>2, SeqDef, LenProperties
    <3>3. BatchTypeOK'
      <4>1. Len(request) \in Nat
        BY <1>4, LenProperties DEF BatchTypeOK
      <4> QED BY <1>4, <3>1, <3>2, <4>1 DEF BatchTypeOK
    <3>4. BatchShape'
      BY <1>4, <2>1, <3>1 DEF BatchShape
    <3> QED BY <1>4, <2>1, <3>3, <3>4
  <2> QED BY <1>11, <2>2, <2>3 DEF Step
<1>12. CASE Record
  BY <1>4, <1>12, RecordType DEF Record
<1>13. CASE UNCHANGED taggingVars
  BY <1>4, <1>5, <1>6, <1>13 DEF taggingVars, batchVars
<1> QED BY <1>4, <1>5, <1>6, <1>7, <1>8, <1>9, <1>10, <1>11, <1>12, <1>13 DEF Next

\* Every variable keeps its type.
THEOREM TaggingTypeCorrect == Spec => []TypeOK
<1>1. TypeInv => TypeOK
  BY DEF TypeInv
<1>2. TypeInv /\ [Next]_taggingVars => TypeInv'
  BY NextTypes
<1> QED BY <1>1, <1>2, InitTypes, PTL DEF Spec
-----------------------------------------------------------------------------
(* The matching *)

\* A result that names an image goes to it; where the service answers item by
\* item, item k gets result k, and the fallback index counts the unnamed
\* results among those that the items so far have had.
MatchInv ==
  /\ \A k \in DOMAIN given :
       given[k] # 0 /\ results[given[k]].named => results[given[k]].path = request[k]
  /\ InOrder /\ Clear => \A k \in DOMAIN given : given[k] = k
  /\ stage = "match" /\ InOrder /\ Clear =>
       fallback = RankIn(Unnamed(results), Len(given))

\* The next position adds itself to the kept ones up to it, if it is kept.
LEMMA RankOfNext ==
  ASSUME NEW n \in Nat, NEW K \in SUBSET (1..n), NEW k \in Nat
  PROVE  /\ RankIn(K, 0) = 0 /\ RankIn(K, k) \in Nat
         /\ k + 1 \in K => RankIn(K, k + 1) = RankIn(K, k) + 1
         /\ k + 1 \notin K => RankIn(K, k + 1) = RankIn(K, k)
<1> DEFINE upTo(i) == {j \in K : j <= i}
<1>0. \A j \in K : j \in 1..n /\ j \in Nat /\ j >= 1
  OBVIOUS
<1>1. IsFiniteSet(upTo(k))
  <2>1. IsFiniteSet(1..n)
    BY FS_Interval
  <2>2. upTo(k) \in SUBSET (1..n)
    BY <1>0
  <2> QED BY <2>1, <2>2, FS_Subset
<1>2. upTo(0) = {}
  <2> SUFFICES ASSUME NEW j \in K, j <= 0
               PROVE  FALSE
    OBVIOUS
  <2> QED BY <1>0
<1>A. ASSUME NEW j \in K
      PROVE  j <= k + 1 <=> j <= k \/ j = k + 1
  BY <1>0
<1>3. k + 1 \in K => upTo(k + 1) = upTo(k) \union {k + 1} /\ k + 1 \notin upTo(k)
  <2>1. ~(k + 1 <= k) /\ k + 1 <= k + 1
    OBVIOUS
  <2> QED BY <1>A, <2>1, Zenon
<1>4. k + 1 \notin K => upTo(k + 1) = upTo(k)
  <2>1. k + 1 \notin K => \A j \in K : j <= k + 1 <=> j <= k
    BY <1>A
  <2> QED BY <2>1, Zenon
<1>5. /\ RankIn(K, 0) = Cardinality(upTo(0)) /\ RankIn(K, k) = Cardinality(upTo(k))
      /\ RankIn(K, k + 1) = Cardinality(upTo(k + 1))
  BY DEF RankIn
<1>6. Cardinality(upTo(k) \union {k + 1}) =
        IF k + 1 \in upTo(k) THEN Cardinality(upTo(k)) ELSE Cardinality(upTo(k)) + 1
  BY <1>1, FS_AddElement
<1>7. Cardinality(upTo(k)) \in Nat /\ Cardinality({}) = 0
  BY <1>1, FS_CardinalityType, FS_EmptySet
<1> HIDE DEF upTo
<1> QED BY <1>2, <1>3, <1>4, <1>5, <1>6, <1>7

\* unmatched_results holds the unnamed results in their order.
LEMMA SpareHolds ==
  ASSUME BatchTypeOK, BatchShape, stage = "match"
  PROVE  LET U == Unnamed(results)
         IN /\ U \in SUBSET (1..Len(results)) /\ Len(results) \in Nat
            /\ Len(spare) = Cardinality(U)
            /\ \A r \in DOMAIN spare : spare[r] \in U
            /\ \A k \in U : RankIn(U, k) \in 1..Len(spare) /\ spare[RankIn(U, k)] = k
<1> DEFINE U == Unnamed(results)
           ids == [n \in DOMAIN results |-> n]
           pick(r) == CHOOSE i \in U : RankIn(U, i) = r
<1>1. results \in Seq(Result) /\ spare = Selected(ids, U)
  BY DEF BatchTypeOK, BatchShape
<1>2. Len(results) \in Nat /\ DOMAIN results = 1..Len(results) /\ U \in SUBSET (1..Len(results))
  BY <1>1, LenProperties DEF Unnamed
<1>3. /\ Cardinality(U) \in Nat
      /\ \A i \in U : RankIn(U, i) \in 1..Cardinality(U)
      /\ \A i, j \in U : RankIn(U, i) = RankIn(U, j) => i = j
      /\ \A k \in 1..Cardinality(U) : \E i \in U : RankIn(U, i) = k
  BY <1>2, RanksOfSubset
<1>4. \A r \in 1..Cardinality(U) : pick(r) \in U /\ RankIn(U, pick(r)) = r
  BY <1>3
<1>5. spare = [r \in 1..Cardinality(U) |-> ids[pick(r)]]
  BY <1>1 DEF Selected
<1>6. \A r \in 1..Cardinality(U) : spare[r] = pick(r)
  BY <1>2, <1>4, <1>5
<1>7. spare \in Seq(DOMAIN results) /\ DOMAIN spare = 1..Cardinality(U)
  BY <1>5 DEF BatchTypeOK
<1>8. Len(spare) = Cardinality(U)
  BY <1>3, <1>7, LenProperties
<1>9. \A k \in U : pick(RankIn(U, k)) = k
  BY <1>3, <1>4
<1> HIDE DEF U, ids, pick
<1>10. /\ U \in SUBSET (1..Len(results)) /\ Len(results) \in Nat
       /\ Len(spare) = Cardinality(U)
       /\ \A r \in DOMAIN spare : spare[r] \in U
       /\ \A k \in U : RankIn(U, k) \in 1..Len(spare) /\ spare[RankIn(U, k)] = k
  BY <1>2, <1>3, <1>4, <1>6, <1>7, <1>8, <1>9
<1> QED BY <1>10 DEF U

\* Where the service answers item by item, the next item is named by no result
\* exactly if its own result is without a name, and else by that one alone.
LEMMA NextIsOwn ==
  ASSUME BatchTypeOK, InOrder, Clear, NEW k \in DOMAIN request
  PROVE  /\ Naming(request[k]) = {} => k \in Unnamed(results)
         /\ Naming(request[k]) # {} => k \notin Unnamed(results) /\ LastOf(Naming(request[k])) = k
<1>1. DOMAIN request = DOMAIN results /\ \A n \in DOMAIN results : results[n].path = request[n]
  BY LenProperties DEF BatchTypeOK, InOrder
<1>2. Naming(request[k]) = {} => k \in Unnamed(results)
  BY <1>1 DEF Naming, Unnamed
<1>3. ASSUME Naming(request[k]) # {}
      PROVE  k \notin Unnamed(results) /\ LastOf(Naming(request[k])) = k
  <2>1. PICK n \in DOMAIN results : results[n].named /\ results[n].path = request[k]
    BY <1>3 DEF Naming
  <2>2. Distinct
    BY <2>1 DEF Clear
  <2>3. \A m \in Naming(request[k]) : m = k /\ results[k].named
    BY <1>1, <2>2 DEF Naming, Distinct
  <2> QED BY <1>3, <2>3, NamingIsThere DEF Unnamed
<1> QED BY <1>2, <1>3

LEMMA MatchKeeps ==
  ASSUME BatchTypeOK, BatchShape, MatchInv, Match
  PROVE  MatchInv'
<1> DEFINE L == Len(given)
           U == Unnamed(results)
<1>1. /\ stage = "match" /\ UNCHANGED <<request, results, spare>>
      /\ (InOrder' <=> InOrder) /\ (Clear' <=> Clear) /\ Unnamed(results') = U
  BY DEF Match, MatchNamed, MatchByPosition, MatchNothing, MatchEnds, Pending,
         InOrder, Clear, Distinct
<1>2. /\ L \in Nat /\ DOMAIN given = 1..L /\ Len(request) \in Nat
      /\ DOMAIN request = 1..Len(request) /\ given \in Seq({0} \union DOMAIN results)
      /\ fallback \in Nat
  BY LenProperties DEF BatchTypeOK
<1>3. /\ U \in SUBSET (1..Len(results)) /\ Len(results) \in Nat
      /\ \A r \in DOMAIN spare : spare[r] \in U
      /\ \A k \in U : RankIn(U, k) \in 1..Len(spare) /\ spare[RankIn(U, k)] = k
      /\ Len(spare) \in Nat /\ DOMAIN spare = 1..Len(spare)
  BY <1>1, SpareHolds, LenProperties DEF BatchTypeOK
<1>4. /\ RankIn(U, L) \in Nat
      /\ L + 1 \in U => RankIn(U, L + 1) = RankIn(U, L) + 1
      /\ L + 1 \notin U => RankIn(U, L + 1) = RankIn(U, L)
  BY <1>2, <1>3, RankOfNext
<1> HIDE DEF U
<1>5. ASSUME NEW r \in {0} \union DOMAIN results, L + 1 <= Len(request),
             given' = Append(given, r), stage' = "match",
             r # 0 /\ results[r].named => results[r].path = request[L + 1],
             InOrder /\ Clear => r = L + 1 /\ fallback' = RankIn(U, L + 1)
      PROVE  MatchInv'
  <2>1. /\ DOMAIN given' = 1..(L + 1) /\ Len(given') = L + 1 /\ given'[L + 1] = r
        /\ \A k \in 1..L : given'[k] = given[k]
    BY <1>2, <1>5, AppendProperties, LenProperties
  <2>2. \A k \in DOMAIN given' : k = L + 1 \/ k \in DOMAIN given
    BY <1>2, <2>1
  <2> QED BY <1>1, <1>2, <1>5, <2>1, <2>2 DEF MatchInv
<1>6. CASE MatchNamed
  <2>1. /\ L + 1 <= Len(request) /\ Naming(request[L + 1]) # {} /\ stage' = "match"
        /\ given' = Append(given, LastOf(Naming(request[L + 1]))) /\ fallback' = fallback
    BY <1>1, <1>6 DEF MatchNamed, Pending, NextItem
  <2>2. L + 1 \in DOMAIN request
    BY <1>2, <2>1
  <2>3. /\ LastOf(Naming(request[L + 1])) \in DOMAIN results
        /\ results[LastOf(Naming(request[L + 1]))].path = request[L + 1]
    BY <2>1, NamingIsThere DEF Naming
  <2>4. ASSUME InOrder, Clear
        PROVE  LastOf(Naming(request[L + 1])) = L + 1 /\ fallback' = RankIn(U, L + 1)
    BY <1>1, <1>4, <2>1, <2>2, <2>4, NextIsOwn DEF U, MatchInv
  <2> QED BY <1>5, <2>1, <2>3, <2>4
<1>7. CASE MatchByPosition
  <2>1. /\ L + 1 <= Len(request) /\ Naming(request[L + 1]) = {} /\ stage' = "match"
        /\ fallback + 1 <= Len(spare) /\ given' = Append(given, spare[fallback + 1])
        /\ fallback' = fallback + 1
    BY <1>1, <1>7 DEF MatchByPosition, Pending, NextItem, FallbackOf, Advance
  <2>2. L + 1 \in DOMAIN request
    BY <1>2, <2>1
  <2>3. spare[fallback + 1] \in U
    BY <1>2, <1>3, <2>1
  <2>4. spare[fallback + 1] \in DOMAIN results /\ ~results[spare[fallback + 1]].named
    BY <2>3 DEF U, Unnamed
  <2>5. ASSUME InOrder, Clear
        PROVE  spare[fallback + 1] = L + 1 /\ fallback' = RankIn(U, L + 1)
    <3>1. L + 1 \in U
      BY <2>1, <2>2, <2>5, NextIsOwn DEF U
    <3>2. RankIn(U, L + 1) = fallback + 1
      BY <1>1, <1>4, <2>5, <3>1 DEF MatchInv, U
    <3> QED BY <1>3, <2>1, <3>1, <3>2
  <2> QED BY <1>5, <2>1, <2>4, <2>5
<1>8. CASE MatchNothing
  <2>1. /\ L + 1 <= Len(request) /\ Naming(request[L + 1]) = {} /\ stage' = "match"
        /\ fallback + 1 > Len(spare) /\ given' = Append(given, 0)
    BY <1>1, <1>8 DEF MatchNothing, Pending, NextItem, FallbackOf
  <2>2. L + 1 \in DOMAIN request
    BY <1>2, <2>1
  <2>3. ~(InOrder /\ Clear)
    <3> SUFFICES ASSUME InOrder, Clear
                 PROVE  FALSE
      OBVIOUS
    <3>1. L + 1 \in U
      BY <2>1, <2>2, NextIsOwn DEF U
    <3>2. RankIn(U, L + 1) = fallback + 1
      BY <1>1, <1>4, <3>1 DEF MatchInv, U
    <3>3. RankIn(U, L + 1) \in 1..Len(spare)
      BY <1>3, <3>1
    <3> QED BY <1>2, <1>3, <2>1, <3>2, <3>3
  <2> QED BY <1>5, <2>1, <2>3
<1>9. CASE MatchEnds
  BY <1>1, <1>9 DEF MatchEnds, MatchInv
<1> QED BY <1>6, <1>7, <1>8, <1>9 DEF Match

LEMMA NextMatch ==
  ASSUME TypeInv, MatchInv, [Next]_taggingVars
  PROVE  MatchInv'
<1>1. BatchTypeOK /\ BatchShape /\ TypeInv'
  BY NextTypes DEF TypeInv, TypeOK
<1>2. given' = <<>> /\ stage' # "match" => MatchInv'
  BY DEF MatchInv
<1>3. UNCHANGED batchVars => MatchInv'
  BY DEF MatchInv, batchVars, InOrder, Clear, Distinct, Unnamed
<1>4. CASE Log \/ (\E i \in Images : Receive(i)) \/ UNCHANGED taggingVars
  BY <1>3, <1>4 DEF Log, Receive, taggingVars, batchVars
<1>5. CASE Start
  <2>1. stage = "idle" /\ stage' \in {"done", "post"} /\ UNCHANGED given
    BY <1>5 DEF Start, StartBatch
  <2>2. given = <<>>
    BY <1>1, <2>1 DEF BatchShape
  <2> QED BY <1>2, <2>1, <2>2
<1>6. ASSUME NEW answer \in Answers, Answer(answer)
      PROVE  MatchInv'
  <2>1. given' = <<>> /\ fallback' = 0
    BY <1>1, <1>6 DEF Answer, Answered, BatchShape
  <2>2. Len(results') \in Nat /\ Unnamed(results') \in SUBSET (1..Len(results'))
    <3>1. results' \in Seq(Result)
      BY <1>1 DEF TypeInv, TypeOK, BatchTypeOK
    <3> QED BY <3>1, LenProperties DEF Unnamed
  <2>3. RankIn(Unnamed(results'), 0) = 0 /\ Len(<<>>) = 0
    BY <2>2, RankOfNext, EmptySeq
  <2> QED BY <2>1, <2>3 DEF MatchInv
<1>7. CASE Step
  <2>1. CASE Match
    BY <1>1, <2>1, MatchKeeps
  <2>2. CASE PostFails
    <3>1. /\ given' = [k \in DOMAIN request |-> 0] /\ stage = "post" /\ stage' = "done"
          /\ UNCHANGED <<request, results>>
      BY <2>2 DEF PostFails
    <3>2. results = <<>> /\ Len(results) = 0 /\ Len(request) \in Nat
          /\ DOMAIN request = 1..Len(request)
      BY <1>1, <3>1, EmptySeq, LenProperties DEF BatchShape, BatchTypeOK
    <3>3. InOrder' => given' = <<>>
      BY <3>1, <3>2 DEF InOrder
    <3> QED BY <3>1, <3>3 DEF MatchInv
  <2> QED BY <1>7, <2>1, <2>2 DEF Step
<1>8. CASE Record
  BY <1>2, <1>8 DEF Record, Return
<1> QED BY <1>4, <1>5, <1>6, <1>7, <1>8 DEF Next

LEMMA InitMatch == Init => MatchInv
BY DEF Init, BatchInit, MatchInv

LEMMA MatchIsOwn == TypeInv /\ MatchInv => ResultsAreOwn
<1> SUFFICES ASSUME TypeInv, MatchInv, NEW k \in DOMAIN given
             PROVE  /\ InOrder /\ Clear => given[k] # 0
                    /\ given[k] # 0 /\ ((InOrder /\ Clear) \/ results[given[k]].named) =>
                         results[given[k]].path = request[k]
  BY DEF ResultsAreOwn
<1>1. k \in 1..Len(given) /\ Len(given) \in Nat /\ Len(given) <= Len(request)
      /\ Len(request) \in Nat
  BY LenProperties DEF TypeInv, TypeOK, BatchTypeOK
<1>2. ASSUME InOrder, Clear
      PROVE  given[k] = k /\ k \in DOMAIN results /\ k # 0
  <2>1. given[k] = k
    BY <1>2 DEF MatchInv
  <2>2. DOMAIN results = 1..Len(results) /\ Len(results) = Len(request)
    BY <1>2, LenProperties DEF InOrder, TypeInv, TypeOK, BatchTypeOK
  <2> QED BY <1>1, <2>1, <2>2
<1> QED BY <1>2 DEF InOrder, MatchInv

\* Every item gets the answer for its own image, whichever of its results the
\* service names, and no item one that names another image.
THEOREM ItemsGetTheirResults == Spec => []ResultsAreOwn
<1>1. TypeInv /\ MatchInv /\ [Next]_taggingVars => TypeInv' /\ MatchInv'
  BY NextTypes, NextMatch
<1> QED BY <1>1, InitTypes, InitMatch, MatchIsOwn, PTL DEF Spec

-----------------------------------------------------------------------------
(* From the picture to its tags *)

\* The items whose file has the picture of their image.
Good == {item \in Item : item.at \in DOMAIN disk /\ disk[item.at] = Bytes[item.of]}

GoodInv ==
  /\ overwritten = {} =>
       /\ queue \in Seq(Good) /\ batch \in Seq(Good)
       /\ \A n \in DOMAIN results : seen[n] = disk[results[n].path]
  /\ \A n \in DOMAIN results : results[n].path \in DOMAIN disk
  /\ ~doubt => results = <<>> \/ (InOrder /\ Clear) \/ Unnamed(results) = {}
  /\ TagsAreOfImage

\* Without doubt, what an item got is the answer for its image.
LEMMA GivenIsOwn ==
  ASSUME TypeInv, MatchInv, GoodInv, ~doubt, NEW k \in DOMAIN given, given[k] # 0
  PROVE  given[k] \in DOMAIN results /\ results[given[k]].path = request[k]
<1>1. given[k] \in DOMAIN results /\ results # <<>>
  <2>1. given \in Seq({0} \union DOMAIN results)
    BY DEF TypeInv, TypeOK, BatchTypeOK
  <2>2. given[k] \in {0} \union DOMAIN results
    BY <2>1, Positions
  <2> QED BY <2>2
<1>2. CASE InOrder /\ Clear
  BY <1>1, <1>2 DEF InOrder, MatchInv
<1>3. CASE Unnamed(results) = {}
  BY <1>1, <1>3 DEF Unnamed, MatchInv
<1> QED BY <1>1, <1>2, <1>3 DEF GoodInv

\* What is recorded under an image is the picture in its file.
LEMMA RecordedIsOwn ==
  ASSUME TypeInv, MatchInv, GoodInv, overwritten = {}, ~doubt,
         NEW k \in DOMAIN batch, Taken(batch[k]) # 0
  PROVE  seen[Taken(batch[k])] = Bytes[batch[k].of]
<1>1. PICK l \in DOMAIN given : request[l] = batch[k].at /\ Taken(batch[k]) = given[l]
  BY TakenIsGiven DEF TypeInv, TypeOK
<1>2. given[l] \in DOMAIN results /\ results[given[l]].path = batch[k].at
  BY <1>1, GivenIsOwn
<1>3. batch[k] \in Good
  <2>1. batch \in Seq(Good)
    BY DEF GoodInv
  <2> QED BY <2>1, Positions
<1> QED BY <1>1, <1>2, <1>3 DEF GoodInv, Good

LEMMA NextGood ==
  ASSUME TypeInv, MatchInv, GoodInv, [Next]_taggingVars
  PROVE  GoodInv'
<1>1. DiskGrows /\ TypeInv'
  BY NextFiles, NextTypes DEF TypeInv
<1>2. overwritten' = {} => overwritten = {} /\ Good \subseteq Good'
  BY <1>1 DEF Good, DiskGrows
<1>3. overwritten' = {} /\ overwritten = {} =>
        /\ queue \in Seq(Good) /\ batch \in Seq(Good)
        /\ queue \in Seq(Good') /\ batch \in Seq(Good')
  <2> SUFFICES ASSUME overwritten' = {}, overwritten = {}
               PROVE  /\ queue \in Seq(Good) /\ batch \in Seq(Good)
                      /\ queue \in Seq(Good') /\ batch \in Seq(Good')
    OBVIOUS
  <2>1. ASSUME NEW s, s \in Seq(Good)
        PROVE  s \in Seq(Good')
    <3>1. s \in [1..Len(s) -> Good'] /\ Len(s) \in Nat
      BY <1>2, <2>1, SeqDef, LenProperties, ElementOfSeq
    <3> QED BY <3>1, SeqDef
  <2> QED BY <2>1 DEF GoodInv
<1>4. ASSUME UNCHANGED <<results, request, seen, doubt, tags>>,
             overwritten' = {} => queue' \in Seq(Good') /\ batch' \in Seq(Good')
      PROVE  GoodInv'
  <2>1. (InOrder' <=> InOrder) /\ (Clear' <=> Clear) /\ Unnamed(results') = Unnamed(results)
    BY <1>4 DEF InOrder, Clear, Distinct
  <2>2. \A n \in DOMAIN results' : results'[n].path \in DOMAIN disk'
    BY <1>1, <1>4 DEF GoodInv, DiskGrows
  <2>3. overwritten' = {} => \A n \in DOMAIN results' : seen'[n] = disk'[results'[n].path]
    BY <1>1, <1>4 DEF GoodInv, DiskGrows
  <2>4. TagsAreOfImage'
    BY <1>2, <1>4 DEF GoodInv, TagsAreOfImage
  <2> QED BY <1>4, <2>1, <2>2, <2>3, <2>4 DEF GoodInv
<1>5. CASE Log \/ Step \/ UNCHANGED taggingVars
  <2>1. UNCHANGED <<results, request, seen, doubt, tags, queue, batch>>
    BY <1>5 DEF Log, Step, batchVars, taggingVars, PostFails, Match, MatchNamed,
                MatchByPosition, MatchNothing, MatchEnds
  <2> QED BY <1>2, <1>3, <1>4, <2>1
<1>6. ASSUME NEW i \in Images, Receive(i)
      PROVE  GoodInv'
  <2>1. /\ UNCHANGED <<results, request, seen, doubt, tags, batch, overwritten, disk>>
        /\ Saved(i)
    BY <1>6 DEF Receive, batchVars, fileVars
  <2>2. PICK f \in Resolved(i) : queue' = Append(queue, [of |-> i, at |-> f])
    BY <1>6 DEF Receive
  <2>3. ASSUME overwritten' = {}
        PROVE  queue' \in Seq(Good')
    <3>1. f \in Files /\ f \in DOMAIN disk /\ disk[f] = Bytes[i]
      <4>1. f \in DOMAIN disk
        BY DEF Resolved, Carried, Found, Candidates
      <4>2. disk[f] = Bytes[i]
        BY <2>1, <2>3, FilesAreFound DEF FoundIsOwn, TypeInv
      <4> QED BY <4>1, <4>2 DEF TypeInv, FilesInv
    <3>2. [of |-> i, at |-> f] \in Good'
      BY <2>1, <3>1 DEF Good, Item
    <3> QED BY <1>3, <2>1, <2>2, <2>3, <3>2, AppendProperties
  <2> QED BY <1>2, <1>3, <1>4, <2>1, <2>3
<1>7. CASE Start
  <2>1. /\ UNCHANGED <<results, seen, doubt, tags, overwritten, disk>>
        /\ queue' = <<>> /\ batch' = queue /\ results = <<>>
    BY <1>7 DEF Start, StartBatch, fileVars, TypeInv, BatchShape
  <2>2. overwritten' = {} => queue' \in Seq(Good') /\ batch' \in Seq(Good')
    BY <1>2, <1>3, <2>1, EmptySeq
  <2>3. DOMAIN results' = {} /\ TagsAreOfImage'
    BY <2>1 DEF GoodInv, TagsAreOfImage
  <2> QED BY <2>1, <2>2, <2>3 DEF GoodInv
<1>8. ASSUME NEW answer \in Answers, Answer(answer)
      PROVE  GoodInv'
  <2>1. /\ results' = answer /\ seen' = [n \in DOMAIN answer |-> disk[answer[n].path]]
        /\ doubt' = (doubt \/ ~((InOrder /\ Clear)' \/ Unnamed(answer) = {}))
        /\ UNCHANGED <<queue, batch, tags, overwritten, disk>>
    BY <1>8 DEF Answer, Answered, fileVars
  <2>2. \A n \in DOMAIN answer : answer[n].path \in DOMAIN disk
    BY <1>8, AnswerType
  <2>3. TagsAreOfImage'
    BY <2>1 DEF GoodInv, TagsAreOfImage
  <2>4. ~doubt' => (InOrder /\ Clear)' \/ Unnamed(results') = {}
    BY <2>1, Zenon
  <2>5. overwritten' = {} => queue' \in Seq(Good') /\ batch' \in Seq(Good')
    BY <1>2, <1>3, <2>1
  <2>6. \A n \in DOMAIN results' : seen'[n] = disk'[results'[n].path]
                                 /\ results'[n].path \in DOMAIN disk'
    BY <2>1, <2>2
  <2> QED BY <2>3, <2>4, <2>5, <2>6, Zenon DEF GoodInv
<1>9. CASE Record
  <2>1. /\ results' = <<>> /\ batch' = <<>> /\ UNCHANGED <<doubt, overwritten, disk>>
    BY <1>9 DEF Record, Return, fileVars
  <2>2. PICK again \in SUBSET (DOMAIN batch) : queue' = Selected(batch, again) \o queue
    BY <1>9, RecordResult
  <2>3. ASSUME overwritten' = {}
        PROVE  queue' \in Seq(Good') /\ batch' \in Seq(Good')
    <3>1. queue \in Seq(Good') /\ batch \in Seq(Good')
      BY <1>2, <1>3, <2>3
    <3>2. Selected(batch, again) \in Seq(Good')
      BY <3>1, SelectedItems
    <3> QED BY <2>1, <2>2, <3>1, <3>2, ConcatProperties, EmptySeq
  <2>4. TagsAreOfImage'
    <3> SUFFICES ASSUME overwritten = {}, ~doubt, NEW i \in Images
                 PROVE  tags'[i] \in {"none", Bytes[i]}
      BY <2>1 DEF TagsAreOfImage
    <3>1. CASE tags'[i] = tags[i]
      BY <3>1 DEF GoodInv, TagsAreOfImage
    <3>2. ASSUME NEW k \in DOMAIN batch, batch[k].of = i, Taken(batch[k]) # 0,
                 tags'[i] = seen[Taken(batch[k])]
          PROVE  tags'[i] = Bytes[i]
      BY <3>2, RecordedIsOwn
    <3> QED BY <1>9, <3>1, <3>2, RecordResult
  <2> QED BY <2>1, <2>3, <2>4 DEF GoodInv
<1> QED BY <1>5, <1>6, <1>7, <1>8, <1>9 DEF Next

LEMMA InitGood == Init => GoodInv
<1> SUFFICES ASSUME Init
             PROVE  GoodInv
  OBVIOUS
<1>1. queue \in Seq(Good) /\ batch \in Seq(Good)
  <2>1. queue = <<>> /\ batch = <<>>
    BY DEF Init
  <2> QED BY <2>1, EmptySeq
<1> QED BY <1>1 DEF Init, BatchInit, GoodInv, TagsAreOfImage

\* The tags recorded for an image are those of its own picture, through all the
\* hand-overs by name, hash, path and position, as long as no image is written
\* over another and no answer leaves open which result is for whom.
THEOREM TagsAreTheirs == Spec => []TagsAreOfImage
<1>1. TypeInv /\ MatchInv /\ GoodInv /\ [Next]_taggingVars => TypeInv' /\ MatchInv' /\ GoodInv'
  BY NextTypes, NextMatch, NextGood
<1>2. GoodInv => TagsAreOfImage
  BY DEF GoodInv
<1> QED BY <1>1, <1>2, InitTypes, InitMatch, InitGood, PTL DEF Spec
=============================================================================
