----------------------------- MODULE ImageFiles ------------------------------
(***************************************************************************)
(* The image volume the two services share.  The logger writes a picture   *)
(* under <chat>/<second>_<message id>_<seq>_<file name> and publishes a    *)
(* task that says which chat, message, seq and SHA-256 it has, not where   *)
(* it is (build_image_save_path of storage.py, build_tagger_task_payload); *)
(* the processor decodes it (contracts/chat_image_task.py) and looks for   *)
(* the file by a pattern (_resolve_task_image_path of tagger_worker.py).   *)
(*                                                                         *)
(* Strings are abstract: a Name is everything of a path but the second,    *)
(* and Matches says which names the pattern *_<message id>_<seq>_* of an   *)
(* image finds, its own and those whose file names happen to look like it. *)
(***************************************************************************)
EXTENDS Naturals, FiniteSets

CONSTANTS
  Images,
  Names,
  NameOf,        \* NameOf[i]: directory, message id, seq and file name
  Bytes,         \* Bytes[i]: the picture, and so its sha256
  Matches,       \* Matches[i]: the names that the pattern of i finds
  Legacy,        \* the images whose task carries its image_path (version 1)
  LastSecond     \* bound: of the clock in the file names

ASSUME NamesAssumption == /\ NameOf \in [Images -> Names]
                          /\ Matches \in [Images -> SUBSET Names]
                          /\ \A i \in Images : NameOf[i] \in Matches[i]
ASSUME ImagesAssumption == IsFiniteSet(Images)
ASSUME ClockAssumption == LastSecond \in Nat

Files    == Names \X (0..LastSecond)
Pictures == {Bytes[i] : i \in Images}

VARIABLES
  now,           \* the clock, in seconds
  disk,          \* disk[f]: the picture in each file there is
  newest,        \* the files in the order of their mtime, as ranks
  savedAt,       \* the file each image was written to
  overwritten    \* history: the images whose file another image has taken

fileVars == <<now, disk, newest, savedAt, overwritten>>

Nowhere == <<>>

FilesInit == /\ now = 0
             /\ disk = <<>> /\ newest = <<>>
             /\ savedAt = [i \in Images |-> Nowhere]
             /\ overwritten = {}

Tick == now < LastSecond /\ now' = now + 1
        /\ UNCHANGED <<disk, newest, savedAt, overwritten>>

Saved(i) == savedAt[i] # Nowhere

\* f |-> v added to a function, or put in place of what it had there.
With(map, f, v) == [g \in DOMAIN map \union {f} |-> IF g = f THEN v ELSE map[g]]

\* write_bytes, to the path that build_image_save_path has built some time
\* before.  The name is not checked to be free.
SaveFile(i) ==
  /\ ~Saved(i)
  /\ \E second \in 0..now :
       LET f == <<NameOf[i], second>>
       IN /\ disk' = With(disk, f, Bytes[i])
          /\ newest' = With(newest, f, Cardinality({j \in Images : Saved(j)}))
          /\ savedAt' = [savedAt EXCEPT ![i] = f]
          /\ overwritten' = overwritten \union {j \in Images : savedAt[j] = f}
  /\ UNCHANGED now

-----------------------------------------------------------------------------
(* decode_task and _resolve_task_image_path *)

Candidates(i) == {f \in DOMAIN disk : f[1] \in Matches[i]}

\* By the hash, or else the candidate that was modified last.
Found_Newest(i) ==
  {f \in Candidates(i) : \A g \in Candidates(i) : newest[g] <= newest[f]}
Found(i) ==
  LET same == {f \in Candidates(i) : disk[f] = Bytes[i]}
  IN IF same # {} THEN same
     ELSE {f \in Candidates(i) : \A g \in Candidates(i) : newest[g] <= newest[f]}

\* The image_path that decode_task finds in the task.
Carried(i) == IF i \in Legacy THEN {savedAt[i]} ELSE {}

\* The files the processor may take for image i; none, and the message is
\* given back.
Resolved(i) == LET there == Carried(i) \intersect DOMAIN disk
               IN IF there # {} THEN there ELSE Found(i)
=============================================================================
