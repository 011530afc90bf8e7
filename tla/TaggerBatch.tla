----------------------------- MODULE TaggerBatch -----------------------------
(***************************************************************************)
(* _run_http_tagger_batch of tagger_pipeline.py: one request to the tagger *)
(* service for the images of a batch, and which of the results that come   *)
(* back is taken for which image.  A result may name the image_path it is  *)
(* for; one that does not is taken by position, by the next item that no   *)
(* result names.                                                           *)
(*                                                                         *)
(* A result is known by its position in the answer.  Whether it reports    *)
(* tags or an error is read after the matching, by _normalize_batch_result.*)
(*                                                                         *)
(* An operator with an underscore in its name is a faulty variant of the   *)
(* operator that follows it; no behaviour uses one.                        *)
(***************************************************************************)
EXTENDS Naturals, Sequences, FiniteSets, Selections

CONSTANT Paths           \* image paths

\* path is the image the service computed the result from; `named` says that
\* the result carries it as its image_path.
Result == [path : Paths, named : BOOLEAN]

VARIABLES
  request,       \* request_image_paths: the images of the batch that are there
  results,       \* raw_results
  spare,         \* unmatched_results
  fallback,      \* fallback_index
  given,         \* the result taken for each item of the request, 0 for none
  stage          \* "idle", "post", "match", "done"

batchVars == <<request, results, spare, fallback, given, stage>>

BatchInit == /\ request = <<>> /\ results = <<>> /\ spare = <<>>
             /\ fallback = 0 /\ given = <<>>
             /\ stage = "idle"

-----------------------------------------------------------------------------

\* Items without a file fail at once; when none is left nothing is posted.
StartBatch(batch, present) ==
  /\ stage = "idle"
  /\ request' = Selected(batch, {k \in DOMAIN batch : batch[k] \in present})
  /\ stage' = IF request' = <<>> THEN "done" ELSE "post"
  /\ UNCHANGED <<results, spare, fallback, given>>

Unnamed(answer) == {n \in DOMAIN answer : ~answer[n].named}

\* An answer of another length is only logged.
Answered(answer) ==
  /\ stage = "post"
  /\ results' = answer
  /\ spare' = Selected([n \in DOMAIN answer |-> n], Unnamed(answer))
  /\ stage' = "match"
  /\ UNCHANGED <<request, fallback, given>>

\* A timeout, a status of 400 or more, an answer that is no list of results:
\* run_tagger_once takes every item of the batch for failed.
PostFails ==
  /\ stage = "post"
  /\ given' = [k \in DOMAIN request |-> 0]
  /\ stage' = "done"
  /\ UNCHANGED <<request, results, spare, fallback>>

\* raw_results_by_path: of the results that name a path the last one stays.
Naming(path) == {n \in DOMAIN results : results[n].named /\ results[n].path = path}
LastOf(positions) == CHOOSE n \in positions : \A m \in positions : m <= n

NextItem == Len(given) + 1
Pending  == stage = "match" /\ NextItem <= Len(request)

MatchNamed ==
  /\ Pending
  /\ Naming(request[NextItem]) # {}
  /\ given' = Append(given, LastOf(Naming(request[NextItem])))
  /\ UNCHANGED <<request, results, spare, fallback, stage>>

\* The result at fallback_index, which moves on.
FallbackOf_Position == NextItem
FallbackOf == fallback + 1
Advance == fallback' = fallback + 1

MatchByPosition ==
  /\ Pending
  /\ Naming(request[NextItem]) = {}
  /\ FallbackOf <= Len(spare)
  /\ given' = Append(given, spare[FallbackOf])
  /\ Advance
  /\ UNCHANGED <<request, results, spare, stage>>

\* "missing result from tagger service"
MatchNothing ==
  /\ Pending
  /\ Naming(request[NextItem]) = {}
  /\ FallbackOf > Len(spare)
  /\ given' = Append(given, 0)
  /\ UNCHANGED <<request, results, spare, fallback, stage>>

MatchEnds ==
  /\ stage = "match" /\ Len(given) = Len(request)
  /\ stage' = "done"
  /\ UNCHANGED <<request, results, spare, fallback, given>>

\* The call returns and its locals are gone.
Return == stage = "done" /\ stage' = "idle"
          /\ request' = <<>> /\ results' = <<>> /\ spare' = <<>>
          /\ fallback' = 0 /\ given' = <<>>

Match == MatchNamed \/ MatchByPosition \/ MatchNothing \/ MatchEnds

-----------------------------------------------------------------------------
(* Properties *)

\* Every variable has its type.
BatchTypeOK == /\ request \in Seq(Paths)
               /\ results \in Seq(Result)
               /\ spare \in Seq(DOMAIN results)
               /\ fallback \in 0..Len(spare)
               /\ given \in Seq({0} \union DOMAIN results)
               /\ Len(given) <= Len(request)
               /\ stage \in {"idle", "post", "match", "done"}

\* The service answers item by item; it may leave names out as long as that
\* leaves no doubt: no image is asked for twice, or no result has a name.
InOrder == /\ Len(results) = Len(request)
           /\ \A n \in DOMAIN results : results[n].path = request[n]
Distinct == \A j, k \in DOMAIN request : request[j] = request[k] => j = k
Clear    == Distinct \/ \A n \in DOMAIN results : ~results[n].named

\* Whichever of its results the service names, every item gets the answer for
\* its own image, although named and unnamed ones are matched in two ways; and
\* no item gets a result that names another image, not when results are left
\* out, doubled or reordered either.
ResultsAreOwn ==
  stage = "match" =>
    \A k \in DOMAIN given :
      /\ InOrder /\ Clear => given[k] # 0
      /\ given[k] # 0 /\ ((InOrder /\ Clear) \/ results[given[k]].named) =>
           results[given[k]].path = request[k]
=============================================================================
