----------------------------- MODULE Selections -----------------------------
(***************************************************************************)
(* The list comprehension [x for x in items if ...] as a function: what    *)
(* SelectSeq returns, defined without recursion so that it can be proved   *)
(* about.                                                                  *)
(***************************************************************************)
EXTENDS Naturals, FiniteSets

\* The number of kept positions up to i.
RankIn(keep, i) == Cardinality({j \in keep : j <= i})

\* The items at the positions in `keep`, in their order: position k of the
\* result is the position of `items` that has k kept positions up to it.
Selected(items, keep) ==
  [k \in 1..Cardinality(keep) |-> items[CHOOSE i \in keep : RankIn(keep, i) = k]]
=============================================================================
