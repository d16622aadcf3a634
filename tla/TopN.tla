--------------------------------- MODULE TopN ---------------------------------
(****************************************************************************)
(* The bounded heap in which eleven of the queries keep their first kTopN   *)
(* rows.  Each of them orders its rows by a comparer over at most three     *)
(* columns, scans the graph, and offers row after row to a priority queue   *)
(* whose top is the last of the rows it holds; a row offered to a full heap *)
(* is compared with the top and takes its place or is dropped.  At the end  *)
(* the heap is emptied and the rows are output in the reverse order.        *)
(*                                                                          *)
(* The engine lists edges in the order of its storage, so the rows may be   *)
(* offered in any order.  A row stands for its sort columns; the last of a  *)
(* row is no column of most comparers, and tells apart rows that are equal  *)
(* to them: a message met twice, over two friendships with its author.      *)
(****************************************************************************)
EXTENDS Integers, Sequences, FiniteSets

CONSTANTS Queries,     \* the queries to run
          Row,         \* the rows they may meet
          kTopN        \* the limit of the query

ASSUME RowAssumption == Row \subseteq Nat \X Nat \X Nat
ASSUME LimitAssumption == kTopN \in Nat \ {0}

(****************************************************************************)
(* Of every query: the order of its comparer, column by column; the order   *)
(* by which a row offered to a full heap is compared with the top; and      *)
(* whether that is done with a copy of the top's key.                       *)
(****************************************************************************)
ByKeyThenId == <<"desc", "asc">>

Heap(comparer, admission, cached) ==
  [comparer |-> comparer, admission |-> admission, cached |-> cached]

IC2  == Heap(ByKeyThenId, ByKeyThenId, TRUE)     \* messages by date and id
IC3  == Heap(ByKeyThenId, ByKeyThenId, FALSE)    \* persons by total and id
IC4  == Heap(ByKeyThenId, ByKeyThenId, FALSE)    \* tags by count and name
IC6  == Heap(ByKeyThenId, ByKeyThenId, FALSE)    \* tags by count and name
IC7  == Heap(ByKeyThenId, ByKeyThenId, FALSE)    \* likes by date and person
IC8  == Heap(<<"desc", "desc">>, ByKeyThenId, FALSE)   \* replies by date and id
IC9  == Heap(ByKeyThenId, ByKeyThenId, FALSE)    \* messages by date and id
IC10 == Heap(ByKeyThenId, ByKeyThenId, TRUE)     \* persons by score and id
IC11 == LET order == <<"asc", "asc", "desc">>    \* jobs by year, person, name
        IN Heap(order, order, FALSE)
IC12 == Heap(ByKeyThenId, ByKeyThenId, TRUE)     \* persons by count and id
IS2  == Heap(<<"desc", "desc">>, ByKeyThenId, FALSE)   \* messages by date and id

ASSUME QueriesAssumption ==
  Queries \subseteq {IC2, IC3, IC4, IC6, IC7, IC8, IC9, IC10, IC11, IC12, IS2}

Less(direction, a, b) == IF direction = "asc" THEN a < b ELSE b < a

Precedes(order, r, t) ==
  \E k \in 1..Len(order) : /\ Less(order[k], r[k], t[k])
                           /\ \A l \in 1..(k-1) : r[l] = t[l]

------------------------------------------------------------------------------
VARIABLES
  query,
  rows,        \* all the rows the scan meets
  rest,        \* those not yet offered
  heap,        \* pq
  floor,       \* min_date_ms, min_score, min_count
  results      \* the rows output

vars == <<query, rows, rest, heap, floor, results>>

TypeOK ==
  /\ query \in Queries
  /\ rows \subseteq Row
  /\ rest \subseteq rows
  /\ heap \subseteq rows
  /\ floor \in Nat
  /\ results \in Seq(Row)

(* Flawed on purpose: the copied key starts below every key.                *)
InitNoFloor ==
  /\ query \in Queries
  /\ rows \in SUBSET Row
  /\ rest = rows
  /\ heap = {}
  /\ floor = -1
  /\ results = << >>

Init ==
  /\ query \in Queries
  /\ rows \in SUBSET Row
  /\ rest = rows
  /\ heap = {}
  /\ floor = 0
  /\ results = << >>

(* One of the last rows of R: pq.top() of a heap with these rows.           *)
LastOf(R) == {w \in R : \A r \in R : ~ Precedes(query.comparer, w, r)}

IsTop(w) == w \in LastOf(heap)

Full == Cardinality(heap) = kTopN

(* The copy is taken when the heap becomes full and when a row with a       *)
(* greater key comes in.                                                    *)
CopyFloor ==
  IF query.cached /\ Cardinality(heap') = kTopN
  THEN \E w \in LastOf(heap') : floor' = w[1]
  ELSE floor' = floor

Push(r) ==
  /\ r \in rest
  /\ Cardinality(heap) < kTopN
  /\ heap' = heap \cup {r}
  /\ rest' = rest \ {r}
  /\ CopyFloor
  /\ UNCHANGED <<query, rows, results>>

(* Flawed on purpose: the identifiers of equal keys are not compared.       *)
AdmitsKeyOnly(r, w) ==
  IF query.cached THEN r[1] > floor ELSE Precedes(query.admission, r, w)

Admits(r, w) ==
  IF query.cached
  THEN r[1] > floor \/ (r[1] = floor /\ r[2] < w[2])
  ELSE Precedes(query.admission, r, w)

(* Flawed on purpose: the copy of the key is not renewed.                   *)
ReplaceStaleFloor(r, w) ==
  /\ r \in rest
  /\ Full
  /\ IsTop(w)
  /\ Admits(r, w)
  /\ heap' = (heap \ {w}) \cup {r}
  /\ rest' = rest \ {r}
  /\ UNCHANGED <<query, rows, floor, results>>

Replace(r, w) ==
  /\ r \in rest
  /\ Full
  /\ IsTop(w)
  /\ Admits(r, w)
  /\ heap' = (heap \ {w}) \cup {r}
  /\ rest' = rest \ {r}
  /\ IF query.cached /\ r[1] > floor THEN CopyFloor ELSE floor' = floor
  /\ UNCHANGED <<query, rows, results>>

Drop(r, w) ==
  /\ r \in rest
  /\ Full
  /\ IsTop(w)
  /\ ~ Admits(r, w)
  /\ rest' = rest \ {r}
  /\ UNCHANGED <<query, rows, heap, floor, results>>

(* Flawed on purpose: the rows are not reversed.                            *)
OutputFromTheTop(w) ==
  /\ rest = {}
  /\ IsTop(w)
  /\ heap' = heap \ {w}
  /\ results' = results \o <<w>>
  /\ UNCHANGED <<query, rows, rest, floor>>

Output(w) ==
  /\ rest = {}
  /\ IsTop(w)
  /\ heap' = heap \ {w}
  /\ results' = <<w>> \o results
  /\ UNCHANGED <<query, rows, rest, floor>>

Next ==
  \/ \E r \in Row : Push(r)
  \/ \E r, w \in Row : Replace(r, w) \/ Drop(r, w)
  \/ \E w \in Row : Output(w)

Spec == Init /\ [][Next]_vars

------------------------------------------------------------------------------
(****************************************************************************)
(* Properties.                                                              *)
(****************************************************************************)

(* S holds the first kTopN rows of A in the order of the comparer, or some  *)
(* of the first where rows are equal to it.                                 *)
AreFirst(S, A) ==
  /\ S \subseteq A
  /\ Cardinality(S) <= kTopN
  /\ S # A => Cardinality(S) = kTopN
  /\ \A r \in S, t \in A \ S : ~ Precedes(query.comparer, t, r)

Offered == rows \ rest

(* As long as the scan goes on, the heap holds the first of the rows seen.  *)
HeapHoldsTheFirst == results = << >> => AreFirst(heap, Offered)

(* The copy of the top's key never gets stale, though a row with the same   *)
(* key does not renew it.                                                   *)
FloorIsTopKey ==
  results = << >> /\ query.cached /\ Full =>
    \A w \in heap : IsTop(w) => floor = w[1]

(* The call returns the first kTopN rows in the order of the comparer,      *)
(* whatever the order in which the storage lists them.                      *)
ReturnsTheFirst ==
  rest = {} /\ heap = {} =>
    /\ AreFirst({results[i] : i \in DOMAIN results}, rows)
    /\ \A i, j \in DOMAIN results :
         i < j => ~ Precedes(query.comparer, results[j], results[i])
===============================================================================
