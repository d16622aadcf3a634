------------------------------ MODULE TopNProofs ------------------------------
(****************************************************************************)
(* Proofs about the bounded heaps of TopN, for every limit, every set of    *)
(* rows, finite or not, and every order in which they are offered.          *)
(****************************************************************************)
EXTENDS TopN, FiniteSetTheorems, TLAPS

(* The queries whose admission test compares as their comparer does; a      *)
(* copied key is only compared by the ones with two columns.                *)
Sound ==
  {q \in Queries : /\ q.admission = q.comparer
                   /\ q.cached => q.comparer = ByKeyThenId}

Triple == Nat \X Nat \X Nat

(* The orders of the eleven comparers.                                      *)
Orders == {<<"desc", "asc">>, <<"desc", "desc">>, <<"asc", "asc", "desc">>}

LEMMA QueryFacts ==
  ASSUME NEW q \in Queries
  PROVE  /\ q.comparer \in Orders
         /\ q.admission \in Orders
         /\ q.cached \in BOOLEAN
         /\ q.cached => q.comparer = ByKeyThenId
<1> DEFINE asc == <<"asc", "asc", "desc">>
           desc == <<"desc", "desc">>
<1>1. \/ q = Heap(ByKeyThenId, ByKeyThenId, TRUE)
      \/ q = Heap(ByKeyThenId, ByKeyThenId, FALSE)
      \/ q = Heap(desc, ByKeyThenId, FALSE)
      \/ q = Heap(asc, asc, FALSE)
  BY QueriesAssumption
     DEF IC2, IC3, IC4, IC6, IC7, IC8, IC9, IC10, IC11, IC12, IS2
<1>2. ASSUME NEW a, NEW b, NEW c, q = Heap(a, b, c)
      PROVE  q.comparer = a /\ q.admission = b /\ q.cached = c
  BY <1>2 DEF Heap
<1>3. {ByKeyThenId, asc, desc} \subseteq Orders
  BY DEF ByKeyThenId, Orders
<1> HIDE DEF asc, desc
<1> QED
  BY <1>1, <1>2, <1>3

(* Nine of the eleven queries are sound, IC8 and IS2 are not.               *)
LEMMA SoundQueries ==
  Queries \cap {IC2, IC3, IC4, IC6, IC7, IC9, IC10, IC11, IC12} \subseteq Sound
BY QueriesAssumption
   DEF IC2, IC3, IC4, IC6, IC7, IC8, IC9, IC10, IC11, IC12, IS2, Heap, ByKeyThenId, Sound

LEMMA PrecedesTwo ==
  ASSUME NEW a, NEW b, NEW r \in Triple, NEW t \in Triple
  PROVE  Precedes(<<a, b>>, r, t) <=>
           \/ Less(a, r[1], t[1])
           \/ r[1] = t[1] /\ Less(b, r[2], t[2])
<1> DEFINE o == <<a, b>>
<1>1. Len(o) = 2 /\ o[1] = a /\ o[2] = b
  OBVIOUS
<1>2. 1..Len(o) = {1, 2}
  BY <1>1
<1>3. 1..(1-1) = {} /\ 1..(2-1) = {1}
  OBVIOUS
<1> QED
  BY <1>1, <1>2, <1>3 DEF Precedes

LEMMA PrecedesThree ==
  ASSUME NEW a, NEW b, NEW c, NEW r \in Triple, NEW t \in Triple
  PROVE  Precedes(<<a, b, c>>, r, t) <=>
           \/ Less(a, r[1], t[1])
           \/ r[1] = t[1] /\ Less(b, r[2], t[2])
           \/ r[1] = t[1] /\ r[2] = t[2] /\ Less(c, r[3], t[3])
<1> DEFINE o == <<a, b, c>>
<1>1. Len(o) = 3 /\ o[1] = a /\ o[2] = b /\ o[3] = c
  OBVIOUS
<1>2. 1..Len(o) = {1, 2, 3}
  BY <1>1
<1>3. 1..(1-1) = {} /\ 1..(2-1) = {1} /\ 1..(3-1) = {1, 2}
  OBVIOUS
<1> QED
  BY <1>1, <1>2, <1>3 DEF Precedes

(* Every comparer is a strict weak order on the rows, as std::priority_queue *)
(* demands.                                                                 *)
LEMMA StrictWeakOrder ==
  ASSUME NEW o \in Orders, NEW r \in Triple, NEW s \in Triple, NEW t \in Triple
  PROVE  /\ ~ Precedes(o, r, r)
         /\ Precedes(o, r, s) => ~ Precedes(o, s, r)
         /\ Precedes(o, r, s) /\ Precedes(o, s, t) => Precedes(o, r, t)
         /\ ~ Precedes(o, r, s) /\ ~ Precedes(o, s, t) => ~ Precedes(o, r, t)
<1>1. CASE o = <<"desc", "asc">>
  BY <1>1, PrecedesTwo DEF Less, Triple
<1>2. CASE o = <<"desc", "desc">>
  BY <1>2, PrecedesTwo DEF Less, Triple
<1>3. CASE o = <<"asc", "asc", "desc">>
  BY <1>3, PrecedesThree DEF Less, Triple
<1> QED
  BY <1>1, <1>2, <1>3 DEF Orders

(* What a sequence looks like after a row was put in front of it.           *)
LEMMA Prepended ==
  ASSUME NEW s \in Seq(Row), NEW w \in Row,
         NEW t, t = <<w>> \o s
  PROVE  /\ t \in Seq(Row)
         /\ t # << >>
         /\ DOMAIN t = 1..(Len(s) + 1)
         /\ t[1] = w
         /\ \A i \in DOMAIN t : i # 1 => i - 1 \in DOMAIN s /\ t[i] = s[i - 1]
         /\ \A i \in DOMAIN s : i + 1 \in DOMAIN t /\ t[i + 1] = s[i]
<1>1. t \in Seq(Row) /\ Len(t) = Len(s) + 1
  OBVIOUS
<1>2. DOMAIN t = 1..(Len(s) + 1) /\ DOMAIN s = 1..Len(s)
  BY <1>1
<1>3. t[1] = w
  OBVIOUS
<1>4. ASSUME NEW i \in 1..Len(s) PROVE t[i + 1] = s[i]
  BY <1>4
<1>5. t # << >>
  BY <1>1
<1> QED
  BY <1>1, <1>2, <1>3, <1>4, <1>5

------------------------------------------------------------------------------
(****************************************************************************)
(* Types.                                                                   *)
(****************************************************************************)

(* The heap starts empty and the copied key at 0.                           *)
LEMMA InitTypeOK == Init => TypeOK
BY DEF Init, TypeOK

LEMMA CopyFloorType ==
  ASSUME TypeOK, heap' \subseteq rows, CopyFloor
  PROVE  floor' \in Nat
<1>1. ASSUME NEW w \in LastOf(heap') PROVE w[1] \in Nat
  BY <1>1, RowAssumption DEF LastOf, TypeOK
<1> QED
  BY <1>1 DEF CopyFloor, TypeOK

LEMMA NextTypeOK == TypeOK /\ [Next]_vars => TypeOK'
<1> SUFFICES ASSUME TypeOK, [Next]_vars PROVE TypeOK'
  OBVIOUS
<1>1. ASSUME NEW r \in Row, Push(r) PROVE TypeOK'
  BY <1>1, CopyFloorType DEF Push, TypeOK
<1>2. ASSUME NEW r \in Row, NEW w \in Row, Replace(r, w) PROVE TypeOK'
  <2>1. heap' \subseteq rows /\ rest' \subseteq rows
    BY <1>2 DEF Replace, TypeOK
  <2>2. floor' \in Nat
    BY <1>2, <2>1, CopyFloorType DEF Replace, TypeOK
  <2> QED
    BY <1>2, <2>1, <2>2 DEF Replace, TypeOK
<1>3. ASSUME NEW r \in Row, NEW w \in Row, Drop(r, w) PROVE TypeOK'
  BY <1>3 DEF Drop, TypeOK
<1>4. ASSUME NEW w \in Row, Output(w) PROVE TypeOK'
  <2>1. results' \in Seq(Row)
    BY <1>4 DEF Output, TypeOK
  <2> QED
    BY <1>4, <2>1 DEF Output, TypeOK
<1>5. CASE UNCHANGED vars
  BY <1>5 DEF vars, TypeOK
<1> QED
  BY <1>1, <1>2, <1>3, <1>4, <1>5 DEF Next

(* The copied key is a number, the heap holds rows that were offered, and   *)
(* what is output are rows: in every reachable state, for every kTopN.      *)
THEOREM TypeCorrect == Spec => []TypeOK
BY InitTypeOK, NextTypeOK, PTL DEF Spec

------------------------------------------------------------------------------
(****************************************************************************)
(* The copy of the key.                                                     *)
(****************************************************************************)

(* Rows that stand last in one heap have the same key.                      *)
LEMMA LastHaveOneKey ==
  ASSUME TypeOK, NEW R \in SUBSET rows, query.cached,
         NEW v \in LastOf(R), NEW w \in LastOf(R)
  PROVE  v[1] = w[1]
<1>1. query.comparer = <<"desc", "asc">>
  BY QueryFacts DEF TypeOK, ByKeyThenId
<1>2. v \in Triple /\ w \in Triple
  BY RowAssumption DEF LastOf, TypeOK, Triple
<1>3. ~ Precedes(query.comparer, v, w) /\ ~ Precedes(query.comparer, w, v)
  BY DEF LastOf
<1>4. ~ (v[1] > w[1]) /\ ~ (w[1] > v[1])
  BY <1>1, <1>2, <1>3, PrecedesTwo DEF Less, Triple
<1> QED
  BY <1>2, <1>4 DEF Triple

LEMMA CopyFloorIsKey ==
  ASSUME TypeOK, heap' \subseteq rows, query' = query, CopyFloor
  PROVE  query.cached /\ Full' => \A w \in heap' : IsTop(w)' => floor' = w[1]
<1> SUFFICES ASSUME query.cached, Full', NEW w \in heap', IsTop(w)'
             PROVE  floor' = w[1]
  OBVIOUS
<1>1. w \in LastOf(heap')
  BY DEF IsTop, LastOf
<1>2. PICK v \in LastOf(heap') : floor' = v[1]
  BY DEF CopyFloor, Full
<1>3. v[1] = w[1]
  BY <1>1, <1>2, LastHaveOneKey
<1> QED
  BY <1>2, <1>3

(* A row that comes in without a greater key has the key of the top, and    *)
(* leaves a heap whose top has that key again: ic2.cc:91-98.                *)
LEMMA SameKeyKeepsFloor ==
  ASSUME TypeOK, FloorIsTopKey, results = << >>, query.cached,
         NEW r \in Row, NEW w \in Row, Replace(r, w), ~ (r[1] > floor),
         NEW v \in LastOf(heap')
  PROVE  floor = v[1]
<1>1. query.comparer = <<"desc", "asc">>
  BY QueryFacts DEF TypeOK, ByKeyThenId
<1>2. r[1] = floor /\ w[1] = floor
  BY DEF Replace, Admits, FloorIsTopKey, IsTop, LastOf
<1>3. r \in Triple /\ v \in Triple /\ w \in Triple
  BY RowAssumption DEF Replace, LastOf, TypeOK, Triple
<1>4. r \in heap' /\ ~ Precedes(query.comparer, v, r)
  BY DEF Replace, LastOf
<1>5. ~ (v[1] > r[1])
  BY <1>1, <1>3, <1>4, PrecedesTwo DEF Less, Triple
<1>6. CASE v = r
  BY <1>2, <1>6
<1>7. CASE v \in heap
  <2>1. ~ Precedes(query.comparer, w, v)
    BY <1>7 DEF Replace, IsTop, LastOf
  <2>2. ~ (w[1] > v[1])
    BY <1>1, <1>3, <2>1, PrecedesTwo DEF Less, Triple
  <2> QED
    BY <1>2, <1>3, <1>5, <2>2 DEF Triple
<1> QED
  BY <1>6, <1>7 DEF Replace, LastOf

LEMMA NextFloor == TypeOK /\ FloorIsTopKey /\ [Next]_vars => FloorIsTopKey'
<1> SUFFICES ASSUME TypeOK, FloorIsTopKey, [Next]_vars,
                    results' = << >>, query'.cached, Full'
             PROVE  \A w \in heap' : IsTop(w)' => floor' = w[1]
  BY DEF FloorIsTopKey
<1>1. ASSUME NEW r \in Row, Push(r) PROVE \A w \in heap' : IsTop(w)' => floor' = w[1]
  BY <1>1, CopyFloorIsKey DEF Push, TypeOK
<1>2. ASSUME NEW r \in Row, NEW w \in Row, Replace(r, w)
      PROVE  \A v \in heap' : IsTop(v)' => floor' = v[1]
  <2>1. heap' \subseteq rows
    BY <1>2 DEF Replace, TypeOK
  <2>2. CASE r[1] > floor
    BY <1>2, <2>1, <2>2, CopyFloorIsKey DEF Replace
  <2>3. CASE ~ (r[1] > floor)
    <3>1. floor' = floor
      BY <1>2, <2>3 DEF Replace
    <3>2. \A v \in heap' : IsTop(v)' => v \in LastOf(heap')
      BY <1>2 DEF IsTop, LastOf, Replace
    <3> QED
      BY <1>2, <2>3, <3>1, <3>2, SameKeyKeepsFloor DEF Replace
  <2> QED
    BY <2>2, <2>3
<1>3. ASSUME NEW r \in Row, NEW w \in Row, Drop(r, w)
      PROVE  \A v \in heap' : IsTop(v)' => floor' = v[1]
  BY <1>3 DEF Drop, FloorIsTopKey, IsTop, LastOf, Full
<1>4. ASSUME NEW w \in Row, Output(w) PROVE FALSE
  BY <1>4, Prepended DEF Output, TypeOK
<1>5. CASE UNCHANGED vars
  BY <1>5 DEF vars, FloorIsTopKey, IsTop, LastOf, Full
<1> QED
  BY <1>1, <1>2, <1>3, <1>4, <1>5 DEF Next

(* While rows are offered, the copy of the top's key is the top's key.      *)
THEOREM FloorIsExact == Spec => []FloorIsTopKey
<1>1. Init => FloorIsTopKey
  BY DEF Init, FloorIsTopKey
<1> QED
  BY <1>1, InitTypeOK, NextTypeOK, NextFloor, PTL DEF Spec

------------------------------------------------------------------------------
(****************************************************************************)
(* The rows kept.                                                           *)
(****************************************************************************)
Returned == {results[i] : i \in DOMAIN results}

(* The rows of the call: those in the heap and those output already.        *)
Kept == heap \cup Returned

(* Emptying the heap moves rows to the result without changing which are    *)
(* kept; what is output stands behind nothing that is still in the heap.    *)
IInv ==
  /\ TypeOK
  /\ FloorIsTopKey
  /\ IsFiniteSet(heap)
  /\ Cardinality(heap) <= kTopN
  /\ rest # {} => results = << >>
  /\ heap \subseteq Offered
  /\ AreFirst(Kept, Offered)
  /\ \A r \in heap, i \in DOMAIN results : ~ Precedes(query.comparer, results[i], r)
  /\ \A i, j \in DOMAIN results :
       i < j => ~ Precedes(query.comparer, results[j], results[i])

LEMMA EmptyResult ==
  ASSUME results = << >>
  PROVE  Returned = {} /\ Kept = heap
<1>1. DOMAIN << >> = {}
  OBVIOUS
<1> QED
  BY <1>1 DEF Returned, Kept

(* For a sound query, the admission test of a full heap asks whether the    *)
(* row comes before the top.                                                *)
LEMMA AdmitsWhatPrecedes ==
  ASSUME IInv, query \in Sound, results = << >>, Full, NEW r \in Row, NEW w \in Row, IsTop(w)
  PROVE  Admits(r, w) <=> Precedes(query.comparer, r, w)
<1>1. CASE query.cached
  <2>1. query.comparer = <<"desc", "asc">>
    BY <1>1 DEF Sound, ByKeyThenId
  <2>2. floor = w[1]
    BY <1>1 DEF IInv, FloorIsTopKey, IsTop, LastOf
  <2>3. r \in Triple /\ w \in Triple
    BY RowAssumption DEF Triple
  <2> QED
    BY <1>1, <2>1, <2>2, <2>3, PrecedesTwo DEF Admits, Less
<1>2. CASE ~ query.cached
  BY <1>2 DEF Admits, Sound
<1> QED
  BY <1>1, <1>2

LEMMA InitIInv == Init => IInv
<1> SUFFICES ASSUME Init PROVE IInv
  OBVIOUS
<1>1. TypeOK /\ FloorIsTopKey
  BY InitTypeOK DEF Init, FloorIsTopKey
<1>2. IsFiniteSet(heap) /\ Cardinality(heap) = 0
  BY FS_EmptySet DEF Init
<1>3. Kept = {} /\ Offered = {} /\ DOMAIN results = {}
  BY EmptyResult DEF Init, Offered
<1>4. AreFirst(Kept, Offered)
  BY <1>3, FS_EmptySet, LimitAssumption DEF AreFirst
<1> QED
  BY <1>1, <1>2, <1>3, <1>4, LimitAssumption DEF IInv, Init, Offered

(* A heap that is not full holds every row offered so far.                  *)
LEMMA PushKeepsFirst ==
  ASSUME IInv, NEW r \in Row, Push(r)
  PROVE  /\ IsFiniteSet(heap')
         /\ Cardinality(heap') <= kTopN
         /\ AreFirst(heap', Offered')
<1>1. results = << >> /\ Kept = heap
  BY EmptyResult DEF IInv, Push
<1>2. heap = Offered
  BY <1>1, LimitAssumption, FS_CardinalityType DEF IInv, AreFirst, Push
<1>3. r \notin heap /\ heap' = heap \cup {r} /\ Offered' = Offered \cup {r}
  BY <1>2 DEF Push, Offered, IInv, TypeOK
<1>4. IsFiniteSet(heap') /\ Cardinality(heap') = Cardinality(heap) + 1
  BY <1>3, FS_AddElement DEF IInv
<1>5. Cardinality(heap') <= kTopN
  BY <1>4, FS_CardinalityType, LimitAssumption DEF IInv, Push
<1> QED
  BY <1>2, <1>3, <1>4, <1>5 DEF AreFirst

(* A row that comes before the top of a full heap takes its place.          *)
LEMMA ReplaceKeepsFirst ==
  ASSUME IInv, query \in Sound, NEW r \in Row, NEW w \in Row, Replace(r, w)
  PROVE  /\ IsFiniteSet(heap')
         /\ Cardinality(heap') <= kTopN
         /\ AreFirst(heap', Offered')
<1> DEFINE P(a, b) == Precedes(query.comparer, a, b)
<1>1. results = << >> /\ Kept = heap
  BY EmptyResult DEF IInv, Replace
<1>2. w \in heap /\ r \notin Offered /\ Offered' = Offered \cup {r}
  BY DEF Replace, Offered, IInv, TypeOK, IsTop, LastOf
<1>3. heap' = (heap \ {w}) \cup {r} /\ heap \subseteq Offered /\ Cardinality(heap) = kTopN
  BY DEF Replace, IInv, Full
<1>4. IsFiniteSet(heap \ {w}) /\ Cardinality(heap \ {w}) = kTopN - 1
  BY <1>2, <1>3, FS_RemoveElement DEF IInv
<1>5. IsFiniteSet(heap') /\ Cardinality(heap') = kTopN
  <2>1. r \notin heap \ {w}
    BY <1>2, <1>3
  <2>2. Cardinality((heap \ {w}) \cup {r}) = Cardinality(heap \ {w}) + 1
        /\ IsFiniteSet((heap \ {w}) \cup {r})
    BY <1>4, <2>1, FS_AddElement
  <2> QED
    BY <1>3, <1>4, <2>2, LimitAssumption
<1>6. P(r, w)
  BY <1>1, AdmitsWhatPrecedes DEF Replace
<1>7. query.comparer \in Orders
  BY QueryFacts DEF IInv, TypeOK
<1>8. ASSUME NEW s \in heap', NEW t \in Offered' \ heap' PROVE ~ P(t, s)
  <2>1. {r, s, t, w} \subseteq Triple
    BY <1>2, <1>3, RowAssumption DEF IInv, TypeOK, Offered, Triple
  <2>2. CASE t = w
    <3>1. CASE s = r
      BY <1>6, <1>7, <2>1, <2>2, <3>1, StrictWeakOrder
    <3>2. CASE s \in heap
      BY <2>2, <3>2 DEF Replace, IsTop, LastOf
    <3> QED
      BY <1>3, <3>1, <3>2
  <2>3. CASE t # w
    <3>1. t \in Offered \ heap
      BY <1>2, <1>3, <2>3
    <3>2. \A u \in heap : ~ P(t, u)
      BY <1>1, <3>1 DEF IInv, AreFirst
    <3>3. CASE s = r
      BY <1>2, <1>6, <1>7, <2>1, <3>2, <3>3, StrictWeakOrder
    <3>4. CASE s \in heap
      BY <3>2, <3>4
    <3> QED
      BY <1>3, <3>3, <3>4
  <2> QED
    BY <2>2, <2>3
<1>9. query' = query /\ heap' \subseteq Offered'
  BY <1>2, <1>3 DEF Replace
<1> QED
  BY <1>5, <1>8, <1>9, LimitAssumption DEF AreFirst

(* A row that is dropped comes before no row of the heap.                   *)
LEMMA DropKeepsFirst ==
  ASSUME IInv, query \in Sound, NEW r \in Row, NEW w \in Row, Drop(r, w)
  PROVE  AreFirst(heap', Offered')
<1> DEFINE P(a, b) == Precedes(query.comparer, a, b)
<1>1. results = << >> /\ Kept = heap
  BY EmptyResult DEF IInv, Drop
<1>2. w \in heap /\ Offered' = Offered \cup {r} /\ heap' = heap /\ heap \subseteq Offered
  BY DEF Drop, Offered, IInv, TypeOK, IsTop, LastOf
<1>3. ~ P(r, w)
  BY <1>1, AdmitsWhatPrecedes DEF Drop
<1>4. query.comparer \in Orders
  BY QueryFacts DEF IInv, TypeOK
<1>5. ASSUME NEW s \in heap PROVE ~ P(r, s)
  <2>1. {r, s, w} \subseteq Triple
    BY <1>2, RowAssumption DEF IInv, TypeOK, Triple
  <2>2. ~ P(w, s)
    BY DEF Drop, IsTop, LastOf
  <2> QED
    BY <1>3, <1>4, <2>1, <2>2, StrictWeakOrder
<1>6. ASSUME NEW s \in heap, NEW t \in Offered' \ heap PROVE ~ P(t, s)
  <2>1. t = r \/ t \in Offered \ heap
    BY <1>2
  <2> QED
    BY <1>1, <1>5, <2>1 DEF IInv, AreFirst
<1>7. query' = query /\ Cardinality(heap) = kTopN
  BY DEF Drop, Full
<1> QED
  BY <1>2, <1>6, <1>7, LimitAssumption DEF AreFirst

(* While rows are offered nothing is output, so that the rest of IInv       *)
(* follows from what is known of the heap.                                  *)
LEMMA ScanKeepsIInv ==
  ASSUME TypeOK', FloorIsTopKey', results' = << >>, IsFiniteSet(heap'),
         Cardinality(heap') <= kTopN, AreFirst(heap, Offered)'
  PROVE  IInv'
<1>1. DOMAIN << >> = {}
  OBVIOUS
<1>2. Kept' = heap'
  BY <1>1 DEF Kept, Returned
<1>3. heap' \subseteq Offered'
  BY DEF AreFirst
<1> QED
  BY <1>1, <1>2, <1>3 DEF IInv

(* The row output is in front of those output before it, and behind those   *)
(* that are still in the heap.                                              *)
LEMMA OutputKeepsIInv ==
  ASSUME IInv, TypeOK', FloorIsTopKey', NEW w \in Row, Output(w)
  PROVE  IInv'
<1> DEFINE P(a, b) == Precedes(query.comparer, a, b)
<1>1. /\ rest = {} /\ rest' = {} /\ rows' = rows /\ query' = query
      /\ w \in heap /\ heap' = heap \ {w}
      /\ results \in Seq(Row) /\ results' = <<w>> \o results
      /\ \A s \in heap : ~ P(w, s)
  BY DEF Output, IInv, TypeOK, IsTop, LastOf
<1>2. /\ DOMAIN results' = 1..(Len(results) + 1)
      /\ results'[1] = w
      /\ \A i \in DOMAIN results' :
           i # 1 => i - 1 \in DOMAIN results /\ results'[i] = results[i - 1]
      /\ \A i \in DOMAIN results :
           i + 1 \in DOMAIN results' /\ results'[i + 1] = results[i]
      /\ DOMAIN results = 1..Len(results)
  BY <1>1, Prepended
<1>3. Returned' = Returned \cup {w}
  <2>1. ASSUME NEW x \in Returned' PROVE x \in Returned \cup {w}
    BY <1>2, <2>1 DEF Returned
  <2>2. w \in Returned'
    BY <1>2 DEF Returned
  <2>3. ASSUME NEW x \in Returned PROVE x \in Returned'
    BY <1>2, <2>3 DEF Returned
  <2> QED
    BY <2>1, <2>2, <2>3
<1>4. Kept' = Kept /\ Offered' = Offered
  BY <1>1, <1>3 DEF Kept, Offered
<1>5. AreFirst(Kept, Offered)'
  BY <1>1, <1>4 DEF IInv, AreFirst
<1>6. /\ IsFiniteSet(heap') /\ Cardinality(heap') <= kTopN
      /\ heap' \subseteq Offered'
  <2>1. Cardinality(heap') = Cardinality(heap) - 1 /\ IsFiniteSet(heap')
    BY <1>1, FS_RemoveElement DEF IInv
  <2>2. Cardinality(heap) \in Nat
    BY FS_CardinalityType DEF IInv
  <2> QED
    BY <1>1, <1>4, <2>1, <2>2, LimitAssumption DEF IInv
<1>7. ASSUME NEW r \in heap', NEW i \in DOMAIN results' PROVE ~ P(results'[i], r)
  BY <1>1, <1>2 DEF IInv
<1>8. ASSUME NEW i \in DOMAIN results', NEW j \in DOMAIN results', i < j
      PROVE  ~ P(results'[j], results'[i])
  <2>1. j # 1 /\ j - 1 \in DOMAIN results /\ results'[j] = results[j - 1]
    BY <1>2, <1>8
  <2>2. CASE i = 1
    BY <1>1, <1>2, <2>1, <2>2 DEF IInv
  <2>3. CASE i # 1
    <3>1. i - 1 \in DOMAIN results /\ results'[i] = results[i - 1] /\ i - 1 < j - 1
      BY <1>2, <1>8, <2>3
    <3> QED
      BY <2>1, <3>1 DEF IInv
  <2> QED
    BY <2>2, <2>3
<1> QED
  BY <1>1, <1>5, <1>6, <1>7, <1>8 DEF IInv

LEMMA NextIInv == IInv /\ query \in Sound /\ [Next]_vars => IInv'
<1> SUFFICES ASSUME IInv, query \in Sound, [Next]_vars PROVE IInv'
  OBVIOUS
<1>1. TypeOK' /\ FloorIsTopKey'
  BY NextTypeOK, NextFloor DEF IInv
<1>2. ASSUME NEW r \in Row, Push(r) PROVE IInv'
  <2>1. results' = << >> /\ query' = query
    BY <1>2 DEF Push, IInv
  <2> QED
    BY <1>1, <1>2, <2>1, PushKeepsFirst, ScanKeepsIInv DEF AreFirst
<1>3. ASSUME NEW r \in Row, NEW w \in Row, Replace(r, w) PROVE IInv'
  <2>1. results' = << >> /\ query' = query
    BY <1>3 DEF Replace, IInv
  <2> QED
    BY <1>1, <1>3, <2>1, ReplaceKeepsFirst, ScanKeepsIInv DEF AreFirst
<1>4. ASSUME NEW r \in Row, NEW w \in Row, Drop(r, w) PROVE IInv'
  <2>1. results' = << >> /\ query' = query /\ heap' = heap
    BY <1>4 DEF Drop, IInv
  <2> QED
    BY <1>1, <1>4, <2>1, DropKeepsFirst, ScanKeepsIInv DEF AreFirst, IInv
<1>5. ASSUME NEW w \in Row, Output(w) PROVE IInv'
  BY <1>1, <1>5, OutputKeepsIInv
<1>6. CASE UNCHANGED vars
  BY <1>1, <1>6 DEF vars, IInv, Offered, Kept, Returned, AreFirst
<1> QED
  BY <1>2, <1>3, <1>4, <1>5, <1>6 DEF Next

(* The invariant, for the queries whose admission test agrees with their    *)
(* comparer; the query of a call does not change.                           *)
LEMMA Invariance == Spec => [](query \in Sound => IInv)
<1>1. Init => (query \in Sound => IInv)
  BY InitIInv
<1>2. TypeOK /\ (query \in Sound => IInv) /\ [Next]_vars => (query \in Sound => IInv)'
  <2>1. [Next]_vars => query' = query
    BY DEF Next, Push, Replace, Drop, Output, vars
  <2> QED
    BY <2>1, NextIInv
<1> QED
  BY <1>1, <1>2, TypeCorrect, PTL DEF Spec

(* The heap of a sound query holds, after every row and whatever the order  *)
(* of the storage, the first kTopN of the rows it was offered.              *)
THEOREM HeapIsFirst == Spec => [](query \in Sound => HeapHoldsTheFirst)
<1>1. IInv => HeapHoldsTheFirst
  BY EmptyResult DEF IInv, HeapHoldsTheFirst
<1> QED
  BY <1>1, Invariance, PTL

(* A sound query returns the first kTopN of its rows, in their order.       *)
THEOREM ResultIsFirst == Spec => [](query \in Sound => ReturnsTheFirst)
<1>1. IInv => ReturnsTheFirst
  <2> SUFFICES ASSUME IInv, rest = {}, heap = {}
               PROVE  /\ AreFirst(Returned, rows)
                      /\ \A i, j \in DOMAIN results :
                           i < j => ~ Precedes(query.comparer, results[j], results[i])
    BY DEF ReturnsTheFirst, Returned
  <2>1. Kept = Returned /\ Offered = rows
    BY DEF Kept, Offered
  <2> QED
    BY <2>1 DEF IInv
<1> QED
  BY <1>1, Invariance, PTL
===============================================================================
