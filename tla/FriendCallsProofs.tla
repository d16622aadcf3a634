--------------------------- MODULE FriendCallsProofs ---------------------------
(****************************************************************************)
(* Proofs about the calls of IC1, IC5 and IC10: for every limit, all        *)
(* persons, forums, posts and candidates, however many, every graph, and    *)
(* every order in which the storage lists them.                             *)
(****************************************************************************)
EXTENDS FriendCalls, KnowsGraphProofs

------------------------------------------------------------------------------
(****************************************************************************)
(* The first rows of a set, in an order given as a set of pairs.            *)
(****************************************************************************)
StrictTotal(R, U) ==
  /\ \A r \in U : <<r, r>> \notin R
  /\ \A r, t \in U : r = t \/ <<r, t>> \in R \/ <<t, r>> \in R
  /\ \A r, s, t \in U : <<r, s>> \in R /\ <<s, t>> \in R => <<r, t>> \in R

(* The first kTopN rows of O, or all of it.                                 *)
AreFirst(R, S, O) ==
  /\ S \subseteq O
  /\ IsFiniteSet(S)
  /\ Cardinality(S) = kTopN \/ (S = O /\ Cardinality(S) <= kTopN)
  /\ \A r \in S, t \in O \ S : <<r, t>> \in R

IsLast(R, w, S) == w \in S /\ \A r \in S \ {w} : <<r, w>> \in R

(* The queries count with the same operator as these proofs do.             *)
LEMMA SameCount ==
  ASSUME NEW S
  PROVE  /\ IC1!Cardinality(S) = Cardinality(S)
         /\ IC5!Cardinality(S) = Cardinality(S)
         /\ IC10!Cardinality(S) = Cardinality(S)
BY DEF Cardinality, IC1!Cardinality, IC5!Cardinality, IC10!Cardinality

LEMMA NothingIsFirst ==
  ASSUME NEW R
  PROVE  AreFirst(R, {}, {})
BY FS_EmptySet, LimitAssumption DEF AreFirst

LEMMA PushedAreFirst ==
  ASSUME NEW R, NEW S, NEW O, AreFirst(R, S, O), Cardinality(S) # kTopN, NEW r, r \notin O
  PROVE  /\ AreFirst(R, S \cup {r}, O \cup {r})
         /\ Cardinality(S \cup {r}) = Cardinality(S) + 1
<1>1. S = O /\ IsFiniteSet(S) /\ Cardinality(S) \in Nat /\ Cardinality(S) < kTopN
  BY FS_CardinalityType, LimitAssumption DEF AreFirst
<1>2. IsFiniteSet(S \cup {r}) /\ Cardinality(S \cup {r}) = Cardinality(S) + 1
  BY <1>1, FS_AddElement
<1> QED
  BY <1>1, <1>2, LimitAssumption DEF AreFirst

(* A row that goes before the last of a full heap takes its place.          *)
LEMMA ReplacedAreFirst ==
  ASSUME NEW R, NEW U, StrictTotal(R, U), NEW S, NEW O, O \subseteq U,
         AreFirst(R, S, O), Cardinality(S) = kTopN,
         NEW w, IsLast(R, w, S), NEW r \in U, r \notin O, <<r, w>> \in R
  PROVE  /\ AreFirst(R, (S \ {w}) \cup {r}, O \cup {r})
         /\ Cardinality((S \ {w}) \cup {r}) = kTopN
<1>1. S \subseteq O /\ IsFiniteSet(S) /\ w \in S
  BY DEF AreFirst, IsLast
<1>2. IsFiniteSet(S \ {w}) /\ Cardinality(S \ {w}) = kTopN - 1
  BY <1>1, FS_RemoveElement
<1>3. /\ IsFiniteSet((S \ {w}) \cup {r})
      /\ Cardinality((S \ {w}) \cup {r}) = kTopN
  <2>1. r \notin S \ {w}
    BY <1>1
  <2>2. Cardinality((S \ {w}) \cup {r}) = Cardinality(S \ {w}) + 1
    BY <1>2, <2>1, FS_AddElement
  <2> QED
    BY <1>2, <2>2, FS_AddElement, LimitAssumption
<1>4. ASSUME NEW s \in (S \ {w}) \cup {r}, NEW t \in (O \cup {r}) \ ((S \ {w}) \cup {r})
      PROVE  <<s, t>> \in R
  <2>1. <<s, w>> \in R
    BY DEF IsLast
  <2>2. t = w \/ <<w, t>> \in R
    BY <1>1 DEF AreFirst
  <2>3. s \in U /\ t \in U /\ w \in U
    BY <1>1
  <2> QED
    BY <2>1, <2>2, <2>3 DEF StrictTotal
<1> QED
  BY <1>1, <1>3, <1>4 DEF AreFirst

(* A row that goes behind the last of a full heap is not wanted.            *)
LEMMA DroppedAreFirst ==
  ASSUME NEW R, NEW U, StrictTotal(R, U), NEW S, NEW O, O \subseteq U,
         AreFirst(R, S, O), Cardinality(S) = kTopN,
         NEW w, IsLast(R, w, S), NEW r \in U, r \notin O, <<r, w>> \notin R
  PROVE  AreFirst(R, S, O \cup {r})
<1>1. S \subseteq O /\ IsFiniteSet(S) /\ w \in S /\ w \in U /\ w # r
  BY DEF AreFirst, IsLast
<1>2. <<w, r>> \in R
  BY <1>1 DEF StrictTotal
<1>3. ASSUME NEW s \in S PROVE <<s, r>> \in R
  BY <1>1, <1>2 DEF IsLast, StrictTotal
<1> QED
  BY <1>1, <1>3 DEF AreFirst

(* Rows that all go behind those of a full heap are not wanted either.      *)
LEMMA RestIsBehind ==
  ASSUME NEW R, NEW S, NEW O, NEW P, AreFirst(R, S, O), O \subseteq P,
         Cardinality(S) = kTopN, \A r \in S, t \in P \ O : <<r, t>> \in R
  PROVE  AreFirst(R, S, P)
BY DEF AreFirst

------------------------------------------------------------------------------
(****************************************************************************)
(* The output: the heap is emptied from its last row, and each row goes in  *)
(* front of those that went before.                                         *)
(****************************************************************************)
RowsIn(s) == {s[i] : i \in DOMAIN s}

(* The rows of s are in order, behind those of H, and none is there twice.  *)
Ordered(R, H, s) ==
  /\ \A r \in H, i \in DOMAIN s : <<r, s[i]>> \in R
  /\ \A i, j \in DOMAIN s : i < j => <<s[i], s[j]>> \in R
  /\ IsFiniteSet(RowsIn(s)) /\ Cardinality(RowsIn(s)) = Len(s)

Front(w, s) == <<w>> \o s

LEMMA NothingOutput ==
  ASSUME NEW s, s = << >>
  PROVE  RowsIn(s) = {} /\ \A R, H : Ordered(R, H, s)
<1>1. DOMAIN << >> = {} /\ Len(<< >>) = 0
  OBVIOUS
<1>2. RowsIn(s) = {}
  BY <1>1 DEF RowsIn
<1> QED
  BY <1>1, <1>2, FS_EmptySet DEF Ordered

(* What a sequence looks like after a row was put in front of it.           *)
LEMMA Prepended ==
  ASSUME NEW S, NEW s \in Seq(S), NEW w \in S, NEW t, t = <<w>> \o s
  PROVE  /\ t \in Seq(S)
         /\ DOMAIN s = 1..Len(s) /\ Len(s) \in Nat
         /\ Len(t) = Len(s) + 1
         /\ DOMAIN t = 1..(Len(s) + 1)
         /\ t[1] = w
         /\ \A i \in DOMAIN t : i # 1 => i - 1 \in DOMAIN s /\ t[i] = s[i - 1]
         /\ \A i \in DOMAIN s : i + 1 \in DOMAIN t /\ t[i + 1] = s[i]
<1>1. t \in Seq(S) /\ Len(t) = Len(s) + 1 /\ Len(s) \in Nat
  OBVIOUS
<1>2. DOMAIN t = 1..(Len(s) + 1) /\ DOMAIN s = 1..Len(s)
  BY <1>1
<1>3. t[1] = w
  OBVIOUS
<1>4. ASSUME NEW i \in 1..Len(s) PROVE t[i + 1] = s[i]
  BY <1>4
<1> QED
  BY <1>1, <1>2, <1>3, <1>4

(* The row output stands behind those still in the heap, in front of those  *)
(* output before it, and is none of them.                                   *)
LEMMA OutputKeepsOrder ==
  ASSUME NEW R, NEW U, StrictTotal(R, U), NEW H, NEW s \in Seq(U),
         Ordered(R, H, s), NEW w \in U, IsLast(R, w, H)
  PROVE  /\ Ordered(R, H \ {w}, Front(w, s))
         /\ RowsIn(Front(w, s)) = RowsIn(s) \cup {w}
         /\ Front(w, s) \in Seq(U)
<1> DEFINE t == Front(w, s)
<1>1. /\ Len(t) = Len(s) + 1
      /\ t \in Seq(U)
      /\ DOMAIN t = 1..(Len(s) + 1)
      /\ t[1] = w
      /\ \A i \in DOMAIN t : i # 1 => i - 1 \in DOMAIN s /\ t[i] = s[i - 1]
      /\ \A i \in DOMAIN s : i + 1 \in DOMAIN t /\ t[i + 1] = s[i]
      /\ DOMAIN s = 1..Len(s) /\ Len(s) \in Nat
  BY Prepended DEF Front
<1> HIDE DEF t
<1>2. RowsIn(t) = RowsIn(s) \cup {w}
  <2>1. ASSUME NEW x \in RowsIn(t) PROVE x \in RowsIn(s) \cup {w}
    BY <1>1, <2>1 DEF RowsIn
  <2>2. w \in RowsIn(t)
    BY <1>1 DEF RowsIn
  <2>3. ASSUME NEW x \in RowsIn(s) PROVE x \in RowsIn(t)
    BY <1>1, <2>3 DEF RowsIn
  <2> QED
    BY <2>1, <2>2, <2>3
<1>3. \A i \in DOMAIN s : <<w, s[i]>> \in R
  BY DEF Ordered, IsLast
<1>4. w \notin RowsIn(s)
  <2>1. <<w, w>> \notin R
    BY DEF StrictTotal
  <2> QED
    BY <1>3, <2>1 DEF RowsIn
<1>5. IsFiniteSet(RowsIn(t)) /\ Cardinality(RowsIn(t)) = Len(t)
  <2>1. IsFiniteSet(RowsIn(s)) /\ Cardinality(RowsIn(s)) = Len(s)
    BY DEF Ordered
  <2>2. /\ IsFiniteSet(RowsIn(s) \cup {w})
        /\ Cardinality(RowsIn(s) \cup {w}) = Cardinality(RowsIn(s)) + 1
    BY <1>4, <2>1, FS_AddElement
  <2> QED
    BY <1>1, <1>2, <2>1, <2>2
<1>6. ASSUME NEW r \in H \ {w}, NEW i \in DOMAIN t PROVE <<r, t[i]>> \in R
  BY <1>1 DEF Ordered, IsLast
<1>7. ASSUME NEW i \in DOMAIN t, NEW j \in DOMAIN t, i < j
      PROVE  <<t[i], t[j]>> \in R
  <2>1. j # 1 /\ j - 1 \in DOMAIN s /\ t[j] = s[j - 1]
    BY <1>1, <1>7
  <2>2. CASE i = 1
    BY <1>1, <1>3, <2>1, <2>2
  <2>3. CASE i # 1
    <3>1. i - 1 \in DOMAIN s /\ t[i] = s[i - 1] /\ i - 1 < j - 1
      BY <1>1, <1>7, <2>3
    <3> QED
      BY <2>1, <3>1 DEF Ordered
  <2> QED
    BY <2>2, <2>3
<1>8. Ordered(R, H \ {w}, t)
  BY <1>5, <1>6, <1>7 DEF Ordered
<1> QED
  BY <1>1, <1>2, <1>8 DEF t

------------------------------------------------------------------------------
(****************************************************************************)
(* IC1: types.                                                              *)
(****************************************************************************)
LEMMA SameGraph ==
  ASSUME NEW E
  PROVE  /\ IC1!Simple(E) <=> Simple(E)
         /\ \A n, x, y : IC1!IsDistance(E, n, x, y) <=> IsDistance(E, n, x, y)
         /\ \A x : IC1!InEdges(E, x) = InEdges(E, x) /\ IC1!OutEdges(E, x) = OutEdges(E, x)
<1>1. IC1!Simple(E) <=> Simple(E)
  BY DEF IC1!Simple, Simple
<1>2. \A n, x, y : IC1!IsDistance(E, n, x, y) <=> IsDistance(E, n, x, y)
  BY DEF IC1!IsDistance, IsDistance, IC1!Connected, Connected, IC1!Walks, Walks,
         IC1!Neighbours, Neighbours, IC1!InEdges, InEdges, IC1!OutEdges, OutEdges
<1>3. \A x : IC1!InEdges(E, x) = InEdges(E, x) /\ IC1!OutEdges(E, x) = OutEdges(E, x)
  BY DEF IC1!InEdges, InEdges, IC1!OutEdges, OutEdges
<1> QED
  BY <1>1, <1>2, <1>3

(* The edges of a set of persons are those of its members to their friends. *)
LEMMA EdgesOfSet ==
  ASSUME NEW S, S \subseteq Person
  PROVE  /\ IC1!EdgesOf(S) \subseteq Person \X IC1!Edge
         /\ \A e \in IC1!EdgesOf(S) :
              /\ e[1] \in S /\ e[2][2] \in Neighbours(knows, e[1])
              /\ e[2][1] \in {"in", "out"}
              /\ e[2][1] = "in" => <<e[2][2], e[1]>> \in knows
              /\ e[2][1] = "out" => <<e[1], e[2][2]>> \in knows
              /\ e = <<e[1], <<e[2][1], e[2][2]>> >>
         /\ \A x \in S : \A y \in Neighbours(knows, x) :
              \E e \in IC1!EdgesOf(S) : e[1] = x /\ e[2][2] = y
<1> DEFINE Of(x) == ({"in"} \X InEdges(knows, x)) \cup ({"out"} \X OutEdges(knows, x))
<1>1. IC1!EdgesOf(S) = UNION {{x} \X Of(x) : x \in S}
  BY SameGraph DEF IC1!EdgesOf
<1>2. ASSUME NEW e \in IC1!EdgesOf(S)
      PROVE  /\ e \in Person \X IC1!Edge
             /\ e[1] \in S /\ e[2][2] \in Neighbours(knows, e[1])
             /\ e[2][1] \in {"in", "out"}
             /\ e[2][1] = "in" => <<e[2][2], e[1]>> \in knows
             /\ e[2][1] = "out" => <<e[1], e[2][2]>> \in knows
             /\ e = <<e[1], <<e[2][1], e[2][2]>> >>
  <2>1. PICK x \in S : e \in {x} \X Of(x)
    BY <1>1
  <2>2. e = <<x, e[2]>> /\ e[1] = x /\ e[2] \in Of(x)
    BY <2>1
  <2>3. CASE e[2] \in {"in"} \X InEdges(knows, x)
    BY <2>2, <2>3 DEF IC1!Edge, Neighbours, InEdges
  <2>4. CASE e[2] \in {"out"} \X OutEdges(knows, x)
    BY <2>2, <2>4 DEF IC1!Edge, Neighbours, OutEdges
  <2> QED
    BY <2>2, <2>3, <2>4
<1>3. ASSUME NEW x \in S, NEW y \in Neighbours(knows, x)
      PROVE  \E e \in IC1!EdgesOf(S) : e[1] = x /\ e[2][2] = y
  <2>1. CASE y \in InEdges(knows, x)
    <3>1. <<x, <<"in", y>> >> \in {x} \X Of(x)
      BY <2>1
    <3>2. <<x, <<"in", y>> >> \in IC1!EdgesOf(S)
      BY <1>1, <3>1
    <3> QED
      BY <3>2
  <2>2. CASE y \in OutEdges(knows, x)
    <3>1. <<x, <<"out", y>> >> \in {x} \X Of(x)
      BY <2>2
    <3>2. <<x, <<"out", y>> >> \in IC1!EdgesOf(S)
      BY <1>1, <3>1
    <3> QED
      BY <3>2
  <2> QED
    BY <2>1, <2>2 DEF Neighbours
<1> QED
  BY <1>2, <1>3

LEMMA InitSearchType == IC1!Init => IC1!TypeOK
<1> SUFFICES ASSUME IC1!Init PROVE IC1!TypeOK
  OBVIOUS
<1>1. knows \in IC1!Graph /\ root \in Person /\ named \subseteq Person
  BY GraphsAssumption DEF IC1!Init, IC1!Graph
<1>2. todo \subseteq Person \X IC1!Edge
  BY <1>1, EdgesOfSet DEF IC1!Init
<1>3. layer \in 1..IC1!Farthest /\ results \in Seq((1..IC1!Farthest) \X Person)
  BY DEF IC1!Init, IC1!Farthest
<1>4. accessed \subseteq Person /\ next \subseteq Person /\ heap \subseteq IC1!RowType
  BY <1>1 DEF IC1!Init
<1> QED
  BY <1>1, <1>2, <1>3, <1>4 DEF IC1!Init, IC1!TypeOK

LEMMA SearchRowType ==
  ASSUME IC1!TypeOK, NEW e \in todo
  PROVE  /\ e[2][2] \in Person
         /\ <<layer, e[2][2], e[2][1]>> \in IC1!RowType
BY DEF IC1!TypeOK, IC1!Edge, IC1!RowType

LEMMA NextSearchType ==
  ASSUME IC1!TypeOK, IC1!Next
  PROVE  IC1!TypeOK'
<1>1. ASSUME NEW e \in todo, IC1!Meet(e) PROVE IC1!TypeOK'
  <2>1. e[2][2] \in Person /\ <<layer, e[2][2], e[2][1]>> \in IC1!RowType
    BY SearchRowType
  <2>2. heap' \subseteq IC1!RowType
    <3>1. CASE e[2][2] \in named
      <4>1. IC1!TryEnqueue(<<layer, e[2][2], e[2][1]>>)
        BY <1>1, <3>1 DEF IC1!Meet
      <4> QED
        BY <2>1, <4>1 DEF IC1!TryEnqueue, IC1!TypeOK
    <3>2. CASE e[2][2] \notin named
      BY <1>1, <3>2 DEF IC1!Meet, IC1!TypeOK
    <3> QED
      BY <3>1, <3>2
  <2>3. next' \subseteq Person /\ accessed' \subseteq Person
    BY <1>1, <2>1 DEF IC1!Meet, IC1!TypeOK
  <2>4. todo' \subseteq Person \X IC1!Edge
    BY <1>1 DEF IC1!Meet, IC1!TypeOK
  <2> QED
    BY <1>1, <2>2, <2>3, <2>4 DEF IC1!Meet, IC1!TypeOK
<1>2. ASSUME NEW e \in todo, IC1!Skip(e) PROVE IC1!TypeOK'
  BY <1>2 DEF IC1!Skip, IC1!TypeOK
<1>3. CASE IC1!NextLayer
  <2>1. layer' \in 1..IC1!Farthest
    BY <1>3 DEF IC1!NextLayer, IC1!TypeOK, IC1!Farthest
  <2>2. todo' \subseteq Person \X IC1!Edge
    BY <1>3, EdgesOfSet DEF IC1!NextLayer, IC1!TypeOK
  <2> QED
    BY <1>3, <2>1, <2>2 DEF IC1!NextLayer, IC1!TypeOK
<1>4. CASE IC1!Stop
  BY <1>4 DEF IC1!Stop, IC1!TypeOK
<1>5. ASSUME NEW w \in heap, IC1!Output(w) PROVE IC1!TypeOK'
  <2>1. <<w[1], w[2]>> \in (1..IC1!Farthest) \X Person
    BY DEF IC1!TypeOK, IC1!RowType
  <2>2. results' \in Seq((1..IC1!Farthest) \X Person)
    BY <1>5, <2>1, Prepended DEF IC1!Output, IC1!TypeOK
  <2> QED
    BY <1>5, <2>2 DEF IC1!Output, IC1!TypeOK
<1>6. CASE IC1!Return
  BY <1>6 DEF IC1!Return, IC1!TypeOK
<1> QED
  BY <1>1, <1>2, <1>3, <1>4, <1>5, <1>6 DEF IC1!Next

------------------------------------------------------------------------------
(****************************************************************************)
(* IC1: the search.  What is known of the layers is only true where every   *)
(* friendship is stored once: direct friends are not looked up before they  *)
(* are offered.                                                             *)
(****************************************************************************)
Ball(E, z, n) == {x \in Person : \E m \in 0..n : IsDistance(E, m, z, x)}

LEMMA FullHeap ==
  /\ IC1!Full <=> Cardinality(heap) = kTopN
  /\ IC1!Full' <=> Cardinality(heap') = kTopN
BY SameCount DEF IC1!Full

(* The order of the rows, and the rows of the heap without their edges.     *)
Found == (1..IC1!Farthest) \X Person

Nearest == {p \in Found \X Found : IC1!Precedes(p[1], p[2])}

Pair(r) == <<r[1], r[2]>>

PairsOf(H) == {Pair(r) : r \in H}

(* The rows of a heap are of different persons.                             *)
OneRowEach(H) ==
  /\ IsFiniteSet(H) /\ Cardinality(PairsOf(H)) = Cardinality(H)
  /\ \A r, t \in H : Pair(r) = Pair(t) => r = t

(* Those with the name who were met so far.                                 *)
Met == {t \in IC1!Friends : t[2] \in accessed}

(* While a layer is collected, accessed holds the layers before and a part  *)
(* of this one, whose rest the edges at hand lead to.                       *)
LayerInv ==
  /\ Ball(knows, root, layer - 1) \subseteq accessed /\ accessed \subseteq Ball(knows, root, layer)
  /\ next = IF layer < IC1!Farthest THEN accessed \ Ball(knows, root, layer - 1) ELSE {}
  /\ \A e \in todo : /\ IsDistance(knows, layer - 1, root, e[1])
                     /\ e[2][2] \in Neighbours(knows, e[1])
  /\ \A x \in Person : IsDistance(knows, layer, root, x) =>
                         x \in accessed \/ \E e \in todo : e[2][2] = x
  /\ layer = 1 => /\ todo \subseteq IC1!EdgesOf({root})
                  /\ \A e \in todo : e[2][2] \notin accessed

(* A full heap holds a row of this layer, so that its top is one.           *)
HeapInv ==
  /\ \A r \in heap : r[1] <= layer
  /\ IC1!Full => \E r \in heap : r[1] = layer
  /\ AreFirst(Nearest, PairsOf(heap), Met)

SearchInv ==
  /\ OneRowEach(heap)
  /\ pc = "collect" => LayerInv /\ HeapInv /\ results = << >>
  /\ pc # "collect" => /\ AreFirst(Nearest, PairsOf(heap) \cup RowsIn(results), IC1!Friends)
                       /\ Ordered(Nearest, PairsOf(heap), results)
  /\ pc = "done" => heap = {}

LEMMA PairFacts ==
  ASSUME NEW r, NEW t
  PROVE  /\ Pair(r)[1] = r[1] /\ Pair(r)[2] = r[2]
         /\ IC1!Precedes(Pair(r), Pair(t)) <=> IC1!Precedes(r, t)
BY DEF Pair, IC1!Precedes

(* Rows are ordered by distance, last name and identifier.                  *)
LEMMA NearestOrder == StrictTotal(Nearest, Found)
<1>1. \A r, t \in Found : <<r, t>> \in Nearest <=> IC1!Precedes(r, t)
  BY DEF Nearest
<1>2. \A r \in Found : /\ r[1] \in Nat /\ r[2] \in Nat /\ lastName[r[2]] \in Nat
                       /\ r = <<r[1], r[2]>>
  BY PersonAssumption, GraphsAssumption DEF Found, IC1!Farthest
<1>3. ASSUME NEW r \in Found PROVE ~ IC1!Precedes(r, r)
  BY <1>2 DEF IC1!Precedes
<1>4. ASSUME NEW r \in Found, NEW t \in Found
      PROVE  r = t \/ IC1!Precedes(r, t) \/ IC1!Precedes(t, r)
  <2>1. r[1] = t[1] /\ r[2] = t[2] => r = t
    BY <1>2
  <2> QED
    BY <1>2, <2>1 DEF IC1!Precedes
<1>5. ASSUME NEW r \in Found, NEW s \in Found, NEW t \in Found,
             IC1!Precedes(r, s), IC1!Precedes(s, t)
      PROVE  IC1!Precedes(r, t)
  BY <1>2, <1>5 DEF IC1!Precedes
<1> QED
  BY <1>1, <1>3, <1>4, <1>5 DEF StrictTotal

LEMMA InNearest ==
  ASSUME NEW r \in Found, NEW t \in Found
  PROVE  <<r, t>> \in Nearest <=> IC1!Precedes(r, t)
BY DEF Nearest

LEMMA HeapTypes ==
  ASSUME IC1!TypeOK
  PROVE  /\ PairsOf(heap) \subseteq Found
         /\ \A r \in heap : r[1] \in 1..3 /\ r[2] \in Person /\ Pair(r) \in Found
         /\ IC1!Friends \subseteq Found
<1>1. \A r \in heap : r[1] \in 1..3 /\ r[2] \in Person /\ Pair(r) \in Found
  BY DEF IC1!TypeOK, IC1!RowType, Pair, Found, IC1!Farthest
<1> QED
  BY <1>1 DEF PairsOf, IC1!Friends, Found

LEMMA FriendRow ==
  ASSUME NEW t
  PROVE  t \in IC1!Friends <=>
           t \in Found /\ t[2] \in named /\ IsDistance(knows, t[1], root, t[2])
BY SameGraph DEF IC1!Friends, Found

LEMMA PairsFinite ==
  ASSUME NEW H, IsFiniteSet(H)
  PROVE  IsFiniteSet(PairsOf(H))
<1> DEFINE f == [r \in H |-> Pair(r)]
<1>1. f \in Surjection(H, PairsOf(H))
  BY DEF Surjection, PairsOf
<1> QED
  BY <1>1, FS_Surjection

LEMMA RowAdded ==
  ASSUME NEW H, OneRowEach(H), NEW r, Pair(r) \notin PairsOf(H)
  PROVE  /\ OneRowEach(H \cup {r})
         /\ PairsOf(H \cup {r}) = PairsOf(H) \cup {Pair(r)}
<1>1. PairsOf(H \cup {r}) = PairsOf(H) \cup {Pair(r)}
  BY DEF PairsOf
<1>2. r \notin H
  BY DEF PairsOf
<1>3. IsFiniteSet(H \cup {r}) /\ Cardinality(H \cup {r}) = Cardinality(H) + 1
  BY <1>2, FS_AddElement DEF OneRowEach
<1>4. IsFiniteSet(PairsOf(H))
  BY PairsFinite DEF OneRowEach
<1>5. Cardinality(PairsOf(H \cup {r})) = Cardinality(PairsOf(H)) + 1
  BY <1>1, <1>4, FS_AddElement
<1>6. \A s, t \in H \cup {r} : Pair(s) = Pair(t) => s = t
  BY DEF OneRowEach, PairsOf
<1> QED
  BY <1>1, <1>3, <1>5, <1>6 DEF OneRowEach

LEMMA RowRemoved ==
  ASSUME NEW H, OneRowEach(H), NEW w \in H
  PROVE  /\ OneRowEach(H \ {w})
         /\ PairsOf(H \ {w}) = PairsOf(H) \ {Pair(w)}
         /\ Pair(w) \in PairsOf(H)
<1>1. PairsOf(H \ {w}) = PairsOf(H) \ {Pair(w)} /\ Pair(w) \in PairsOf(H)
  BY DEF PairsOf, OneRowEach
<1>2. IsFiniteSet(H \ {w}) /\ Cardinality(H \ {w}) = Cardinality(H) - 1
  BY FS_RemoveElement DEF OneRowEach
<1>3. IsFiniteSet(PairsOf(H))
  BY PairsFinite DEF OneRowEach
<1>4. Cardinality(PairsOf(H \ {w})) = Cardinality(PairsOf(H)) - 1
  BY <1>1, <1>3, FS_RemoveElement
<1> QED
  BY <1>1, <1>2, <1>4 DEF OneRowEach

(* The top of the heap is the last of its rows.                             *)
LEMMA TopIsLast ==
  ASSUME IC1!TypeOK, OneRowEach(heap), NEW w, IC1!IsTop(w)
  PROVE  w \in heap /\ IsLast(Nearest, Pair(w), PairsOf(heap))
<1>1. w \in heap /\ Pair(w) \in PairsOf(heap) /\ PairsOf(heap) \subseteq Found
  BY HeapTypes, RowRemoved DEF IC1!IsTop
<1>2. ASSUME NEW q \in PairsOf(heap) \ {Pair(w)} PROVE <<q, Pair(w)>> \in Nearest
  <2>1. PICK r \in heap : q = Pair(r)
    BY DEF PairsOf
  <2>2. ~ IC1!Precedes(Pair(w), q)
    BY <2>1, PairFacts DEF IC1!IsTop
  <2>3. <<Pair(w), q>> \notin Nearest /\ q # Pair(w) /\ q \in Found /\ Pair(w) \in Found
    BY <1>1, <2>2, InNearest
  <2> QED
    BY <2>3, NearestOrder DEF StrictTotal
<1> QED
  BY <1>1, <1>2 DEF IsLast

(* Where a friendship is stored once, no two edges of the root end at the   *)
(* same person, and none at the root itself.                                *)
LEMMA RootEdges ==
  ASSUME root \in Person, Simple(knows)
  PROVE  /\ \A e, f \in IC1!EdgesOf({root}) : e[2][2] = f[2][2] => e = f
         /\ \A e \in IC1!EdgesOf({root}) : e[2][2] # root
<1>1. \A y : ~ (<<root, y>> \in knows /\ <<y, root>> \in knows)
  <2> SUFFICES ASSUME NEW y, <<root, y>> \in knows, <<y, root>> \in knows PROVE FALSE
    OBVIOUS
  <2>1. <<root, y>>[1] = root /\ <<root, y>>[2] = y
    OBVIOUS
  <2> QED
    BY <2>1 DEF Simple
<1>2. \A e \in IC1!EdgesOf({root}) :
        /\ e[1] = root
        /\ e[2][1] \in {"in", "out"}
        /\ e[2][1] = "in" => <<e[2][2], root>> \in knows
        /\ e[2][1] = "out" => <<root, e[2][2]>> \in knows
        /\ e = <<e[1], <<e[2][1], e[2][2]>> >>
  <2>1. {root} \subseteq Person
    OBVIOUS
  <2>2. \A e \in IC1!EdgesOf({root}) :
          /\ e[1] \in {root}
          /\ e[2][1] \in {"in", "out"}
          /\ e[2][1] = "in" => <<e[2][2], e[1]>> \in knows
          /\ e[2][1] = "out" => <<e[1], e[2][2]>> \in knows
          /\ e = <<e[1], <<e[2][1], e[2][2]>> >>
    BY <2>1, EdgesOfSet
  <2> QED
    BY <2>2
<1>3. ASSUME NEW e \in IC1!EdgesOf({root}), NEW f \in IC1!EdgesOf({root}), e[2][2] = f[2][2]
      PROVE  e = f
  <2>1. e[2][1] = f[2][1]
    <3>1. CASE e[2][1] = "in" /\ f[2][1] = "out"
      BY <1>1, <1>2, <1>3, <3>1
    <3>2. CASE e[2][1] = "out" /\ f[2][1] = "in"
      BY <1>1, <1>2, <1>3, <3>2
    <3> QED
      BY <1>2, <3>1, <3>2
  <2> QED
    BY <1>2, <1>3, <2>1
<1>4. ASSUME NEW e \in IC1!EdgesOf({root}) PROVE e[2][2] # root
  BY <1>1, <1>2
<1> QED
  BY <1>3, <1>4

LEMMA InitSearch ==
  ASSUME IC1!Init, Simple(knows)
  PROVE  SearchInv
<1>1. root \in Person /\ layer = 1 /\ todo = IC1!EdgesOf({root}) /\ heap = {}
      /\ accessed = {root} /\ next = {} /\ results = << >> /\ pc = "collect"
  BY GraphsAssumption DEF IC1!Init
<1>2. /\ \A x \in Person : IsDistance(knows, 0, root, x) <=> x = root
      /\ 0..0 = {0} /\ 1 - 1 = 0
  BY <1>1, DistanceZero
<1>3. Ball(knows, root, 0) = {root} /\ root \in Ball(knows, root, 1)
  <2>1. 0 \in 0..1
    OBVIOUS
  <2> QED
    BY <1>1, <1>2, <2>1 DEF Ball
<1>4. /\ \A e \in todo : e[1] = root /\ e[2][2] \in Neighbours(knows, e[1])
      /\ \A x \in Neighbours(knows, root) : \E e \in todo : e[2][2] = x
  <2>1. {root} \subseteq Person
    BY <1>1
  <2>2. /\ \A e \in IC1!EdgesOf({root}) :
             e[1] \in {root} /\ e[2][2] \in Neighbours(knows, e[1])
        /\ \A x \in {root} : \A y \in Neighbours(knows, x) :
             \E e \in IC1!EdgesOf({root}) : e[1] = x /\ e[2][2] = y
    BY <2>1, EdgesOfSet
  <2> QED
    BY <1>1, <2>2
<1>5. ASSUME NEW x \in Person, IsDistance(knows, 1, root, x)
      PROVE  \E e \in todo : e[2][2] = x
  BY <1>1, <1>4, <1>5, OneStep DEF IsDistance
<1>6. \A e \in todo : e[2][2] \notin accessed
  BY <1>1, RootEdges
<1>7. LayerInv
  <2>1. /\ Ball(knows, root, layer - 1) \subseteq accessed /\ accessed \subseteq Ball(knows, root, layer)
        /\ accessed \ Ball(knows, root, layer - 1) = {}
    BY <1>1, <1>2, <1>3
  <2>2. \A e \in todo : IsDistance(knows, layer - 1, root, e[1])
    BY <1>1, <1>2, <1>4
  <2> QED
    BY <1>1, <2>1, <2>2, <1>4, <1>5, <1>6 DEF LayerInv
<1>8. Met = {}
  <2>1. SUFFICES ASSUME NEW t \in Met PROVE FALSE
    OBVIOUS
  <2>2. t[1] \in 1..3 /\ t[2] = root /\ IsDistance(knows, t[1], root, root)
    BY <1>1, FriendRow DEF Met, Found, IC1!Farthest
  <2> QED
    BY <1>1, <1>2, <2>2, DistanceUnique
<1>9. PairsOf(heap) = {}
  BY <1>1 DEF PairsOf
<1>10. HeapInv /\ OneRowEach(heap)
  <2>1. AreFirst(Nearest, PairsOf(heap), Met)
    BY <1>8, <1>9, NothingIsFirst
  <2>2. Cardinality(heap) = 0 /\ IsFiniteSet(heap) /\ Cardinality(PairsOf(heap)) = 0
    BY <1>1, <1>9, FS_EmptySet
  <2>3. ~ IC1!Full
    BY <2>2, FullHeap, LimitAssumption
  <2> QED
    BY <1>1, <2>1, <2>2, <2>3 DEF HeapInv, OneRowEach
<1> QED
  BY <1>1, <1>7, <1>10 DEF SearchInv

(* Whoever is met now was not met before, and is as far as the layer.       *)
LEMMA MetIsNew ==
  ASSUME IC1!TypeOK, LayerInv, NEW e \in todo, layer = 1 \/ e[2][2] \notin accessed
  PROVE  /\ e[2][2] \in Person /\ e[2][2] \notin accessed
         /\ IsDistance(knows, layer, root, e[2][2])
<1> DEFINE x == e[2][2]
<1>1. x \in Person /\ x \notin accessed /\ root \in Person /\ layer \in 1..3 /\ e[1] \in Person
  BY SearchRowType DEF LayerInv, IC1!TypeOK, IC1!Farthest
<1>2. PICK m \in 0..((layer - 1) + 1) : IsDistance(knows, m, root, x)
  BY <1>1, FriendOf DEF LayerInv
<1>3. m \notin 0..(layer - 1)
  BY <1>1, <1>2 DEF LayerInv, Ball
<1>4. m = layer
  BY <1>1, <1>2, <1>3
<1> QED
  BY <1>1, <1>2, <1>4

LEMMA MeetLayer ==
  ASSUME IC1!TypeOK, Simple(knows), LayerInv, NEW e \in todo, IC1!Meet(e)
  PROVE  LayerInv'
<1> DEFINE x == e[2][2]
<1>1. /\ todo' = todo \ {e} /\ accessed' = accessed \cup {x} /\ layer' = layer
      /\ next' = (IF layer < IC1!Farthest THEN next \cup {x} ELSE next)
      /\ knows' = knows /\ root' = root
      /\ (layer = 1 \/ x \notin accessed)
  BY DEF IC1!Meet
<1>2. x \in Person /\ x \notin accessed /\ IsDistance(knows, layer, root, x)
      /\ layer \in 1..3
  BY <1>1, MetIsNew DEF IC1!TypeOK, IC1!Farthest
<1>3. /\ Ball(knows, root, layer)' = Ball(knows, root, layer)
      /\ Ball(knows, root, layer - 1)' = Ball(knows, root, layer - 1)
  BY <1>1 DEF Ball
<1>4. x \in Ball(knows, root, layer) /\ x \notin Ball(knows, root, layer - 1)
  BY <1>2 DEF Ball, LayerInv
<1>5. /\ Ball(knows, root, layer - 1)' \subseteq accessed' /\ accessed' \subseteq Ball(knows, root, layer)'
      /\ next' = IF layer' < IC1!Farthest THEN accessed' \ Ball(knows, root, layer - 1)' ELSE {}
  BY <1>1, <1>3, <1>4 DEF LayerInv
<1>6. ASSUME NEW y \in Person, IsDistance(knows, layer, root, y)
      PROVE  y \in accessed' \/ \E f \in todo' : f[2][2] = y
  BY <1>1, <1>6 DEF LayerInv
<1>7. ASSUME layer = 1
      PROVE  todo' \subseteq IC1!EdgesOf({root})' /\ \A f \in todo' : f[2][2] \notin accessed'
  <2>1. /\ IC1!EdgesOf({root})' = IC1!EdgesOf({root})
        /\ todo \subseteq IC1!EdgesOf({root})
        /\ \A f \in todo : f[2][2] \notin accessed
    BY <1>1, <1>7 DEF IC1!EdgesOf, IC1!InEdges, IC1!OutEdges, LayerInv
  <2>2. root \in Person
    BY DEF IC1!TypeOK
  <2>3. \A f \in todo' : f[2][2] # x
    BY <1>1, <2>1, <2>2, RootEdges
  <2> QED
    BY <1>1, <2>1, <2>3
<1>8. \A f \in todo' : /\ IsDistance(knows, layer - 1, root, f[1])
                       /\ f[2][2] \in Neighbours(knows, f[1])
  BY <1>1 DEF LayerInv
<1>9. (layer = 1)' => layer = 1
  BY <1>1
<1> QED
  BY <1>1, <1>5, <1>6, <1>7, <1>8, <1>9 DEF LayerInv

(* A row offered in a layer meets a top of its own layer, so that the short *)
(* comparison of the code is as good as the whole one.                      *)
LEMMA EnqueueKeepsFirst ==
  ASSUME IC1!TypeOK, OneRowEach(heap), HeapInv, NEW e \in todo,
         e[2][2] \in Person, Pair(<<layer, e[2][2], e[2][1]>>) \notin Met,
         IC1!TryEnqueue(<<layer, e[2][2], e[2][1]>>)
  PROVE  /\ OneRowEach(heap')
         /\ AreFirst(Nearest, PairsOf(heap'), Met \cup {<<layer, e[2][2]>>})
         /\ \A r \in heap' : r[1] <= layer
         /\ IC1!Full' => \E r \in heap' : r[1] = layer
<1> DEFINE r == <<layer, e[2][2], e[2][1]>>
<1>1. Pair(r) = <<layer, e[2][2]>> /\ r[1] = layer /\ Pair(r) \in Found /\ layer \in 1..3
  BY DEF Pair, Found, IC1!TypeOK, IC1!Farthest
<1>2. /\ AreFirst(Nearest, PairsOf(heap), Met) /\ PairsOf(heap) \subseteq Met
      /\ Met \subseteq Found /\ Pair(r) \notin PairsOf(heap) /\ Pair(r) \notin Met
      /\ Cardinality(PairsOf(heap)) = Cardinality(heap)
  BY <1>1, HeapTypes DEF HeapInv, AreFirst, Met, OneRowEach
<1> HIDE DEF r
<1>3. CASE ~ IC1!Full /\ heap' = heap \cup {r}
  <2>1. OneRowEach(heap') /\ PairsOf(heap') = PairsOf(heap) \cup {Pair(r)}
    BY <1>2, <1>3, RowAdded
  <2>2. AreFirst(Nearest, PairsOf(heap'), Met \cup {Pair(r)})
    <3>1. Cardinality(PairsOf(heap)) # kTopN
      BY <1>2, <1>3, FullHeap
    <3> QED
      BY <1>2, <2>1, <3>1, PushedAreFirst
  <2>3. \A s \in heap' : s[1] <= layer
    BY <1>1, <1>3 DEF HeapInv
  <2>4. \E s \in heap' : s[1] = layer
    BY <1>1, <1>3
  <2> QED
    BY <1>1, <2>1, <2>2, <2>3, <2>4
<1>4. ASSUME IC1!Full, NEW w \in heap, IC1!IsTop(w),
             heap' = IF IC1!Admits(r, w) THEN (heap \ {w}) \cup {r} ELSE heap
      PROVE  /\ OneRowEach(heap')
             /\ AreFirst(Nearest, PairsOf(heap'), Met \cup {Pair(r)})
             /\ \A s \in heap' : s[1] <= layer
             /\ \E s \in heap' : s[1] = layer
  <2>1. IsLast(Nearest, Pair(w), PairsOf(heap)) /\ Pair(w) \in PairsOf(heap)
    BY <1>4, TopIsLast, RowRemoved
  <2>2. w[1] = layer
    <3>1. PICK s \in heap : s[1] = layer
      BY <1>4 DEF HeapInv
    <3>2. ~ (w[1] < layer) /\ w[1] <= layer /\ w[1] \in 1..3
      BY <1>4, <3>1, HeapTypes DEF IC1!IsTop, IC1!Precedes, HeapInv
    <3> QED
      BY <1>1, <3>2
  <2>3. IC1!Admits(r, w) <=> <<Pair(r), Pair(w)>> \in Nearest
    <3>1. IC1!Admits(r, w) <=> IC1!Precedes(r, w)
      BY <1>1, <2>2 DEF IC1!Admits, IC1!Precedes
    <3>2. Pair(w) \in Found
      BY <1>2, <2>1
    <3>3. IC1!Precedes(Pair(r), Pair(w)) <=> IC1!Precedes(r, w)
      BY PairFacts
    <3> QED
      BY <1>1, <3>1, <3>2, <3>3, InNearest
  <2>4. Cardinality(PairsOf(heap)) = kTopN
    BY <1>2, <1>4, FullHeap
  <2>5. CASE IC1!Admits(r, w)
    <3>1. heap' = (heap \ {w}) \cup {r}
      BY <1>4, <2>5
    <3>2. OneRowEach(heap \ {w}) /\ PairsOf(heap \ {w}) = PairsOf(heap) \ {Pair(w)}
      BY RowRemoved
    <3>3. /\ OneRowEach(heap')
          /\ PairsOf(heap') = (PairsOf(heap) \ {Pair(w)}) \cup {Pair(r)}
      BY <1>2, <3>1, <3>2, RowAdded
    <3>4. AreFirst(Nearest, PairsOf(heap'), Met \cup {Pair(r)})
      BY <1>1, <1>2, <2>1, <2>3, <2>4, <2>5, <3>3, NearestOrder, ReplacedAreFirst
    <3>5. \A s \in heap' : s[1] <= layer
      BY <1>1, <3>1 DEF HeapInv
    <3>6. \E s \in heap' : s[1] = layer
      BY <1>1, <3>1
    <3> QED
      BY <3>3, <3>4, <3>5, <3>6
  <2>6. CASE ~ IC1!Admits(r, w)
    <3>1. heap' = heap
      BY <1>4, <2>6
    <3>2. AreFirst(Nearest, PairsOf(heap), Met \cup {Pair(r)})
      BY <1>1, <1>2, <2>1, <2>3, <2>4, <2>6, NearestOrder, DroppedAreFirst
    <3> QED
      BY <1>4, <2>2, <3>1, <3>2 DEF HeapInv
  <2> QED
    BY <2>5, <2>6
<1>5. \/ ~ IC1!Full /\ heap' = heap \cup {r}
      \/ IC1!Full /\ \E w \in heap : /\ IC1!IsTop(w)
                                     /\ heap' = IF IC1!Admits(r, w)
                                                THEN (heap \ {w}) \cup {r} ELSE heap
  BY DEF IC1!TryEnqueue, r
<1> QED
  BY <1>1, <1>3, <1>4, <1>5

LEMMA SameFriends ==
  ASSUME knows' = knows, root' = root, named' = named
  PROVE  IC1!Friends' = IC1!Friends
BY DEF IC1!Friends, IC1!IsDistance, IC1!Connected, IC1!Walks, IC1!Neighbours, IC1!InEdges,
       IC1!OutEdges, IC1!Farthest

LEMMA MeetStep ==
  ASSUME IC1!TypeOK, Simple(knows), SearchInv, NEW e \in todo, IC1!Meet(e)
  PROVE  SearchInv'
<1> DEFINE x == e[2][2]
           p == <<layer, x>>
<1>1. /\ pc = "collect" /\ pc' = "collect" /\ layer' = layer /\ results' = results
      /\ knows' = knows /\ root' = root /\ named' = named /\ accessed' = accessed \cup {x}
      /\ (layer = 1 \/ x \notin accessed)
      /\ IF x \in named THEN IC1!TryEnqueue(<<layer, x, e[2][1]>>) ELSE heap' = heap
  BY DEF IC1!Meet
<1>2. LayerInv /\ HeapInv /\ OneRowEach(heap) /\ results = << >>
  BY <1>1 DEF SearchInv
<1>3. x \in Person /\ x \notin accessed /\ IsDistance(knows, layer, root, x)
      /\ root \in Person /\ layer \in 1..IC1!Farthest
  BY <1>1, <1>2, MetIsNew DEF IC1!TypeOK
<1>4. LayerInv'
  BY <1>2, MeetLayer
<1>5. IC1!Friends' = IC1!Friends
  BY <1>1, SameFriends
<1>6. Met' = IF x \in named THEN Met \cup {p} ELSE Met
  <2>1. p \in Found /\ p[1] = layer /\ p[2] = x
    BY <1>3 DEF Found
  <2>2. x \in named => p \in IC1!Friends
    BY <1>3, <2>1, FriendRow
  <2>3. ASSUME NEW t \in IC1!Friends, t[2] = x PROVE t = p /\ x \in named
    <3>1. t \in Found /\ t[2] \in named /\ IsDistance(knows, t[1], root, x)
      BY <2>3, FriendRow
    <3>2. t[1] = layer
      BY <1>3, <3>1, DistanceUnique
    <3> QED
      BY <2>3, <3>1, <3>2 DEF Found
  <2>4. Met' = {t \in IC1!Friends : t[2] \in accessed \cup {x}}
    BY <1>1, <1>5 DEF Met
  <2> QED
    BY <2>1, <2>2, <2>3, <2>4 DEF Met
<1>7. HeapInv' /\ OneRowEach(heap')
  <2>1. CASE x \in named
    <3>1. Pair(<<layer, x, e[2][1]>>) \notin Met
      BY <1>3 DEF Pair, Met
    <3>2. /\ OneRowEach(heap')
          /\ AreFirst(Nearest, PairsOf(heap'), Met \cup {p})
          /\ \A r \in heap' : r[1] <= layer
          /\ IC1!Full' => \E r \in heap' : r[1] = layer
      BY <1>1, <1>2, <1>3, <2>1, <3>1, EnqueueKeepsFirst
    <3> QED
      BY <1>1, <1>6, <2>1, <3>2 DEF HeapInv
  <2>2. CASE x \notin named
    <3>1. heap' = heap /\ Met' = Met
      BY <1>1, <1>6, <2>2
    <3>2. IC1!Full' <=> IC1!Full
      BY <3>1, FullHeap
    <3> QED
      BY <1>1, <1>2, <3>1, <3>2 DEF HeapInv
  <2> QED
    BY <2>1, <2>2
<1> QED
  BY <1>1, <1>2, <1>4, <1>7 DEF SearchInv

LEMMA SkipStep ==
  ASSUME IC1!TypeOK, SearchInv, NEW e \in todo, IC1!Skip(e)
  PROVE  SearchInv'
<1>1. /\ pc = "collect" /\ pc' = "collect" /\ layer' = layer /\ results' = results
      /\ knows' = knows /\ root' = root /\ named' = named /\ accessed' = accessed
      /\ heap' = heap /\ next' = next /\ todo' = todo \ {e}
      /\ layer > 1 /\ e[2][2] \in accessed
  BY DEF IC1!Skip
<1>2. LayerInv /\ HeapInv /\ OneRowEach(heap) /\ results = << >>
  BY <1>1 DEF SearchInv
<1>3. LayerInv'
  <2>1. /\ Ball(knows, root, layer)' = Ball(knows, root, layer)
        /\ Ball(knows, root, layer - 1)' = Ball(knows, root, layer - 1)
    BY <1>1
  <2>2. ASSUME NEW y \in Person, IsDistance(knows, layer, root, y)
        PROVE  y \in accessed' \/ \E f \in todo' : f[2][2] = y
    BY <1>1, <1>2, <2>2 DEF LayerInv
  <2>3. \A f \in todo' : /\ IsDistance(knows, layer - 1, root, f[1])
                         /\ f[2][2] \in Neighbours(knows, f[1])
    BY <1>1, <1>2 DEF LayerInv
  <2>4. /\ Ball(knows, root, layer - 1) \subseteq accessed
        /\ accessed \subseteq Ball(knows, root, layer)
        /\ next = IF layer < IC1!Farthest THEN accessed \ Ball(knows, root, layer - 1) ELSE {}
    BY <1>2 DEF LayerInv
  <2>5. layer # 1
    BY <1>1 DEF IC1!TypeOK
  <2> QED
    BY <1>1, <2>1, <2>2, <2>3, <2>4, <2>5 DEF LayerInv
<1>4. HeapInv'
  <2>1. Met' = Met
    BY <1>1, SameFriends DEF Met
  <2>2. IC1!Full' <=> IC1!Full
    BY <1>1, FullHeap
  <2> QED
    BY <1>1, <1>2, <2>1, <2>2 DEF HeapInv
<1> QED
  BY <1>1, <1>2, <1>3, <1>4 DEF SearchInv

(* When no edge of a layer is left, everybody up to it was met.             *)
LEMMA LayerComplete ==
  ASSUME IC1!TypeOK, LayerInv, todo = {}
  PROVE  accessed = Ball(knows, root, layer)
<1>1. /\ Ball(knows, root, layer - 1) \subseteq accessed
      /\ accessed \subseteq Ball(knows, root, layer)
      /\ \A y \in Person : IsDistance(knows, layer, root, y) => y \in accessed
  BY DEF LayerInv
<1>2. ASSUME NEW y \in Ball(knows, root, layer) PROVE y \in accessed
  <2>1. PICK m \in 0..layer : IsDistance(knows, m, root, y)
    BY DEF Ball
  <2>2. y \in Person /\ layer \in 1..3
    BY DEF Ball, IC1!TypeOK, IC1!Farthest
  <2>3. m = layer \/ m \in 0..(layer - 1)
    BY <2>2
  <2> QED
    BY <1>1, <2>1, <2>2, <2>3 DEF Ball
<1> QED
  BY <1>1, <1>2

LEMMA NextLayerStep ==
  ASSUME IC1!TypeOK, SearchInv, IC1!NextLayer
  PROVE  SearchInv'
<1>1. /\ pc = "collect" /\ pc' = "collect" /\ layer' = layer + 1 /\ results' = results
      /\ knows' = knows /\ root' = root /\ named' = named /\ accessed' = accessed
      /\ heap' = heap /\ next' = {} /\ todo = {} /\ todo' = IC1!EdgesOf(next)
      /\ layer < IC1!Farthest /\ ~ IC1!Full
  BY DEF IC1!NextLayer
<1>2. LayerInv /\ HeapInv /\ OneRowEach(heap) /\ results = << >>
  BY <1>1 DEF SearchInv
<1>3. accessed = Ball(knows, root, layer)
  BY <1>1, <1>2, LayerComplete
<1>4. root \in Person /\ next \subseteq Person /\ layer \in 1..2 /\ layer' - 1 = layer
  BY <1>1 DEF IC1!TypeOK, IC1!Farthest
<1>5. next = accessed \ Ball(knows, root, layer - 1)
  BY <1>1, <1>2 DEF LayerInv
<1>6. \A x \in Person : x \in next <=> IsDistance(knows, layer, root, x)
  <2>1. ASSUME NEW x \in Person, x \in next PROVE IsDistance(knows, layer, root, x)
    <3>1. PICK m \in 0..layer : IsDistance(knows, m, root, x)
      BY <1>3, <1>5, <2>1 DEF Ball
    <3>2. m \notin 0..(layer - 1)
      BY <1>5, <2>1, <3>1 DEF Ball
    <3>3. m = layer
      BY <1>4, <3>2
    <3> QED
      BY <3>1, <3>3
  <2>2. ASSUME NEW x \in Person, IsDistance(knows, layer, root, x) PROVE x \in next
    <3>1. layer \in 0..layer
      BY <1>4
    <3>2. x \in accessed
      BY <1>3, <2>2, <3>1 DEF Ball
    <3>3. ASSUME NEW m \in 0..(layer - 1), IsDistance(knows, m, root, x) PROVE FALSE
      <4>1. m = layer
        BY <1>4, <2>2, <3>3, DistanceUnique
      <4> QED
        BY <1>4, <4>1
    <3> QED
      BY <1>5, <3>2, <3>3 DEF Ball
  <2> QED
    BY <2>1, <2>2
<1>7. LayerInv'
  <2>1. /\ Ball(knows, root, layer - 1)' = Ball(knows, root, layer)
        /\ Ball(knows, root, layer)' = Ball(knows, root, layer + 1)
    BY <1>1, <1>4
  <2>2. Ball(knows, root, layer) \subseteq Ball(knows, root, layer + 1)
    BY <1>4 DEF Ball
  <2>3. /\ \A f \in todo' : f[1] \in next /\ f[2][2] \in Neighbours(knows, f[1])
        /\ \A x \in next : \A y \in Neighbours(knows, x) :
             \E f \in todo' : f[1] = x /\ f[2][2] = y
    <3>1. /\ \A f \in IC1!EdgesOf(next) : f[1] \in next /\ f[2][2] \in Neighbours(knows, f[1])
          /\ \A x \in next : \A y \in Neighbours(knows, x) :
               \E f \in IC1!EdgesOf(next) : f[1] = x /\ f[2][2] = y
      BY <1>4, EdgesOfSet
    <3> QED
      BY <1>1, <3>1
  <2>4. \A f \in todo' : /\ IsDistance(knows, layer, root, f[1])
                         /\ f[2][2] \in Neighbours(knows, f[1])
    BY <1>4, <1>6, <2>3
  <2>5. ASSUME NEW y \in Person, IsDistance(knows, layer + 1, root, y)
        PROVE  \E f \in todo' : f[2][2] = y
    <3>1. PICK z \in Person : IsDistance(knows, layer, root, z) /\ y \in Neighbours(knows, z)
      BY <1>4, <2>5, FriendBefore
    <3> QED
      BY <1>6, <2>3, <3>1
  <2>6. layer' # 1
    BY <1>1, <1>4
  <2> QED
    BY <1>1, <1>3, <1>4, <2>1, <2>2, <2>4, <2>5, <2>6 DEF LayerInv
<1>8. HeapInv'
  <2>1. Met' = Met
    BY <1>1, SameFriends DEF Met
  <2>2. ~ IC1!Full'
    BY <1>1, FullHeap
  <2>3. \A r \in heap : r[1] <= layer + 1
    BY <1>2, <1>4, HeapTypes DEF HeapInv
  <2> QED
    BY <1>1, <1>2, <2>1, <2>2, <2>3 DEF HeapInv
<1> QED
  BY <1>1, <1>2, <1>7, <1>8 DEF SearchInv

(* Those who were not met in a layer that leaves the heap full are farther  *)
(* than everybody in it; after the last layer nobody is left.               *)
LEMMA StopStep ==
  ASSUME IC1!TypeOK, SearchInv, IC1!Stop
  PROVE  SearchInv'
<1>1. /\ pc = "collect" /\ pc' = "output" /\ results' = results /\ todo = {}
      /\ knows' = knows /\ root' = root /\ named' = named /\ heap' = heap
      /\ (layer = IC1!Farthest \/ IC1!Full)
  BY DEF IC1!Stop
<1>2. LayerInv /\ HeapInv /\ OneRowEach(heap) /\ results = << >>
  BY <1>1 DEF SearchInv
<1>3. /\ accessed = Ball(knows, root, layer) /\ layer \in 1..3 /\ IC1!Farthest = 3
      /\ PairsOf(heap) \subseteq Found
  BY <1>1, <1>2, LayerComplete, HeapTypes DEF IC1!TypeOK, IC1!Farthest
<1>4. ASSUME NEW t \in IC1!Friends \ Met PROVE t[1] \in Nat /\ t[1] > layer /\ t \in Found
  <2>1. t \in Found /\ IsDistance(knows, t[1], root, t[2]) /\ t[2] \notin accessed
    BY FriendRow DEF Met
  <2>2. t[1] \in 1..3 /\ t[2] \in Person
    BY <1>3, <2>1 DEF Found
  <2>3. t[1] \notin 0..layer
    BY <1>3, <2>1, <2>2 DEF Ball
  <2> QED
    BY <1>3, <2>1, <2>2, <2>3
<1>5. AreFirst(Nearest, PairsOf(heap), IC1!Friends)
  <2>1. AreFirst(Nearest, PairsOf(heap), Met) /\ Met \subseteq IC1!Friends
    BY <1>2 DEF HeapInv, Met
  <2>2. CASE layer = IC1!Farthest
    <3>1. ASSUME NEW t \in IC1!Friends \ Met PROVE FALSE
      <4>1. t \in Found /\ t[1] > layer
        BY <1>4
      <4>2. t[1] \in 1..3
        BY <1>3, <4>1 DEF Found
      <4> QED
        BY <1>3, <2>2, <4>1, <4>2
    <3>2. Met = IC1!Friends
      BY <2>1, <3>1
    <3> QED
      BY <2>1, <3>2
  <2>3. CASE IC1!Full
    <3>1. Cardinality(PairsOf(heap)) = kTopN
      BY <1>2, <2>3, FullHeap DEF OneRowEach
    <3>2. ASSUME NEW q \in PairsOf(heap), NEW t \in IC1!Friends \ Met PROVE <<q, t>> \in Nearest
      <4>1. PICK r \in heap : q = Pair(r)
        BY DEF PairsOf
      <4>2. q[1] = r[1] /\ r[1] <= layer /\ r[1] \in 1..3 /\ q \in Found
        BY <1>2, <4>1, PairFacts, HeapTypes DEF HeapInv
      <4>3. t[1] \in Nat /\ t[1] > layer /\ t \in Found
        BY <1>4
      <4>4. q[1] < t[1]
        BY <1>3, <4>2, <4>3
      <4> QED
        BY <4>2, <4>3, <4>4, InNearest DEF IC1!Precedes
    <3> QED
      BY <2>1, <3>1, <3>2, RestIsBehind
  <2> QED
    BY <1>1, <2>2, <2>3
<1>6. RowsIn(results) = {} /\ Ordered(Nearest, PairsOf(heap), results)
  BY <1>2, NothingOutput
<1>7. IC1!Friends' = IC1!Friends
  BY <1>1, SameFriends
<1>8. PairsOf(heap) \cup RowsIn(results) = PairsOf(heap)
  BY <1>6
<1> QED
  BY <1>1, <1>2, <1>5, <1>6, <1>7, <1>8 DEF SearchInv

LEMMA OutputStep ==
  ASSUME IC1!TypeOK, SearchInv, NEW w \in heap, IC1!Output(w)
  PROVE  SearchInv'
<1> DEFINE p == Pair(w)
<1>1. /\ pc = "output" /\ pc' = "output" /\ IC1!IsTop(w) /\ heap' = heap \ {w}
      /\ results' = <<p>> \o results
      /\ knows' = knows /\ root' = root /\ named' = named
  BY DEF IC1!Output, Pair
<1>2. /\ OneRowEach(heap)
      /\ AreFirst(Nearest, PairsOf(heap) \cup RowsIn(results), IC1!Friends)
      /\ Ordered(Nearest, PairsOf(heap), results)
  BY <1>1 DEF SearchInv
<1>3. results \in Seq(Found) /\ p \in Found /\ IsLast(Nearest, p, PairsOf(heap))
  BY <1>1, <1>2, HeapTypes, TopIsLast DEF IC1!TypeOK, Found
<1> HIDE DEF p
<1>4. /\ Ordered(Nearest, PairsOf(heap) \ {p}, results')
      /\ RowsIn(results') = RowsIn(results) \cup {p}
  <2>1. results' = Front(p, results)
    BY <1>1 DEF Front
  <2> QED
    BY <1>2, <1>3, <2>1, NearestOrder, OutputKeepsOrder
<1>5. /\ OneRowEach(heap') /\ PairsOf(heap') = PairsOf(heap) \ {p}
      /\ p \in PairsOf(heap)
  BY <1>1, <1>2, RowRemoved DEF p
<1>6. PairsOf(heap') \cup RowsIn(results') = PairsOf(heap) \cup RowsIn(results)
  BY <1>4, <1>5
<1>7. IC1!Friends' = IC1!Friends
  BY <1>1, SameFriends
<1>8. /\ AreFirst(Nearest, PairsOf(heap') \cup RowsIn(results'), IC1!Friends')
      /\ Ordered(Nearest, PairsOf(heap'), results')
  BY <1>2, <1>4, <1>5, <1>6, <1>7
<1> QED
  BY <1>1, <1>5, <1>8 DEF SearchInv

LEMMA ReturnStep ==
  ASSUME SearchInv, IC1!Return
  PROVE  SearchInv'
<1>1. /\ pc = "output" /\ pc' = "done" /\ heap = {} /\ heap' = heap /\ results' = results
      /\ knows' = knows /\ root' = root /\ named' = named
  BY DEF IC1!Return
<1>2. IC1!Friends' = IC1!Friends
  BY <1>1, SameFriends
<1> QED
  BY <1>1, <1>2 DEF SearchInv

LEMMA NextSearch ==
  ASSUME IC1!TypeOK, Simple(knows), SearchInv, IC1!Next
  PROVE  SearchInv' /\ knows' = knows
<1>1. SearchInv'
  BY MeetStep, SkipStep, NextLayerStep, StopStep, OutputStep, ReturnStep DEF IC1!Next
<1>2. knows' = knows
  BY DEF IC1!Next, IC1!Meet, IC1!Skip, IC1!NextLayer, IC1!Stop, IC1!Output, IC1!Return
<1> QED
  BY <1>1, <1>2

(* What the invariant says of the rows of the heap and of the rows given    *)
(* back.                                                                    *)
LEMMA SearchShows ==
  ASSUME IC1!TypeOK, Simple(knows) => SearchInv
  PROVE  IC1!MetAtDistance /\ IC1!ReturnsTheNearest
<1> SUFFICES ASSUME Simple(knows), SearchInv PROVE IC1!MetAtDistance /\ IC1!ReturnsTheNearest
  BY SameGraph DEF IC1!MetAtDistance, IC1!ReturnsTheNearest
<1>1. ASSUME NEW r \in heap PROVE IC1!IsDistance(knows, r[1], root, r[2])
  <2>1. Pair(r) \in IC1!Friends
    <3>1. Pair(r) \in PairsOf(heap)
      BY DEF PairsOf
    <3>2. pc \in {"collect", "output", "done"}
      BY DEF IC1!TypeOK
    <3> QED
      BY <3>1, <3>2 DEF SearchInv, HeapInv, AreFirst, Met
  <2> QED
    BY <2>1, FriendRow, PairFacts, SameGraph
<1>2. ASSUME pc = "done"
      PROVE  LET found == {results[i] : i \in DOMAIN results} IN
             /\ found \subseteq IC1!Friends
             /\ Len(results) = Cardinality(found)
             /\ Len(results) < kTopN => found = IC1!Friends
             /\ \A r \in found, t \in IC1!Friends \ found : IC1!Precedes(r, t)
             /\ \A i, j \in DOMAIN results : i < j => IC1!Precedes(results[i], results[j])
  <2>1. PairsOf(heap) = {}
    BY <1>2 DEF SearchInv, PairsOf
  <2>2. PairsOf(heap) \cup RowsIn(results) = RowsIn(results)
    BY <2>1
  <2>3. /\ AreFirst(Nearest, RowsIn(results), IC1!Friends)
        /\ Ordered(Nearest, PairsOf(heap), results)
    BY <1>2, <2>2 DEF SearchInv
  <2>4. \A q \in Nearest : IC1!Precedes(q[1], q[2])
    BY DEF Nearest
  <2>5. Cardinality(RowsIn(results)) = Len(results) /\ Len(results) \in Nat
    BY <2>3 DEF Ordered, IC1!TypeOK
  <2>6. Len(results) < kTopN => RowsIn(results) = IC1!Friends
    BY <2>3, <2>5, LimitAssumption DEF AreFirst
  <2>7. \A r \in RowsIn(results), t \in IC1!Friends \ RowsIn(results) : IC1!Precedes(r, t)
    BY <2>3, <2>4 DEF AreFirst
  <2>8. \A i, j \in DOMAIN results : i < j => IC1!Precedes(results[i], results[j])
    BY <2>3, <2>4 DEF Ordered
  <2>9. RowsIn(results) \subseteq IC1!Friends
    BY <2>3 DEF AreFirst
  <2> QED
    BY <2>5, <2>6, <2>7, <2>8, <2>9 DEF RowsIn
<1> QED
  BY <1>1, <1>2, SameCount DEF IC1!MetAtDistance, IC1!ReturnsTheNearest

------------------------------------------------------------------------------
(****************************************************************************)
(* The order of the rows of IC5 and IC10: by a number, the greatest first,  *)
(* and then by identifier.                                                  *)
(****************************************************************************)
Counted == Int \X Nat

ByCount ==
  {p \in Counted \X Counted :
     p[1][1] > p[2][1] \/ (p[1][1] = p[2][1] /\ p[1][2] < p[2][2])}

LEMMA InByCount ==
  ASSUME NEW r \in Counted, NEW t \in Counted
  PROVE  /\ <<r, t>> \in ByCount <=> r[1] > t[1] \/ (r[1] = t[1] /\ r[2] < t[2])
         /\ <<r, t>> \in ByCount <=> IC5!Precedes(r, t)
         /\ <<r, t>> \in ByCount <=> IC10!Precedes(r, t)
BY DEF ByCount, IC5!Precedes, IC10!Precedes

LEMMA OrderByCount == StrictTotal(ByCount, Counted)
<1>1. \A r \in Counted : r[1] \in Int /\ r[2] \in Nat /\ r = <<r[1], r[2]>>
  BY DEF Counted
<1>2. ASSUME NEW r \in Counted PROVE <<r, r>> \notin ByCount
  BY <1>1, InByCount
<1>3. ASSUME NEW r \in Counted, NEW t \in Counted
      PROVE  r = t \/ <<r, t>> \in ByCount \/ <<t, r>> \in ByCount
  <2>1. r[1] = t[1] /\ r[2] = t[2] => r = t
    BY <1>1
  <2> QED
    BY <1>1, <2>1, InByCount
<1>4. ASSUME NEW r \in Counted, NEW s \in Counted, NEW t \in Counted,
             <<r, s>> \in ByCount, <<s, t>> \in ByCount
      PROVE  <<r, t>> \in ByCount
  BY <1>1, <1>4, InByCount
<1> QED
  BY <1>2, <1>3, <1>4 DEF StrictTotal

LEMMA LastByCount ==
  ASSUME NEW H, H \subseteq Counted, NEW w
  PROVE  /\ IC10!IsTop(w, H) <=> IsLast(ByCount, w, H)
         /\ H = heap => (IC5!IsTop(w) <=> IsLast(ByCount, w, H))
<1>1. ASSUME w \in H
      PROVE  \A r \in H : /\ <<r, w>> \in ByCount <=> IC5!Precedes(r, w)
                          /\ <<r, w>> \in ByCount <=> IC10!Precedes(r, w)
  BY <1>1, InByCount
<1> QED
  BY <1>1 DEF IC5!IsTop, IC10!IsTop, IsLast

------------------------------------------------------------------------------
(****************************************************************************)
(* IC5: types.                                                              *)
(****************************************************************************)
LEMMA ForumWorld ==
  ASSUME world \in IC5Worlds
  PROVE  /\ world.joined \subseteq Friend \X Forum
         /\ \A p \in Post : world.creator[p] \in Friend /\ world.forumOf[p] \in Forum \cup {none}
BY WorldsAssumption DEF IC5!World

LEMMA InitForumType == IC5!Init => IC5!TypeOK
<1> SUFFICES ASSUME IC5!Init PROVE IC5!TypeOK
  OBVIOUS
<1>1. results \in Seq(Nat \X Forum) /\ postCount \in [Forum -> Nat]
  BY DEF IC5!Init
<1> QED
  BY <1>1 DEF IC5!Init, IC5!TypeOK

LEMMA OfferType ==
  ASSUME IC5!TypeOK, NEW f, NEW row \in Nat \X Forum, NEW others, IC5!Offer(f, row, others)
  PROVE  /\ heap' \subseteq Nat \X Forum
         /\ offered' \subseteq Forum /\ accessed' \subseteq forums
BY DEF IC5!TypeOK, IC5!Offer

LEMMA NextForumType ==
  ASSUME IC5!TypeOK, IC5!Next
  PROVE  IC5!TypeOK'
<1>1. ASSUME NEW x \in Friend, IC5!TakeFriend(x) PROVE IC5!TypeOK'
  <2>1. IC5!Joined(x) \subseteq Forum
    BY DEF IC5!Joined
  <2> QED
    BY <1>1, <2>1 DEF IC5!TakeFriend, IC5!TypeOK
<1>2. ASSUME NEW p \in Post, IC5!CountPost(p) PROVE IC5!TypeOK'
  <2>1. postCount' \in [Forum -> Nat]
    BY <1>2 DEF IC5!CountPost, IC5!TypeOK
  <2> QED
    BY <1>2, <2>1 DEF IC5!CountPost, IC5!TypeOK
<1>3. CASE IC5!EndOfFriend
  BY <1>3 DEF IC5!EndOfFriend, IC5!TypeOK
<1>4. CASE IC5!EndOfFriends
  BY <1>4 DEF IC5!EndOfFriends, IC5!TypeOK
<1>5. ASSUME NEW f \in Forum, IC5!OfferCounted(f) PROVE IC5!TypeOK'
  <2>1. <<postCount[f], f>> \in Nat \X Forum
    BY DEF IC5!TypeOK
  <2>2. heap' \subseteq Nat \X Forum /\ offered' \subseteq Forum /\ accessed' \subseteq forums
    BY <1>5, <2>1, OfferType DEF IC5!OfferCounted
  <2> QED
    BY <1>5, <2>2 DEF IC5!OfferCounted, IC5!TypeOK
<1>6. CASE IC5!EndOfCounted
  BY <1>6 DEF IC5!EndOfCounted, IC5!TypeOK
<1>7. ASSUME NEW f \in Forum, IC5!OfferEmpty(f) PROVE IC5!TypeOK'
  <2>1. heap' \subseteq Nat \X Forum /\ offered' \subseteq Forum /\ accessed' \subseteq forums
    BY <1>7, OfferType DEF IC5!OfferEmpty
  <2> QED
    BY <1>7, <2>1 DEF IC5!OfferEmpty, IC5!TypeOK
<1>8. CASE IC5!EndOfEmpty
  BY <1>8 DEF IC5!EndOfEmpty, IC5!TypeOK
<1>9. ASSUME NEW w \in heap, IC5!Output(w) PROVE IC5!TypeOK'
  <2>1. w \in Nat \X Forum
    BY DEF IC5!TypeOK
  <2>2. results' \in Seq(Nat \X Forum)
    BY <1>9, <2>1, Prepended DEF IC5!Output, IC5!TypeOK
  <2> QED
    BY <1>9, <2>2 DEF IC5!Output, IC5!TypeOK
<1>10. CASE IC5!Return
  BY <1>10 DEF IC5!Return, IC5!TypeOK
<1> QED
  BY <1>1, <1>2, <1>3, <1>4, <1>5, <1>6, <1>7, <1>8, <1>9, <1>10 DEF IC5!Next

------------------------------------------------------------------------------
(****************************************************************************)
(* IC5: the counts.                                                         *)
(****************************************************************************)
CountedIn(f) ==
  {p \in Post : /\ world.forumOf[p] = f
                /\ <<world.creator[p], f>> \in world.joined
                /\ world.creator[p] \notin friends
                /\ p \notin posts}

(* The flags are those of the friend whose posts are at hand, and down      *)
(* between two friends.                                                     *)
CountInv ==
  /\ \A f \in Forum : /\ IsFiniteSet(CountedIn(f))
                      /\ postCount[f] = Cardinality(CountedIn(f))
  /\ forums = {f \in Forum : \E x \in Friend \ friends : <<x, f>> \in world.joined}
  /\ pc = "posts" =>
       \E x \in Friend \ friends : /\ personForums = IC5!Joined(x)
                                   /\ \A p \in posts : world.creator[p] = x
  /\ pc # "posts" => personForums = {} /\ posts = {}
  /\ pc \notin {"friends", "posts"} => friends = {}

LEMMA InitCounts == IC5!Init => CountInv
<1> SUFFICES ASSUME IC5!Init PROVE CountInv
  OBVIOUS
<1>1. \A f \in Forum : CountedIn(f) = {} /\ postCount[f] = 0
  BY ForumWorld DEF IC5!Init, CountedIn
<1> QED
  BY <1>1, FS_EmptySet DEF IC5!Init, CountInv

LEMMA TakeFriendCounts ==
  ASSUME IC5!TypeOK, CountInv, NEW x \in Friend, IC5!TakeFriend(x)
  PROVE  CountInv'
<1>1. /\ pc = "friends" /\ x \in friends /\ friends' = friends \ {x} /\ world' = world
      /\ personForums = {} /\ posts = {} /\ postCount' = postCount
      /\ personForums' = IC5!Joined(x) /\ forums' = forums \cup IC5!Joined(x)
      /\ posts' = (IF IC5!Joined(x) = {} THEN {} ELSE {p \in Post : world.creator[p] = x})
      /\ pc' = IF IC5!Joined(x) = {} THEN "friends" ELSE "posts"
  BY DEF IC5!TakeFriend, CountInv
<1>2. \A f \in Forum : f \in IC5!Joined(x) <=> <<x, f>> \in world.joined
  BY DEF IC5!Joined
<1>3. ASSUME NEW f \in Forum PROVE CountedIn(f)' = CountedIn(f)
  BY <1>1, <1>2 DEF CountedIn
<1>4. forums' = {f \in Forum : \E y \in Friend \ friends' : <<y, f>> \in world.joined}
  <2>1. forums = {f \in Forum : \E y \in Friend \ friends : <<y, f>> \in world.joined}
    BY DEF CountInv
  <2>2. Friend \ friends' = (Friend \ friends) \cup {x}
    BY <1>1
  <2> QED
    BY <1>1, <1>2, <2>1, <2>2 DEF IC5!Joined
<1>5. (pc = "posts")' => \E y \in Friend \ friends' : /\ personForums' = IC5!Joined(y)'
                                                      /\ \A p \in posts' : world'.creator[p] = y
  <2>1. x \in Friend \ friends' /\ IC5!Joined(x)' = IC5!Joined(x)
    BY <1>1 DEF IC5!Joined
  <2>2. \A p \in posts' : world.creator[p] = x
    BY <1>1
  <2> QED
    BY <1>1, <2>1, <2>2
<1>6. (pc # "posts")' => personForums' = {} /\ posts' = {}
  BY <1>1
<1>7. \A f \in Forum : IsFiniteSet(CountedIn(f)') /\ postCount'[f] = Cardinality(CountedIn(f)')
  BY <1>1, <1>3 DEF CountInv
<1>8. pc' \in {"friends", "posts"}
  BY <1>1
<1> QED
  BY <1>1, <1>4, <1>5, <1>6, <1>7, <1>8 DEF CountInv

(* A post counts for its forum if the flag of the forum is up, which it is  *)
(* just when the author of the post joined it.                              *)
LEMMA CountPostCounts ==
  ASSUME IC5!TypeOK, CountInv, NEW p \in Post, IC5!CountPost(p)
  PROVE  CountInv'
<1> DEFINE g == world.forumOf[p]
<1>1. /\ pc = "posts" /\ pc' = pc /\ p \in posts /\ posts' = posts \ {p} /\ world' = world
      /\ friends' = friends /\ personForums' = personForums /\ forums' = forums
      /\ postCount' = IF g \in Forum /\ g \in personForums
                      THEN [postCount EXCEPT ![g] = @ + 1] ELSE postCount
  BY DEF IC5!CountPost
<1>2. PICK x \in Friend \ friends : /\ personForums = IC5!Joined(x)
                                    /\ \A q \in posts : world.creator[q] = x
  BY <1>1 DEF CountInv
<1>3. world.creator[p] = x /\ postCount \in [Forum -> Nat]
  BY <1>1, <1>2, ForumWorld DEF IC5!TypeOK
<1>4. g \in Forum => (g \in personForums <=> <<world.creator[p], g>> \in world.joined)
  BY <1>2, <1>3 DEF IC5!Joined
<1> HIDE DEF g
<1>5. ASSUME NEW f \in Forum
      PROVE  IsFiniteSet(CountedIn(f)') /\ postCount'[f] = Cardinality(CountedIn(f)')
  <2>1. IsFiniteSet(CountedIn(f)) /\ postCount[f] = Cardinality(CountedIn(f))
    BY DEF CountInv
  <2>2. CASE f = g /\ g \in personForums
    <3>1. CountedIn(f)' = CountedIn(f) \cup {p} /\ p \notin CountedIn(f)
      BY <1>1, <1>2, <1>3, <1>4, <2>2 DEF CountedIn, g
    <3>2. postCount'[f] = postCount[f] + 1
      BY <1>1, <1>3, <2>2
    <3>3. /\ IsFiniteSet(CountedIn(f) \cup {p})
          /\ Cardinality(CountedIn(f) \cup {p}) = Cardinality(CountedIn(f)) + 1
      BY <2>1, <3>1, FS_AddElement
    <3> QED
      BY <2>1, <3>1, <3>2, <3>3
  <2>3. CASE ~ (f = g /\ g \in personForums)
    <3>1. CountedIn(f)' = CountedIn(f)
      BY <1>1, <1>3, <1>4, <2>3 DEF CountedIn, g
    <3>2. postCount'[f] = postCount[f]
      BY <1>1, <1>3, <2>3
    <3> QED
      BY <2>1, <3>1, <3>2
  <2> QED
    BY <2>2, <2>3
<1>6. \E y \in Friend \ friends' : /\ personForums' = IC5!Joined(y)'
                                   /\ \A q \in posts' : world'.creator[q] = y
  BY <1>1, <1>2 DEF IC5!Joined
<1>7. forums' = {f \in Forum : \E y \in Friend \ friends : <<y, f>> \in world.joined}
  BY <1>1 DEF CountInv
<1> QED
  BY <1>1, <1>5, <1>6, <1>7 DEF CountInv

(* The other steps leave the counts alone.                                  *)
LEMMA CountsStay ==
  ASSUME CountInv, world' = world, friends' = friends, posts' = posts, forums' = forums,
         postCount' = postCount, pc \notin {"friends", "posts"}, pc' \notin {"friends", "posts"},
         personForums' = personForums
  PROVE  CountInv'
<1>1. \A f \in Forum : CountedIn(f)' = CountedIn(f)
  BY DEF CountedIn
<1> QED
  BY <1>1 DEF CountInv

LEMMA FriendDoneCounts ==
  ASSUME CountInv, IC5!EndOfFriend \/ IC5!EndOfFriends
  PROVE  CountInv'
<1>1. /\ world' = world /\ friends' = friends /\ posts' = {} /\ posts = {}
      /\ forums' = forums /\ postCount' = postCount /\ personForums' = {}
      /\ pc' = "friends" \/ (pc' = "counted" /\ friends = {})
  BY DEF IC5!EndOfFriend, IC5!EndOfFriends, CountInv
<1>2. \A f \in Forum : CountedIn(f)' = CountedIn(f)
  BY <1>1 DEF CountedIn
<1> QED
  BY <1>1, <1>2 DEF CountInv

------------------------------------------------------------------------------
(****************************************************************************)
(* IC5: the two passes over the forums.                                     *)
(****************************************************************************)
WithPosts == {f \in Forum : postCount[f] > 0}

(* The forums that were offered, or will not be.                            *)
Settled ==
  IF pc \in {"friends", "posts"} THEN {}
  ELSE IF pc = "counted" THEN WithPosts \ offered
  ELSE forums \ offered

CountRow(f) == <<postCount[f], f>>

SettledRows == {CountRow(f) : f \in Settled}

(* In the second pass a full heap holds a forum without posts, so that its  *)
(* top has none.                                                            *)
PassInv ==
  /\ pc \in {"friends", "posts"} => offered = {} /\ accessed = forums /\ heap = {}
  /\ pc = "counted" => offered \subseteq WithPosts /\ accessed = forums \ (WithPosts \ offered)
  /\ pc = "empty" => /\ offered \subseteq forums \ WithPosts
                     /\ Cardinality(heap) = kTopN => \E r \in heap : r[1] = 0
  /\ pc \in {"output", "done"} => offered = {}
  /\ pc \notin {"output", "done"} => results = << >>
  /\ pc = "done" => heap = {}

ForumInv ==
  /\ CountInv
  /\ PassInv
  /\ AreFirst(ByCount, heap \cup RowsIn(results), SettledRows)
  /\ Ordered(ByCount, heap, results)

LEMMA CountRowType ==
  ASSUME IC5!TypeOK, NEW f \in Forum
  PROVE  /\ CountRow(f) \in Counted /\ CountRow(f) \in Nat \X Forum
         /\ CountRow(f)[1] = postCount[f] /\ CountRow(f)[2] = f
         /\ postCount[f] \in Nat
BY PersonAssumption DEF IC5!TypeOK, CountRow, Counted

LEMMA ForumHeapType ==
  ASSUME IC5!TypeOK
  PROVE  /\ heap \subseteq Counted /\ results \in Seq(Counted)
         /\ \A r \in heap : r[1] \in Nat /\ r[2] \in Nat
<1>1. Nat \X Forum \subseteq Counted
  BY PersonAssumption DEF Counted
<1> QED
  BY <1>1 DEF IC5!TypeOK, Counted

(* A forum with posts is one of those the friends joined.                   *)
LEMMA WithPostsJoined ==
  ASSUME IC5!TypeOK, CountInv
  PROVE  WithPosts \subseteq forums
<1> SUFFICES ASSUME NEW f \in WithPosts PROVE f \in forums
  OBVIOUS
<1>1. f \in Forum /\ postCount[f] > 0 /\ postCount[f] = Cardinality(CountedIn(f))
  BY DEF WithPosts, CountInv
<1>2. CountedIn(f) # {}
  BY <1>1, FS_EmptySet
<1>3. PICK p \in CountedIn(f) : TRUE
  BY <1>2
<1>4. /\ p \in Post /\ <<world.creator[p], f>> \in world.joined
      /\ world.creator[p] \notin friends /\ world.creator[p] \in Friend
  BY ForumWorld DEF CountedIn, IC5!TypeOK
<1> QED
  BY <1>1, <1>4 DEF CountInv

LEMMA SettledType ==
  ASSUME IC5!TypeOK
  PROVE  /\ SettledRows \subseteq Counted
         /\ \A f \in Forum \ Settled : CountRow(f) \notin SettledRows
<1>1. Settled \subseteq Forum
  BY DEF Settled, WithPosts, IC5!TypeOK
<1> QED
  BY <1>1, CountRowType DEF SettledRows

(* A step that leaves the heap, the output and what is settled alone.       *)
LEMMA ForumRowsStay ==
  ASSUME ForumInv, CountInv', PassInv', heap' = heap, results' = results,
         SettledRows' = SettledRows
  PROVE  ForumInv'
BY DEF ForumInv

LEMMA NothingReturned ==
  ASSUME ForumInv, pc \notin {"output", "done"}
  PROVE  results = << >> /\ AreFirst(ByCount, heap, SettledRows)
<1>1. results = << >>
  BY DEF ForumInv, PassInv
<1>2. heap \cup RowsIn(results) = heap
  BY <1>1, NothingOutput
<1> QED
  BY <1>1, <1>2 DEF ForumInv

(* While nothing is output, the heap decides.                               *)
LEMMA HeapDecides ==
  ASSUME CountInv', PassInv', results' = << >>, AreFirst(ByCount, heap', SettledRows')
  PROVE  ForumInv'
<1>1. RowsIn(results') = {} /\ Ordered(ByCount, heap', results')
  BY NothingOutput
<1>2. heap' \cup RowsIn(results') = heap'
  BY <1>1
<1>3. AreFirst(ByCount, heap' \cup RowsIn(results'), SettledRows')
  BY <1>2
<1> QED
  BY <1>1, <1>3 DEF ForumInv

LEMMA InitForums == IC5!Init => ForumInv
<1> SUFFICES ASSUME IC5!Init PROVE ForumInv
  OBVIOUS
<1>1. CountInv /\ PassInv
  BY InitCounts DEF IC5!Init, PassInv
<1>2. heap = {} /\ results = << >> /\ SettledRows = {}
  BY DEF IC5!Init, SettledRows, Settled
<1>3. RowsIn(results) = {} /\ Ordered(ByCount, heap, results)
  BY <1>2, NothingOutput
<1>4. heap \cup RowsIn(results) = {}
  BY <1>2, <1>3
<1>5. AreFirst(ByCount, heap \cup RowsIn(results), SettledRows)
  BY <1>2, <1>4, NothingIsFirst
<1> QED
  BY <1>1, <1>3, <1>5 DEF ForumInv

(* The row of a forum that is offered takes the place the order gives it,   *)
(* if the test of the offer agrees with the order at the top.               *)
LEMMA OfferedRow ==
  ASSUME NEW O, O \subseteq Counted, AreFirst(ByCount, heap, O),
         NEW row \in Counted, row \notin O, NEW f, NEW worse, IC5!Offer(f, row, worse),
         \A w \in heap : IsLast(ByCount, w, heap) /\ Cardinality(heap) = kTopN =>
                           (w \in worse <=> <<row, w>> \in ByCount)
  PROVE  /\ AreFirst(ByCount, heap', O \cup {row})
         /\ row \in heap' \/ (heap' = heap /\ Cardinality(heap) = kTopN)
<1>1. heap \subseteq Counted
  BY DEF AreFirst
<1>2. \/ Cardinality(heap) # kTopN /\ heap' = heap \cup {row}
      \/ Cardinality(heap) = kTopN /\ \E w \in heap :
           /\ IsLast(ByCount, w, heap)
           /\ heap' = IF w \in worse THEN (heap \ {w}) \cup {row} ELSE heap
  BY <1>1, SameCount, LastByCount DEF IC5!Offer, IC5!Full
<1>3. CASE Cardinality(heap) # kTopN /\ heap' = heap \cup {row}
  BY <1>3, PushedAreFirst
<1>4. ASSUME Cardinality(heap) = kTopN, NEW w \in heap, IsLast(ByCount, w, heap),
             heap' = IF w \in worse THEN (heap \ {w}) \cup {row} ELSE heap
      PROVE  /\ AreFirst(ByCount, heap', O \cup {row})
             /\ row \in heap' \/ (heap' = heap /\ Cardinality(heap) = kTopN)
  <2>1. CASE w \in worse
    <3>1. heap' = (heap \ {w}) \cup {row} /\ <<row, w>> \in ByCount
      BY <1>4, <2>1
    <3>2. AreFirst(ByCount, (heap \ {w}) \cup {row}, O \cup {row})
      BY <1>4, <3>1, OrderByCount, ReplacedAreFirst
    <3> QED
      BY <3>1, <3>2
  <2>2. CASE w \notin worse
    <3>1. heap' = heap /\ <<row, w>> \notin ByCount
      BY <1>4, <2>2
    <3>2. AreFirst(ByCount, heap, O \cup {row})
      BY <1>4, <3>1, OrderByCount, DroppedAreFirst
    <3> QED
      BY <1>4, <3>1, <3>2
  <2> QED
    BY <2>1, <2>2
<1> QED
  BY <1>2, <1>3, <1>4

LEMMA FriendSteps ==
  ASSUME IC5!TypeOK, ForumInv,
         \/ \E x \in Friend : IC5!TakeFriend(x)
         \/ \E p \in Post : IC5!CountPost(p)
         \/ IC5!EndOfFriend \/ IC5!EndOfFriends
  PROVE  ForumInv'
<1>1. /\ pc \in {"friends", "posts"} /\ pc' \in {"friends", "posts", "counted"}
      /\ heap' = heap /\ results' = results
  BY DEF IC5!TakeFriend, IC5!CountPost, IC5!EndOfFriend, IC5!EndOfFriends
<1>2. CountInv'
  BY TakeFriendCounts, CountPostCounts, FriendDoneCounts DEF ForumInv
<1>3. offered = {} /\ accessed = forums /\ heap = {} /\ results = << >>
  BY <1>1 DEF ForumInv, PassInv
<1>4. \/ pc' \in {"friends", "posts"} /\ offered' = {} /\ accessed' = forums'
      \/ pc' = "counted" /\ offered' = WithPosts' /\ accessed' = forums'
  BY <1>3 DEF IC5!TakeFriend, IC5!CountPost, IC5!EndOfFriend, IC5!EndOfFriends, WithPosts
<1>5. PassInv'
  BY <1>1, <1>3, <1>4 DEF PassInv
<1>6. SettledRows = {} /\ SettledRows' = {}
  BY <1>1, <1>4 DEF SettledRows, Settled
<1> QED
  BY <1>1, <1>2, <1>5, <1>6, ForumRowsStay

LEMMA OfferCountedStep ==
  ASSUME IC5!TypeOK, ForumInv, NEW f \in Forum, IC5!OfferCounted(f)
  PROVE  ForumInv'
<1> DEFINE row == CountRow(f)
           worse == {w \in heap : w[1] < row[1] \/ (w[1] = row[1] /\ f < w[2])}
<1>1. /\ pc = "counted" /\ pc' = pc /\ world' = world /\ friends' = friends /\ posts' = posts
      /\ personForums' = personForums /\ forums' = forums /\ postCount' = postCount
      /\ results' = results /\ IC5!Offer(f, row, worse)
  BY DEF IC5!OfferCounted, CountRow
<1>2. f \in offered /\ offered' = offered \ {f} /\ accessed' = accessed \ {f}
  BY <1>1 DEF IC5!Offer
<1>3. /\ results = << >> /\ AreFirst(ByCount, heap, SettledRows)
      /\ offered \subseteq WithPosts /\ accessed = forums \ (WithPosts \ offered)
  BY <1>1, NothingReturned DEF ForumInv, PassInv
<1>4. CountInv'
  BY <1>1, CountsStay DEF ForumInv
<1>5. WithPosts' = WithPosts /\ Settled = WithPosts \ offered /\ Settled' = Settled \cup {f}
  BY <1>1, <1>2, <1>3 DEF WithPosts, Settled
<1>6. SettledRows' = SettledRows \cup {row}
  BY <1>1, <1>5 DEF SettledRows, CountRow
<1>7. /\ row \in Counted /\ row \notin SettledRows /\ SettledRows \subseteq Counted
      /\ heap \subseteq Counted /\ row[1] = postCount[f] /\ row[2] = f
      /\ \A w \in heap : w[1] \in Nat /\ w[2] \in Nat
      /\ postCount[f] \in Nat
  BY <1>2, <1>5, SettledType, CountRowType, ForumHeapType
<1>8. \A w \in heap : w \in worse <=> <<row, w>> \in ByCount
  BY <1>7, InByCount
<1> HIDE DEF row, worse
<1>9. AreFirst(ByCount, heap', SettledRows \cup {row})
  BY <1>1, <1>3, <1>7, <1>8, OfferedRow
<1>10. PassInv'
  BY <1>1, <1>2, <1>3, <1>5 DEF PassInv
<1> QED
  BY <1>1, <1>3, <1>4, <1>6, <1>9, <1>10, HeapDecides

LEMMA OfferEmptyStep ==
  ASSUME IC5!TypeOK, ForumInv, NEW f \in Forum, IC5!OfferEmpty(f)
  PROVE  ForumInv'
<1> DEFINE row == CountRow(f)
           worse == {w \in heap : f < w[2]}
<1>1. /\ pc = "empty" /\ pc' = pc /\ world' = world /\ friends' = friends /\ posts' = posts
      /\ personForums' = personForums /\ forums' = forums /\ postCount' = postCount
      /\ results' = results /\ IC5!Offer(f, <<0, f>>, worse)
  BY DEF IC5!OfferEmpty
<1>2. f \in offered /\ offered' = offered \ {f}
  BY <1>1 DEF IC5!Offer
<1>3. /\ results = << >> /\ AreFirst(ByCount, heap, SettledRows)
      /\ offered \subseteq forums \ WithPosts
      /\ Cardinality(heap) = kTopN => \E r \in heap : r[1] = 0
  BY <1>1, NothingReturned DEF ForumInv, PassInv
<1>4. CountInv'
  BY <1>1, CountsStay DEF ForumInv
<1>5. WithPosts' = WithPosts /\ Settled = forums \ offered /\ Settled' = Settled \cup {f}
  BY <1>1, <1>2, <1>3 DEF WithPosts, Settled
<1>6. SettledRows' = SettledRows \cup {row}
  BY <1>1, <1>5 DEF SettledRows, CountRow
<1>7. /\ row \in Counted /\ row \notin SettledRows /\ SettledRows \subseteq Counted
      /\ heap \subseteq Counted /\ row[1] = postCount[f] /\ row[2] = f
      /\ \A w \in heap : w[1] \in Nat /\ w[2] \in Nat
      /\ postCount[f] \in Nat
  BY <1>2, <1>5, SettledType, CountRowType, ForumHeapType
<1>8. postCount[f] = 0 /\ row = <<0, f>>
  BY <1>2, <1>3, <1>7 DEF WithPosts, CountRow
<1>9. ASSUME NEW w \in heap, IsLast(ByCount, w, heap), Cardinality(heap) = kTopN
      PROVE  w \in worse <=> <<row, w>> \in ByCount
  <2>1. PICK r \in heap : r[1] = 0
    BY <1>3, <1>9
  <2>2. r = w \/ <<r, w>> \in ByCount
    BY <1>9 DEF IsLast
  <2>3. w[1] = 0
    BY <1>7, <2>1, <2>2, InByCount
  <2> QED
    BY <1>7, <1>8, <2>3, InByCount
<1> HIDE DEF row, worse
<1>10. /\ AreFirst(ByCount, heap', SettledRows \cup {row})
       /\ row \in heap' \/ (heap' = heap /\ Cardinality(heap) = kTopN)
  BY <1>1, <1>3, <1>7, <1>8, <1>9, OfferedRow
<1>11. \E r \in heap' : r[1] = 0
  BY <1>3, <1>7, <1>8, <1>10
<1>12. PassInv'
  BY <1>1, <1>2, <1>3, <1>5, <1>11 DEF PassInv
<1> QED
  BY <1>1, <1>3, <1>4, <1>6, <1>10, <1>12, HeapDecides

(* A heap that is full after the first pass holds forums with posts, and    *)
(* all that is left has none.                                               *)
LEMMA EndOfCountedStep ==
  ASSUME IC5!TypeOK, ForumInv, IC5!EndOfCounted
  PROVE  ForumInv'
<1>1. /\ pc = "counted" /\ world' = world /\ friends' = friends /\ posts' = posts
      /\ personForums' = personForums /\ forums' = forums /\ postCount' = postCount
      /\ results' = results /\ heap' = heap /\ accessed' = accessed /\ offered = {}
      /\ pc' = (IF Cardinality(heap) = kTopN THEN "output" ELSE "empty")
      /\ offered' = IF Cardinality(heap) = kTopN THEN {} ELSE forums \cap accessed
  BY SameCount DEF IC5!EndOfCounted, IC5!Full
<1>2. /\ results = << >> /\ AreFirst(ByCount, heap, SettledRows)
      /\ accessed = forums \ WithPosts /\ Settled = WithPosts
  BY <1>1, NothingReturned DEF ForumInv, PassInv, Settled
<1>3. CountInv'
  BY <1>1, CountsStay DEF ForumInv
<1>4. WithPosts' = WithPosts /\ WithPosts \subseteq forums
  BY <1>1, WithPostsJoined DEF WithPosts, ForumInv
<1>5. CASE Cardinality(heap) = kTopN
  <2>1. pc' = "output" /\ offered' = {} /\ Settled' = forums
    BY <1>1, <1>5 DEF Settled
  <2>2. SettledRows' = {CountRow(f) : f \in forums} /\ SettledRows = {CountRow(f) : f \in WithPosts}
    BY <1>1, <1>2, <2>1 DEF SettledRows, CountRow
  <2>3. ASSUME NEW r \in heap, NEW t \in SettledRows' \ SettledRows PROVE <<r, t>> \in ByCount
    <3>1. PICK f \in forums : t = CountRow(f)
      BY <2>2
    <3>2. f \in Forum /\ ~ (postCount[f] > 0)
      BY <2>2, <3>1 DEF WithPosts, IC5!TypeOK
    <3>3. PICK g \in WithPosts : r = CountRow(g)
      BY <1>2, <2>2 DEF AreFirst
    <3>4. g \in Forum /\ postCount[g] > 0
      BY DEF WithPosts
    <3> QED
      BY <3>1, <3>2, <3>3, <3>4, CountRowType, InByCount
  <2>4. SettledRows \subseteq SettledRows'
    BY <1>4, <2>2
  <2>5. AreFirst(ByCount, heap', SettledRows')
    BY <1>1, <1>2, <1>5, <2>3, <2>4, RestIsBehind
  <2>6. PassInv'
    BY <2>1 DEF PassInv
  <2> QED
    BY <1>1, <1>2, <1>3, <2>5, <2>6, HeapDecides
<1>6. CASE Cardinality(heap) # kTopN
  <2>1. pc' = "empty" /\ offered' = forums \ WithPosts /\ Settled' = WithPosts
    BY <1>1, <1>2, <1>4, <1>6 DEF Settled
  <2>2. SettledRows' = SettledRows
    BY <1>1, <1>2, <2>1 DEF SettledRows, CountRow
  <2>3. PassInv'
    BY <1>1, <1>2, <1>4, <1>6, <2>1 DEF PassInv
  <2> QED
    BY <1>1, <1>3, <2>2, <2>3, ForumRowsStay
<1> QED
  BY <1>5, <1>6

LEMMA EndOfEmptyStep ==
  ASSUME ForumInv, IC5!EndOfEmpty
  PROVE  ForumInv'
<1>1. /\ pc = "empty" /\ pc' = "output" /\ world' = world /\ friends' = friends
      /\ posts' = posts /\ personForums' = personForums /\ forums' = forums
      /\ postCount' = postCount /\ results' = results /\ heap' = heap
      /\ offered = {} /\ offered' = {}
  BY DEF IC5!EndOfEmpty
<1>2. CountInv'
  BY <1>1, CountsStay DEF ForumInv
<1>3. PassInv'
  BY <1>1 DEF PassInv
<1>4. SettledRows' = SettledRows
  BY <1>1 DEF SettledRows, Settled, CountRow
<1> QED
  BY <1>1, <1>2, <1>3, <1>4, ForumRowsStay

LEMMA ForumOutputStep ==
  ASSUME IC5!TypeOK, ForumInv, NEW w \in heap, IC5!Output(w)
  PROVE  ForumInv'
<1>1. /\ pc = "output" /\ pc' = pc /\ world' = world /\ friends' = friends
      /\ posts' = posts /\ personForums' = personForums /\ forums' = forums
      /\ postCount' = postCount /\ results' = Front(w, results) /\ heap' = heap \ {w}
      /\ offered' = offered /\ IC5!IsTop(w)
  BY DEF IC5!Output, Front
<1>2. CountInv'
  BY <1>1, CountsStay DEF ForumInv
<1>3. PassInv'
  BY <1>1 DEF PassInv, ForumInv
<1>4. SettledRows' = SettledRows
  BY <1>1 DEF SettledRows, Settled, CountRow
<1>5. heap \subseteq Counted /\ results \in Seq(Counted) /\ w \in Counted
  BY ForumHeapType
<1>6. IsLast(ByCount, w, heap)
  BY <1>1, <1>5, LastByCount
<1>7. Ordered(ByCount, heap, results)
  BY DEF ForumInv
<1>8. /\ Ordered(ByCount, heap \ {w}, results')
      /\ RowsIn(results') = RowsIn(results) \cup {w}
  <2>1. results' = Front(w, results)
    BY <1>1
  <2> QED
    BY <1>5, <1>6, <1>7, <2>1, OrderByCount, OutputKeepsOrder
<1>9. heap' \cup RowsIn(results') = heap \cup RowsIn(results)
  BY <1>1, <1>8
<1>10. AreFirst(ByCount, heap' \cup RowsIn(results'), SettledRows')
  BY <1>4, <1>9 DEF ForumInv
<1> QED
  BY <1>1, <1>2, <1>3, <1>8, <1>10 DEF ForumInv

LEMMA ForumReturnStep ==
  ASSUME ForumInv, IC5!Return
  PROVE  ForumInv'
<1>1. /\ pc = "output" /\ pc' = "done" /\ world' = world /\ friends' = friends
      /\ posts' = posts /\ personForums' = personForums /\ forums' = forums
      /\ postCount' = postCount /\ results' = results /\ heap' = heap
      /\ offered' = offered /\ heap = {}
  BY DEF IC5!Return
<1>2. CountInv'
  BY <1>1, CountsStay DEF ForumInv
<1>3. PassInv'
  BY <1>1 DEF PassInv, ForumInv
<1>4. SettledRows' = SettledRows
  BY <1>1 DEF SettledRows, Settled, CountRow
<1> QED
  BY <1>1, <1>2, <1>3, <1>4, ForumRowsStay

LEMMA NextForums ==
  ASSUME IC5!TypeOK, ForumInv, IC5!Next
  PROVE  ForumInv'
<1>1. ASSUME \/ \E x \in Friend : IC5!TakeFriend(x)
             \/ \E p \in Post : IC5!CountPost(p)
             \/ IC5!EndOfFriend \/ IC5!EndOfFriends
      PROVE  ForumInv'
  BY <1>1, FriendSteps
<1>2. ASSUME NEW f \in Forum, IC5!OfferCounted(f) \/ IC5!OfferEmpty(f) PROVE ForumInv'
  BY <1>2, OfferCountedStep, OfferEmptyStep
<1>3. CASE IC5!EndOfCounted \/ IC5!EndOfEmpty \/ IC5!Return
  BY <1>3, EndOfCountedStep, EndOfEmptyStep, ForumReturnStep
<1>4. ASSUME NEW w \in heap, IC5!Output(w) PROVE ForumInv'
  BY <1>4, ForumOutputStep
<1> QED
  BY <1>1, <1>2, <1>3, <1>4 DEF IC5!Next

(* The counts of the members, and the rows given back.                      *)
LEMMA ForumsShow ==
  ASSUME IC5!TypeOK, ForumInv
  PROVE  IC5!CountsAreOfMembers /\ IC5!ReturnsTheFirst
<1>1. IC5!CountsAreOfMembers
  BY SameCount DEF ForumInv, CountInv, CountedIn, IC5!CountsAreOfMembers
<1>2. ASSUME pc = "done"
      PROVE  LET found == {results[i] : i \in DOMAIN results} IN
             /\ found \subseteq IC5!Rows
             /\ Len(results) = Cardinality(found)
             /\ Len(results) < kTopN => found = IC5!Rows
             /\ \A r \in found, t \in IC5!Rows \ found : IC5!Precedes(r, t)
             /\ \A i, j \in DOMAIN results : i < j => IC5!Precedes(results[i], results[j])
  <2>1. /\ heap = {} /\ friends = {} /\ posts = {} /\ offered = {} /\ Settled = forums
        /\ forums = {f \in Forum : \E x \in Friend : <<x, f>> \in world.joined}
    BY <1>2 DEF ForumInv, CountInv, PassInv, Settled
  <2>2. forums = {e[2] : e \in world.joined}
    <3>1. world.joined \subseteq Friend \X Forum
      BY ForumWorld DEF IC5!TypeOK
    <3>2. ASSUME NEW f \in forums PROVE \E e \in world.joined : f = e[2]
      <4>1. PICK x \in Friend : <<x, f>> \in world.joined
        BY <2>1
      <4>2. <<x, f>>[2] = f
        OBVIOUS
      <4> QED
        BY <4>1, <4>2
    <3>3. ASSUME NEW e \in world.joined PROVE e[2] \in forums
      <4>1. e[1] \in Friend /\ e[2] \in Forum /\ <<e[1], e[2]>> \in world.joined
        BY <3>1
      <4> QED
        BY <2>1, <4>1
    <3> QED
      BY <3>2, <3>3
  <2>3. ASSUME NEW f \in forums PROVE CountRow(f) = <<IC5!PostsIn(f), f>>
    <3>1. f \in Forum
      BY <2>1
    <3>2. CountedIn(f) = {p \in Post : /\ world.forumOf[p] = f
                                       /\ <<world.creator[p], f>> \in world.joined}
      BY <2>1 DEF CountedIn
    <3>3. postCount[f] = IC5!PostsIn(f)
      BY <3>1, <3>2, SameCount DEF IC5!PostsIn, ForumInv, CountInv
    <3> QED
      BY <3>3 DEF CountRow
  <2>4. SettledRows = IC5!Rows
    BY <2>1, <2>2, <2>3 DEF SettledRows, IC5!Rows
  <2>5. heap \cup RowsIn(results) = RowsIn(results)
    BY <2>1
  <2>6. AreFirst(ByCount, RowsIn(results), IC5!Rows) /\ Ordered(ByCount, heap, results)
    BY <2>4, <2>5 DEF ForumInv
  <2>7. \A r, t \in Counted : <<r, t>> \in ByCount => IC5!Precedes(r, t)
    BY InByCount
  <2>8. \A r, t : <<r, t>> \in ByCount => IC5!Precedes(r, t)
    BY <2>7 DEF ByCount
  <2>9. Cardinality(RowsIn(results)) = Len(results) /\ Len(results) \in Nat
    BY <2>6 DEF Ordered, IC5!TypeOK
  <2>10. Len(results) < kTopN => RowsIn(results) = IC5!Rows
    BY <2>6, <2>9, LimitAssumption DEF AreFirst
  <2>11. \A r \in RowsIn(results), t \in IC5!Rows \ RowsIn(results) : IC5!Precedes(r, t)
    BY <2>6, <2>8 DEF AreFirst
  <2>12. \A i, j \in DOMAIN results : i < j => IC5!Precedes(results[i], results[j])
    BY <2>6, <2>8 DEF Ordered
  <2>13. RowsIn(results) \subseteq IC5!Rows
    BY <2>6 DEF AreFirst
  <2> QED
    BY <2>9, <2>10, <2>11, <2>12, <2>13 DEF RowsIn
<1>3. IC5!ReturnsTheFirst
  BY <1>2, SameCount DEF IC5!ReturnsTheFirst
<1> QED
  BY <1>1, <1>3

------------------------------------------------------------------------------
(****************************************************************************)
(* IC10: the sign, and types.                                               *)
(****************************************************************************)
LEMMA ScoreWorld ==
  ASSUME world \in IC10Worlds
  PROVE  /\ world.month \in 1..12
         /\ \A x \in Candidate : /\ world.common[x] \in Nat
                                 /\ world.other[x] \in Nat
                                 /\ world.birthday[x] \in (1..12) \X (1..31)
BY WorldsAssumption DEF IC10!World

(* The test of the code and the circular calendar of the property agree,    *)
(* at the turn of the year too.                                             *)
LEMMA SignOfTheMonth ==
  ASSUME world \in IC10Worlds, NEW x \in Candidate
  PROVE  IC10!InSign(x) <=> IC10!MatchesZodiacMonth(world.birthday[x], world.month)
<1> DEFINE m == world.birthday[x][1]
           d == world.birthday[x][2]
           n == world.month
           a == 31 * (m - n) + d - 21
<1>1. m \in 1..12 /\ d \in 1..31 /\ n \in 1..12
  BY ScoreWorld
<1>2. IC10!InSign(x) <=> a % 372 < 32
  <2>1. IC10!InSign(x) <=> ((31 * m + d) - (31 * n + 21)) % 372 < 32
    BY DEF IC10!InSign
  <2>2. (31 * m + d) - (31 * n + 21) = a
    <3> HIDE DEF m, d, n
    <3> QED
      BY <1>1
  <2> QED
    BY <2>1, <2>2
<1>3. IC10!MatchesZodiacMonth(world.birthday[x], world.month) <=>
        \/ m = n /\ d >= 21
        \/ m = (IF n = 12 THEN 1 ELSE n + 1) /\ d < 22
  BY DEF IC10!MatchesZodiacMonth
<1> HIDE DEF m, d, n
<1>4. a \in -361..351
  BY <1>1
<1>5. a % 372 < 32 <=> a \in 0..31 \/ a < -340
  <2> HIDE DEF a
  <2>1. CASE a >= 0
    BY <1>4, <2>1
  <2>2. CASE a < 0
    BY <1>4, <2>2
  <2> QED
    BY <1>4, <2>1, <2>2
<1>6. CASE m < n
  BY <1>1, <1>2, <1>3, <1>5, <1>6
<1>7. CASE m = n
  BY <1>1, <1>2, <1>3, <1>5, <1>7
<1>8. CASE m > n
  BY <1>1, <1>2, <1>3, <1>5, <1>8
<1> QED
  BY <1>1, <1>6, <1>7, <1>8

LEMMA InitScoreType == IC10!Init => IC10!TypeOK
<1> SUFFICES ASSUME IC10!Init PROVE IC10!TypeOK
  OBVIOUS
<1>1. results \in Seq(Int \X Candidate)
  BY DEF IC10!Init
<1> QED
  BY <1>1 DEF IC10!Init, IC10!TypeOK

LEMMA ScoreType ==
  ASSUME world \in IC10Worlds, NEW x \in Candidate
  PROVE  IC10!Score(x) \in Int
BY ScoreWorld DEF IC10!Score

LEMMA TopKeyType ==
  ASSUME NEW H, H \subseteq Int \X Candidate
  PROVE  {w[1] : w \in {t \in H : IC10!IsTop(t, H)}} \subseteq Int
OBVIOUS

LEMMA NextScoreType ==
  ASSUME IC10!TypeOK, pc = "score" => v \in Candidate, IC10!Next
  PROVE  IC10!TypeOK'
<1>1. ASSUME NEW x \in Candidate, IC10!Collect(x) PROVE IC10!TypeOK'
  BY <1>1 DEF IC10!Collect, IC10!TypeOK
<1>2. ASSUME NEW x \in Candidate, IC10!ScoreFirst(x) PROVE IC10!TypeOK'
  <2>1. <<IC10!Score(x), x>> \in Int \X Candidate
    BY ScoreType DEF IC10!TypeOK
  <2> QED
    BY <1>2, <2>1 DEF IC10!ScoreFirst, IC10!TypeOK
<1>3. ASSUME NEW x \in Candidate, IC10!TakeFriend(x) PROVE IC10!TypeOK'
  <2>1. world.common[x] \in Nat /\ world.other[x] \in Nat
    BY ScoreWorld DEF IC10!TypeOK
  <2> QED
    BY <1>3, <2>1 DEF IC10!TakeFriend, IC10!TypeOK
<1>4. CASE IC10!EndOfCollect
  BY <1>4 DEF IC10!EndOfCollect, IC10!TypeOK
<1>5. CASE IC10!EndOfFirst
  <2>1. minScore' \in Int
    BY <1>5, TopKeyType DEF IC10!EndOfFirst, IC10!TypeOK
  <2> QED
    BY <1>5, <2>1 DEF IC10!EndOfFirst, IC10!TypeOK
<1>6. CASE IC10!ScoreCommon
  BY <1>6 DEF IC10!ScoreCommon, IC10!TypeOK
<1>7. CASE IC10!ScoreOther
  BY <1>7 DEF IC10!ScoreOther, IC10!TypeOK
<1>8. CASE IC10!Offer
  <2>1. v \in Candidate /\ score \in Int
    BY <1>8 DEF IC10!Offer, IC10!TypeOK
  <2>2. heap' \subseteq Int \X Candidate
    <3>1. heap' = heap \cup {<<score, v>>}
            \/ \E w \in heap : heap' = (heap \ {w}) \cup {<<score, v>>} \/ heap' = heap
      BY <1>8 DEF IC10!Offer
    <3> QED
      BY <2>1, <3>1 DEF IC10!TypeOK
  <2>3. minScore' \in Int
    BY <1>8, <2>2, TopKeyType DEF IC10!Offer, IC10!TypeOK
  <2> QED
    BY <1>8, <2>2, <2>3 DEF IC10!Offer, IC10!TypeOK
<1>9. CASE IC10!EndOfScan
  BY <1>9 DEF IC10!EndOfScan, IC10!TypeOK
<1>10. ASSUME NEW w \in heap, IC10!Output(w) PROVE IC10!TypeOK'
  <2>1. w \in Int \X Candidate
    BY DEF IC10!TypeOK
  <2>2. results' \in Seq(Int \X Candidate)
    BY <1>10, <2>1, Prepended DEF IC10!Output, IC10!TypeOK
  <2> QED
    BY <1>10, <2>2 DEF IC10!Output, IC10!TypeOK
<1>11. CASE IC10!Return
  BY <1>11 DEF IC10!Return, IC10!TypeOK
<1> QED
  BY <1>1, <1>2, <1>3, <1>4, <1>5, <1>6, <1>7, <1>8, <1>9, <1>10, <1>11 DEF IC10!Next

------------------------------------------------------------------------------
(****************************************************************************)
(* IC10: the inductive invariant.                                           *)
(****************************************************************************)
Born ==
  {x \in Candidate \ unmet : IC10!MatchesZodiacMonth(world.birthday[x], world.month)}

(* The candidates scored or given up so far, with their whole scores.       *)
ScoreRow(x) == <<IC10!Score(x), x>>

Decided == {ScoreRow(x) : x \in Born \ (friends \cup {v})}

(* What is in use where, and what is known of the candidate being scored:   *)
(* the posts looked at and those left make up his score.                    *)
ScoreControl ==
  /\ friends \subseteq Born
  /\ v \notin friends
  /\ pc = "collect" => friends = Born
  /\ pc # "collect" => unmet = {}
  /\ pc = "score" => v \in Born /\ score + common - other = IC10!Score(v)
  /\ pc # "score" => v = IC10!None
  /\ pc \in {"output", "done"} => friends = {}
  /\ pc \notin {"output", "done"} => results = << >>
  /\ pc = "done" => heap = {}

(* From the second loop on, the heap is full while there is anybody to      *)
(* score, and minScore is the score of its top.                             *)
Threshold ==
  pc \in {"next", "score"} =>
    /\ Cardinality(heap) = kTopN \/ (pc = "next" /\ friends = {})
    /\ \A w \in heap : IsLast(ByCount, w, heap) => minScore = w[1]

ScoreInv ==
  /\ ScoreControl
  /\ Threshold
  /\ AreFirst(ByCount, heap \cup RowsIn(results), Decided)
  /\ Ordered(ByCount, heap, results)

LEMMA NobodyIsNone == IC10!None \notin Candidate
BY PersonAssumption DEF IC10!None

LEMMA ScoreRowType ==
  ASSUME IC10!TypeOK, NEW x \in Candidate
  PROVE  /\ ScoreRow(x) \in Counted /\ ScoreRow(x)[1] = IC10!Score(x) /\ ScoreRow(x)[2] = x
         /\ IC10!Score(x) \in Int /\ x \in Nat
BY PersonAssumption, ScoreType DEF ScoreRow, Counted, IC10!TypeOK

LEMMA ScoreHeapType ==
  ASSUME IC10!TypeOK
  PROVE  /\ heap \subseteq Counted /\ results \in Seq(Counted)
         /\ \A r \in heap : r[1] \in Int /\ r[2] \in Nat
<1>1. Int \X Candidate \subseteq Counted
  BY PersonAssumption DEF Counted
<1> QED
  BY <1>1 DEF IC10!TypeOK, Counted

LEMMA DecidedType ==
  ASSUME IC10!TypeOK
  PROVE  Decided \subseteq Counted
BY ScoreRowType DEF Decided, Born

(* Nothing is collected, kept or decided at the start.                      *)
LEMMA InitScores == IC10!Init => ScoreInv
<1> SUFFICES ASSUME IC10!Init PROVE ScoreInv
  OBVIOUS
<1>1. Born = {} /\ Decided = {} /\ heap = {} /\ results = << >>
  BY DEF IC10!Init, Born, Decided
<1>2. ScoreControl /\ Threshold
  BY <1>1 DEF IC10!Init, ScoreControl, Threshold
<1>3. RowsIn(results) = {} /\ Ordered(ByCount, heap, results)
  BY <1>1, NothingOutput
<1>4. heap \cup RowsIn(results) = {}
  BY <1>1, <1>3
<1>5. AreFirst(ByCount, heap \cup RowsIn(results), Decided)
  BY <1>1, <1>4, NothingIsFirst
<1> QED
  BY <1>2, <1>3, <1>5 DEF ScoreInv

(* A step that leaves the heap, the output and what is decided alone.       *)
LEMMA ScoreRowsStay ==
  ASSUME ScoreInv, ScoreControl', Threshold',
         heap' = heap, results' = results, Decided' = Decided
  PROVE  ScoreInv'
BY DEF ScoreInv

(* Before the output, what is kept is the heap.                             *)
LEMMA HeapIsKept ==
  ASSUME ScoreInv, pc \notin {"output", "done"}
  PROVE  results = << >> /\ AreFirst(ByCount, heap, Decided)
<1>1. results = << >>
  BY DEF ScoreInv, ScoreControl
<1>2. heap \cup RowsIn(results) = heap
  BY <1>1, NothingOutput
<1> QED
  BY <1>1, <1>2 DEF ScoreInv

LEMMA ScanKeepsInv ==
  ASSUME ScoreControl', Threshold', results' = << >>, AreFirst(ByCount, heap', Decided')
  PROVE  ScoreInv'
<1>1. RowsIn(results') = {} /\ Ordered(ByCount, heap', results')
  BY NothingOutput
<1>2. heap' \cup RowsIn(results') = heap'
  BY <1>1
<1>3. AreFirst(ByCount, heap' \cup RowsIn(results'), Decided')
  BY <1>2
<1> QED
  BY <1>1, <1>3 DEF ScoreInv

(* What is decided depends on the world, on those met and on those left.    *)
LEMMA DecidedStay ==
  ASSUME world' = world, unmet' = unmet
  PROVE  /\ Born' = Born /\ \A x : ScoreRow(x)' = ScoreRow(x) /\ IC10!Score(x)' = IC10!Score(x)
         /\ friends' = friends /\ v' = v => Decided' = Decided
<1>1. Born' = Born /\ \A x : ScoreRow(x)' = ScoreRow(x) /\ IC10!Score(x)' = IC10!Score(x)
  BY DEF Born, ScoreRow, IC10!Score
<1>2. friends' = friends /\ v' = v => Decided' = Decided
  BY <1>1 DEF Decided, ScoreRow, IC10!Score
<1> QED
  BY <1>1, <1>2

(* Two rows at the end of one set are the same.                             *)
LEMMA OneLast ==
  ASSUME NEW H, H \subseteq Counted, NEW w, NEW t,
         IsLast(ByCount, w, H), IsLast(ByCount, t, H)
  PROVE  w = t
<1>1. w \in Counted /\ t \in Counted
  BY DEF IsLast
<1>2. <<w, w>> \notin ByCount
  BY <1>1, OrderByCount DEF StrictTotal
<1>3. w # t => <<w, t>> \in ByCount /\ <<t, w>> \in ByCount
  BY DEF IsLast
<1> QED
  BY <1>1, <1>2, <1>3, OrderByCount DEF StrictTotal

------------------------------------------------------------------------------
(****************************************************************************)
(* IC10: one lemma per action.                                              *)
(****************************************************************************)
LEMMA CollectStep ==
  ASSUME ScoreInv, NEW x \in Candidate, IC10!Collect(x)
  PROVE  ScoreInv'
<1>1. /\ pc = "collect" /\ pc' = pc /\ world' = world /\ unmet' = unmet \ {x}
      /\ v' = v /\ results' = results /\ heap' = heap /\ x \in unmet
  BY DEF IC10!Collect
<1>2. friends' = Born'
  BY <1>1 DEF IC10!Collect, ScoreInv, ScoreControl, Born
<1>3. v = IC10!None /\ friends = Born /\ results = << >>
  BY <1>1 DEF ScoreInv, ScoreControl
<1>4. IC10!None \notin Born'
  BY NobodyIsNone DEF Born
<1>5. ScoreControl'
  BY <1>1, <1>2, <1>3, <1>4 DEF ScoreControl
<1>6. Threshold'
  BY <1>1 DEF Threshold
<1>7. Decided = {} /\ Decided' = {}
  BY <1>2, <1>3 DEF Decided
<1> QED
  BY <1>1, <1>5, <1>6, <1>7, ScoreRowsStay

LEMMA EndOfCollectStep ==
  ASSUME ScoreInv, IC10!EndOfCollect
  PROVE  ScoreInv'
<1>1. /\ pc = "collect" /\ pc' = "first" /\ unmet = {} /\ unmet' = unmet /\ world' = world
      /\ heap' = heap /\ results' = results /\ friends' = friends /\ v' = v
  BY DEF IC10!EndOfCollect
<1>2. Born' = Born /\ Decided' = Decided
  BY <1>1, DecidedStay
<1>3. ScoreControl'
  BY <1>1, <1>2 DEF ScoreInv, ScoreControl
<1>4. Threshold'
  BY <1>1 DEF Threshold
<1> QED
  BY <1>1, <1>2, <1>3, <1>4, ScoreRowsStay

(* One more candidate scored outright, while there is room.                 *)
LEMMA ScoreFirstStep ==
  ASSUME ScoreInv, NEW x \in Candidate, IC10!ScoreFirst(x)
  PROVE  ScoreInv'
<1>1. /\ pc = "first" /\ pc' = pc /\ x \in friends /\ friends' = friends \ {x}
      /\ world' = world /\ unmet' = unmet /\ v' = v /\ results' = results
      /\ heap' = heap \cup {ScoreRow(x)} /\ Cardinality(heap) < kTopN
  BY SameCount, LimitAssumption DEF IC10!ScoreFirst, ScoreRow
<1>2. /\ results = << >> /\ AreFirst(ByCount, heap, Decided)
      /\ v = IC10!None /\ x \in Born
  BY <1>1, HeapIsKept DEF ScoreInv, ScoreControl
<1>3. Born' = Born /\ \A y : ScoreRow(y)' = ScoreRow(y)
  BY <1>1, DecidedStay
<1>4. Decided' = Decided \cup {ScoreRow(x)} /\ ScoreRow(x) \notin Decided
  <2>1. x # v
    BY <1>2, NobodyIsNone
  <2>2. Born \ (friends' \cup {v}) = (Born \ (friends \cup {v})) \cup {x}
    BY <1>1, <1>2, <2>1
  <2> QED
    BY <1>1, <1>3, <2>2 DEF Decided, ScoreRow
<1>5. AreFirst(ByCount, heap', Decided')
  <2>1. Cardinality(heap) # kTopN
    BY <1>1, LimitAssumption
  <2> QED
    BY <1>1, <1>2, <1>4, <2>1, PushedAreFirst
<1>6. ScoreControl'
  BY <1>1, <1>2, <1>3 DEF ScoreInv, ScoreControl
<1>7. Threshold'
  BY <1>1 DEF Threshold
<1> QED
  BY <1>1, <1>2, <1>5, <1>6, <1>7, ScanKeepsInv

LEMMA EndOfFirstStep ==
  ASSUME IC10!TypeOK, ScoreInv, IC10!EndOfFirst
  PROVE  ScoreInv'
<1>1. /\ pc = "first" /\ pc' = "next" /\ friends' = friends
      /\ world' = world /\ unmet' = unmet /\ v' = v /\ results' = results /\ heap' = heap
      /\ Cardinality(heap) >= kTopN \/ friends = {}
  BY SameCount, LimitAssumption DEF IC10!EndOfFirst
<1>2. Born' = Born /\ Decided' = Decided
  BY <1>1, DecidedStay
<1>3. ScoreControl'
  BY <1>1, <1>2 DEF ScoreInv, ScoreControl
<1>4. AreFirst(ByCount, heap, Decided) /\ heap \subseteq Counted
  BY <1>1, HeapIsKept, ScoreHeapType
<1>5. Cardinality(heap) = kTopN \/ friends = {}
  BY <1>1, <1>4, FS_CardinalityType, LimitAssumption DEF AreFirst
<1>6. ASSUME NEW w \in heap, IsLast(ByCount, w, heap) PROVE minScore' = w[1]
  <2>1. PICK t \in heap : IC10!IsTop(t, heap) /\ minScore' = t[1]
    BY <1>6 DEF IC10!EndOfFirst
  <2>2. IsLast(ByCount, t, heap)
    BY <1>4, <2>1, LastByCount
  <2> QED
    BY <1>4, <1>6, <2>1, <2>2, OneLast
<1>7. Threshold'
  BY <1>1, <1>5, <1>6 DEF Threshold
<1> QED
  BY <1>1, <1>2, <1>3, <1>7, ScoreRowsStay

(* A candidate taken up has all his posts before him.                       *)
LEMMA TakeFriendStep ==
  ASSUME IC10!TypeOK, ScoreInv, NEW x \in Candidate, IC10!TakeFriend(x)
  PROVE  ScoreInv'
<1>1. /\ pc = "next" /\ pc' = "score" /\ x \in friends /\ friends' = friends \ {x}
      /\ world' = world /\ unmet' = unmet /\ v' = x /\ results' = results /\ heap' = heap
      /\ minScore' = minScore
      /\ common' = world.common[x] /\ other' = world.other[x] /\ score' = 0
  BY DEF IC10!TakeFriend
<1>2. v = IC10!None /\ x \in Born /\ friends \subseteq Born /\ x # IC10!None
  BY <1>1, NobodyIsNone DEF ScoreInv, ScoreControl
<1>3. Born' = Born /\ \A y : ScoreRow(y)' = ScoreRow(y) /\ IC10!Score(y)' = IC10!Score(y)
  BY <1>1, DecidedStay
<1>4. score' + common' - other' = IC10!Score(x)
  BY <1>1, ScoreWorld DEF IC10!Score, IC10!TypeOK
<1>5. Decided' = Decided
  <2>1. Born \ (friends' \cup {v'}) = Born \ (friends \cup {v})
    BY <1>1, <1>2, NobodyIsNone DEF Born
  <2> QED
    BY <1>3, <2>1 DEF Decided
<1>6. IC10!Score(v)' = IC10!Score(x)
  BY <1>1 DEF IC10!Score
<1>7. ScoreControl'
  BY <1>1, <1>2, <1>3, <1>4, <1>6 DEF ScoreInv, ScoreControl
<1>8. Threshold'
  BY <1>1 DEF ScoreInv, Threshold
<1> QED
  BY <1>1, <1>5, <1>7, <1>8, ScoreRowsStay

(* A post looked at moves from what is left to the score.                   *)
LEMMA ScorePostStep ==
  ASSUME IC10!TypeOK, ScoreInv, IC10!ScoreCommon \/ IC10!ScoreOther
  PROVE  ScoreInv'
<1>1. /\ pc = "score" /\ pc' = pc /\ friends' = friends
      /\ world' = world /\ unmet' = unmet /\ v' = v /\ results' = results /\ heap' = heap
      /\ minScore' = minScore
      /\ score' + common' - other' = score + common - other
  <2>1. common \in Nat /\ other \in Nat /\ score \in Int
    BY DEF IC10!TypeOK
  <2>2. CASE IC10!ScoreCommon
    BY <2>1, <2>2 DEF IC10!ScoreCommon
  <2>3. CASE IC10!ScoreOther
    BY <2>1, <2>3 DEF IC10!ScoreOther
  <2> QED
    BY <2>2, <2>3
<1>2. Born' = Born /\ Decided' = Decided
  BY <1>1, DecidedStay
<1>3. IC10!Score(v)' = IC10!Score(v)
  BY <1>1 DEF IC10!Score
<1>4. ScoreControl'
  BY <1>1, <1>2, <1>3 DEF ScoreInv, ScoreControl
<1>5. Threshold'
  BY <1>1 DEF ScoreInv, Threshold
<1> QED
  BY <1>1, <1>2, <1>4, <1>5, ScoreRowsStay

(* Who is given up has a whole score below the lowest of the heap; who is   *)
(* not and has no posts left has his whole score.                           *)
LEMMA PartOrWhole ==
  ASSUME IC10!TypeOK, ScoreInv, IC10!Offer
  PROVE  /\ IC10!Hopeless => IC10!Score(v) < minScore
         /\ ~ IC10!Hopeless => score = IC10!Score(v)
         /\ IC10!Hopeless => score < minScore
<1>1. /\ score + common - other = IC10!Score(v) /\ v \in Candidate
      /\ common \in Nat /\ other \in Nat /\ score \in Int /\ minScore \in Int
  BY DEF IC10!TypeOK, ScoreInv, ScoreControl, IC10!Offer, Born
<1>2. IC10!Score(v) \in Int
  BY <1>1, ScoreType DEF IC10!TypeOK
<1>3. IC10!Remaining = common + other
  BY DEF IC10!Remaining
<1>4. ~ IC10!Hopeless => common = 0 /\ other = 0
  BY <1>1, <1>3 DEF IC10!Offer
<1> QED
  BY <1>1, <1>2, <1>3, <1>4 DEF IC10!Hopeless

(* The heap after an offer, whatever is done with the candidate.            *)
LEMMA OfferHeap ==
  ASSUME IC10!TypeOK, ScoreInv, IC10!Offer, NEW w \in heap, IsLast(ByCount, w, heap),
         heap' = (IF score > minScore \/ (score = minScore /\ v < w[2])
                  THEN (heap \ {w}) \cup {<<score, v>>} ELSE heap)
  PROVE  /\ Cardinality(heap') = kTopN
         /\ AreFirst(ByCount, heap', Decided \cup {ScoreRow(v)})
         /\ ~ (score > minScore) =>
              \A t \in heap' : IsLast(ByCount, t, heap') => minScore = t[1]
<1>1. /\ pc = "score" /\ v \in Candidate /\ v \in Born
      /\ Cardinality(heap) = kTopN /\ minScore = w[1]
  BY DEF IC10!Offer, ScoreInv, ScoreControl, Threshold, Born
<1>2. AreFirst(ByCount, heap, Decided) /\ Decided \subseteq Counted /\ heap \subseteq Counted
  BY <1>1, HeapIsKept, DecidedType, ScoreHeapType
<1>3. /\ ScoreRow(v) \in Counted /\ ScoreRow(v)[1] = IC10!Score(v) /\ ScoreRow(v)[2] = v
      /\ IC10!Score(v) \in Int /\ v \in Nat /\ score \in Int /\ minScore \in Int
      /\ w \in Counted /\ w[1] \in Int /\ w[2] \in Nat
  BY <1>1, ScoreRowType, ScoreHeapType DEF IC10!TypeOK
<1>4. ScoreRow(v) \notin Decided
  BY DEF Decided, ScoreRow
<1>5. CASE score > minScore \/ (score = minScore /\ v < w[2])
  <2>1. score = IC10!Score(v) /\ <<score, v>> = ScoreRow(v)
    BY <1>3, <1>5, PartOrWhole DEF ScoreRow
  <2>2. heap' = (heap \ {w}) \cup {ScoreRow(v)}
    BY <1>5, <2>1
  <2>3. <<ScoreRow(v), w>> \in ByCount
    BY <1>1, <1>3, <1>5, <2>1, InByCount
  <2>4. Cardinality(heap') = kTopN /\ AreFirst(ByCount, heap', Decided \cup {ScoreRow(v)})
    BY <1>1, <1>2, <1>3, <1>4, <2>2, <2>3, OrderByCount, ReplacedAreFirst
  <2>5. ASSUME score = minScore, NEW t \in heap', IsLast(ByCount, t, heap')
        PROVE  minScore = t[1]
    <3>1. ScoreRow(v) = t \/ <<ScoreRow(v), t>> \in ByCount
      BY <2>2, <2>5 DEF IsLast
    <3>2. <<t, w>> \in ByCount
      BY <2>2, <2>3 DEF IsLast
    <3>3. t \in Counted /\ t[1] \in Int
      BY <1>2, <1>3, <2>2 DEF Counted
    <3>4. ~ (t[1] > IC10!Score(v)) /\ ~ (w[1] > t[1])
      BY <1>3, <3>1, <3>2, <3>3, InByCount
    <3> QED
      BY <1>1, <1>3, <2>1, <2>5, <3>3, <3>4
  <2> QED
    BY <1>3, <1>5, <2>4, <2>5
<1>6. CASE ~ (score > minScore \/ (score = minScore /\ v < w[2]))
  <2>1. heap' = heap
    BY <1>6
  <2>2. <<ScoreRow(v), w>> \notin ByCount
    <3>1. IC10!Score(v) < minScore \/ (IC10!Score(v) = minScore /\ ~ (v < w[2]))
      BY <1>3, <1>6, PartOrWhole
    <3> QED
      BY <1>1, <1>3, <3>1, InByCount
  <2>3. AreFirst(ByCount, heap, Decided \cup {ScoreRow(v)})
    BY <1>1, <1>2, <1>3, <1>4, <2>2, OrderByCount, DroppedAreFirst
  <2>4. \A t \in heap : IsLast(ByCount, t, heap) => t = w
    BY <1>2, OneLast
  <2> QED
    BY <1>1, <2>1, <2>3, <2>4
<1> QED
  BY <1>5, <1>6

LEMMA OfferStep ==
  ASSUME IC10!TypeOK, IC10!TypeOK', ScoreInv, IC10!Offer
  PROVE  ScoreInv'
<1>1. /\ pc = "score" /\ pc' = "next" /\ friends' = friends
      /\ world' = world /\ unmet' = unmet /\ v' = IC10!None /\ results' = results
  BY DEF IC10!Offer
<1>2. /\ v \in Born /\ v \in Candidate /\ v \notin friends /\ results = << >>
      /\ friends \subseteq Born
  BY <1>1 DEF ScoreInv, ScoreControl, Born
<1>0. ~ (IC10!Cardinality(heap) < kTopN)
  BY <1>1, SameCount, LimitAssumption DEF ScoreInv, Threshold
<1>3. PICK w \in heap :
        /\ IC10!IsTop(w, heap)
        /\ heap' = (IF score > minScore \/ (score = minScore /\ v < w[2])
                    THEN (heap \ {w}) \cup {<<score, v>>} ELSE heap)
  BY <1>0 DEF IC10!Offer
<1>4. IsLast(ByCount, w, heap)
  BY <1>3, ScoreHeapType, LastByCount
<1>5. /\ Cardinality(heap') = kTopN
      /\ AreFirst(ByCount, heap', Decided \cup {ScoreRow(v)})
      /\ ~ (score > minScore) =>
           \A t \in heap' : IsLast(ByCount, t, heap') => minScore = t[1]
  BY <1>3, <1>4, OfferHeap
<1>6. Born' = Born /\ \A y : ScoreRow(y)' = ScoreRow(y)
  BY <1>1, DecidedStay
<1>7. Decided' = Decided \cup {ScoreRow(v)}
  <2>1. Born \ (friends' \cup {v'}) = (Born \ (friends \cup {v})) \cup {v}
    BY <1>1, <1>2, NobodyIsNone DEF Born
  <2> QED
    BY <1>6, <2>1 DEF Decided
<1>8. ScoreControl'
  BY <1>1, <1>2, <1>6, NobodyIsNone DEF ScoreInv, ScoreControl, Born
<1>9. ASSUME NEW t \in heap', IsLast(ByCount, t, heap') PROVE minScore' = t[1]
  <2>1. CASE score > minScore
    <3>1. PICK u \in heap' : IC10!IsTop(u, heap') /\ minScore' = u[1]
      BY <2>1 DEF IC10!Offer
    <3>2. heap' \subseteq Counted
      BY PersonAssumption DEF IC10!TypeOK, Counted
    <3>3. IsLast(ByCount, u, heap')
      BY <3>1, <3>2, LastByCount
    <3> QED
      BY <1>9, <3>1, <3>2, <3>3, OneLast
  <2>2. CASE ~ (score > minScore)
    BY <1>0, <1>5, <1>9, <2>2 DEF IC10!Offer
  <2> QED
    BY <2>1, <2>2
<1>10. Threshold'
  BY <1>1, <1>5, <1>9 DEF Threshold
<1> QED
  BY <1>1, <1>2, <1>5, <1>7, <1>8, <1>10, ScanKeepsInv

LEMMA EndOfScanStep ==
  ASSUME ScoreInv, IC10!EndOfScan
  PROVE  ScoreInv'
<1>1. /\ pc = "next" /\ pc' = "output" /\ friends' = friends /\ friends = {}
      /\ world' = world /\ unmet' = unmet /\ v' = v /\ results' = results /\ heap' = heap
  BY DEF IC10!EndOfScan
<1>2. Born' = Born /\ Decided' = Decided
  BY <1>1, DecidedStay
<1>3. ScoreControl'
  BY <1>1, <1>2 DEF ScoreInv, ScoreControl
<1>4. Threshold'
  BY <1>1 DEF Threshold
<1> QED
  BY <1>1, <1>2, <1>3, <1>4, ScoreRowsStay

LEMMA ScoreOutputStep ==
  ASSUME IC10!TypeOK, ScoreInv, NEW w \in heap, IC10!Output(w)
  PROVE  ScoreInv'
<1>1. /\ pc = "output" /\ pc' = pc /\ friends' = friends
      /\ world' = world /\ unmet' = unmet /\ v' = v
      /\ heap' = heap \ {w} /\ results' = Front(w, results) /\ IC10!IsTop(w, heap)
  BY DEF IC10!Output, Front
<1>2. Born' = Born /\ Decided' = Decided
  BY <1>1, DecidedStay
<1>3. ScoreControl'
  BY <1>1, <1>2 DEF ScoreInv, ScoreControl
<1>4. Threshold'
  BY <1>1 DEF Threshold
<1>5. heap \subseteq Counted /\ results \in Seq(Counted) /\ w \in Counted
  BY ScoreHeapType
<1>6. IsLast(ByCount, w, heap)
  BY <1>1, <1>5, LastByCount
<1>7. Ordered(ByCount, heap, results)
  BY DEF ScoreInv
<1>8. /\ Ordered(ByCount, heap \ {w}, results')
      /\ RowsIn(results') = RowsIn(results) \cup {w}
  <2>1. results' = Front(w, results)
    BY <1>1
  <2> QED
    BY <1>5, <1>6, <1>7, <2>1, OrderByCount, OutputKeepsOrder
<1>9. heap' \cup RowsIn(results') = heap \cup RowsIn(results)
  BY <1>1, <1>8
<1>10. AreFirst(ByCount, heap' \cup RowsIn(results'), Decided')
  BY <1>2, <1>9 DEF ScoreInv
<1> QED
  BY <1>1, <1>3, <1>4, <1>8, <1>10 DEF ScoreInv

LEMMA ScoreReturnStep ==
  ASSUME ScoreInv, IC10!Return
  PROVE  ScoreInv'
<1>1. /\ pc = "output" /\ pc' = "done" /\ friends' = friends /\ heap = {}
      /\ world' = world /\ unmet' = unmet /\ v' = v /\ results' = results /\ heap' = heap
  BY DEF IC10!Return
<1>2. Born' = Born /\ Decided' = Decided
  BY <1>1, DecidedStay
<1>3. ScoreControl'
  BY <1>1, <1>2 DEF ScoreInv, ScoreControl
<1>4. Threshold'
  BY <1>1 DEF Threshold
<1> QED
  BY <1>1, <1>2, <1>3, <1>4, ScoreRowsStay

LEMMA NextScores ==
  ASSUME IC10!TypeOK, IC10!TypeOK', ScoreInv, IC10!Next
  PROVE  ScoreInv'
<1>1. ASSUME NEW x \in Candidate,
             IC10!Collect(x) \/ IC10!ScoreFirst(x) \/ IC10!TakeFriend(x)
      PROVE  ScoreInv'
  BY <1>1, CollectStep, ScoreFirstStep, TakeFriendStep
<1>2. ASSUME NEW w \in heap, IC10!Output(w) PROVE ScoreInv'
  BY <1>2, ScoreOutputStep
<1>3. CASE IC10!EndOfCollect \/ IC10!EndOfFirst \/ IC10!EndOfScan \/ IC10!Return
  BY <1>3, EndOfCollectStep, EndOfFirstStep, EndOfScanStep, ScoreReturnStep
<1>4. CASE IC10!ScoreCommon \/ IC10!ScoreOther \/ IC10!Offer
  BY <1>4, ScorePostStep, OfferStep
<1> QED
  BY <1>1, <1>2, <1>3, <1>4 DEF IC10!Next

LEMMA ScoresShow ==
  ASSUME IC10!TypeOK, ScoreInv
  PROVE  IC10!ReturnsTheFirst
<1> DEFINE all == {ScoreRow(x) : x \in {y \in Candidate : IC10!InSign(y)}}
<1>1. Born = {x \in Candidate \ unmet : IC10!InSign(x)}
  BY SignOfTheMonth DEF Born, IC10!TypeOK
<1>2. heap \cup RowsIn(results) \subseteq Decided /\ Decided \subseteq all
  BY <1>1 DEF ScoreInv, AreFirst, Decided
<1>3. \A r, t : <<r, t>> \in ByCount => IC10!Precedes(r, t)
  BY InByCount DEF ByCount
<1>4. ASSUME pc = "done"
      PROVE  /\ RowsIn(results) \subseteq all /\ Len(results) = Cardinality(RowsIn(results))
             /\ Len(results) = kTopN \/ RowsIn(results) = all
             /\ \A r \in RowsIn(results), t \in all \ RowsIn(results) : IC10!Precedes(r, t)
             /\ \A i, j \in DOMAIN results : i < j => IC10!Precedes(results[i], results[j])
  <2>1. heap = {} /\ friends = {} /\ unmet = {} /\ v = IC10!None
    BY <1>4 DEF ScoreInv, ScoreControl
  <2>2. heap \cup RowsIn(results) = RowsIn(results)
    BY <2>1
  <2>3. Decided = all
    BY <1>1, <2>1, NobodyIsNone DEF Decided
  <2>4. AreFirst(ByCount, RowsIn(results), all) /\ Ordered(ByCount, heap, results)
    BY <2>2, <2>3 DEF ScoreInv
  <2> QED
    BY <1>3, <2>4 DEF AreFirst, Ordered
<1>5. heap \subseteq all
  BY <1>2
<1> QED
  BY <1>4, <1>5, SameCount DEF IC10!ReturnsTheFirst, RowsIn, ScoreRow

------------------------------------------------------------------------------
(****************************************************************************)
(* The three calls together.  A call for a person who is not there leaves   *)
(* everything as it was set up.                                             *)
(****************************************************************************)
CallInv ==
  /\ TypeOK
  /\ known /\ call = "ic1" => (Simple(knows) => SearchInv)
  /\ known /\ call = "ic5" => ForumInv
  /\ known /\ call = "ic10" => ScoreInv
  /\ ~ known => heap = {}
  /\ call = "ic5" => IC5!CountsAreOfMembers

LEMMA InitCall == Init => CallInv
<1> SUFFICES ASSUME Init PROVE CallInv
  OBVIOUS
<1>1. CASE call = "ic1" /\ IC1!Init
  <2>1. IC1!TypeOK /\ (Simple(knows) => SearchInv) /\ heap = {}
    BY <1>1, InitSearchType, InitSearch DEF IC1!Init
  <2> QED
    BY <1>1, <2>1 DEF CallInv, TypeOK
<1>2. CASE call = "ic5" /\ IC5!Init
  <2>1. IC5!TypeOK /\ ForumInv /\ heap = {}
    BY <1>2, InitForumType, InitForums DEF IC5!Init
  <2>2. IC5!CountsAreOfMembers
    BY <2>1, ForumsShow
  <2> QED
    BY <1>2, <2>1, <2>2 DEF CallInv, TypeOK
<1>3. CASE call = "ic10" /\ IC10!Init
  <2>1. IC10!TypeOK /\ ScoreInv /\ heap = {}
    BY <1>3, InitScoreType, InitScores DEF IC10!Init
  <2> QED
    BY <1>3, <2>1 DEF CallInv, TypeOK
<1> QED
  BY <1>1, <1>2, <1>3 DEF Init

LEMMA RejectStep == CallInv /\ Reject => CallInv'
<1> SUFFICES ASSUME CallInv, Reject PROVE CallInv'
  OBVIOUS
<1>1. /\ ~ known /\ known' = known /\ call' = call /\ heap' = heap /\ pc' = "done"
      /\ results' = results /\ world' = world /\ friends' = friends /\ accessed' = accessed
      /\ OfIC1' = OfIC1 /\ OfIC5' = OfIC5 /\ OfIC10' = OfIC10
  BY DEF Reject
<1>2. CASE call = "ic1"
  <2>1. IC1!TypeOK'
    BY <1>1, <1>2 DEF CallInv, TypeOK, IC1!TypeOK, OfIC1
  <2> QED
    BY <1>1, <1>2, <2>1 DEF CallInv, TypeOK
<1>3. CASE call = "ic5"
  <2>1. IC5!TypeOK'
    BY <1>1, <1>3 DEF CallInv, TypeOK, IC5!TypeOK, OfIC5
  <2>2. IC5!CountsAreOfMembers'
    BY <1>1, <1>3 DEF CallInv, IC5!CountsAreOfMembers, OfIC5
  <2> QED
    BY <1>1, <1>3, <2>1, <2>2 DEF CallInv, TypeOK
<1>4. CASE call = "ic10"
  <2>1. IC10!TypeOK'
    BY <1>1, <1>4 DEF CallInv, TypeOK, IC10!TypeOK, OfIC10
  <2> QED
    BY <1>1, <1>4, <2>1 DEF CallInv, TypeOK
<1>5. CASE call \notin {"ic1", "ic5", "ic10"}
  BY <1>1, <1>5 DEF CallInv, TypeOK
<1> QED
  BY <1>2, <1>3, <1>4, <1>5

LEMMA RunStep == CallInv /\ (RunIC1 \/ RunIC5 \/ RunIC10) => CallInv'
<1> SUFFICES ASSUME CallInv, RunIC1 \/ RunIC5 \/ RunIC10 PROVE CallInv'
  OBVIOUS
<1>1. CASE RunIC1
  <2>1. known /\ call = "ic1" /\ known' /\ call' = "ic1" /\ IC1!TypeOK
    BY <1>1 DEF RunIC1, CallInv, TypeOK
  <2>2. IC1!Next /\ IC1!TypeOK'
    BY <1>1, <2>1, NextSearchType DEF RunIC1
  <2>3. knows' = knows
    BY <2>2 DEF IC1!Next, IC1!Meet, IC1!Skip, IC1!NextLayer, IC1!Stop, IC1!Output, IC1!Return
  <2>4. Simple(knows)' => SearchInv'
    BY <2>1, <2>2, <2>3, NextSearch DEF CallInv
  <2> QED
    BY <2>1, <2>2, <2>4 DEF CallInv, TypeOK
<1>2. CASE RunIC5
  <2>1. known /\ call = "ic5" /\ known' /\ call' = "ic5" /\ IC5!TypeOK /\ ForumInv
    BY <1>2 DEF RunIC5, CallInv, TypeOK
  <2>2. IC5!TypeOK' /\ ForumInv'
    BY <1>2, <2>1, NextForumType, NextForums DEF RunIC5
  <2>3. IC5!CountsAreOfMembers'
    BY <2>2, SameCount DEF ForumInv, CountInv, CountedIn, IC5!CountsAreOfMembers
  <2> QED
    BY <2>1, <2>2, <2>3 DEF CallInv, TypeOK
<1>3. CASE RunIC10
  <2>1. known /\ call = "ic10" /\ known' /\ call' = "ic10" /\ IC10!TypeOK /\ ScoreInv
    BY <1>3 DEF RunIC10, CallInv, TypeOK
  <2>2. pc = "score" => v \in Candidate
    BY <2>1 DEF ScoreInv, ScoreControl, Born
  <2>3. IC10!TypeOK' /\ ScoreInv'
    BY <1>3, <2>1, <2>2, NextScoreType, NextScores DEF RunIC10
  <2> QED
    BY <2>1, <2>3 DEF CallInv, TypeOK
<1> QED
  BY <1>1, <1>2, <1>3

LEMMA IdleStep == CallInv /\ UNCHANGED vars => CallInv'
<1> SUFFICES ASSUME CallInv, UNCHANGED vars PROVE CallInv'
  OBVIOUS
<1>1. /\ known' = known /\ call' = call /\ heap' = heap /\ results' = results /\ pc' = pc
      /\ world' = world /\ friends' = friends /\ accessed' = accessed
      /\ knows' = knows /\ root' = root /\ named' = named /\ layer' = layer
      /\ todo' = todo /\ next' = next
      /\ posts' = posts /\ personForums' = personForums /\ forums' = forums
      /\ postCount' = postCount /\ offered' = offered
      /\ unmet' = unmet /\ v' = v /\ common' = common /\ other' = other
      /\ score' = score /\ minScore' = minScore
  BY DEF vars, OfIC1, OfIC5, OfIC10
<1>2. IC1!TypeOK => IC1!TypeOK'
  BY <1>1 DEF IC1!TypeOK
<1>3. IC5!TypeOK => IC5!TypeOK'
  BY <1>1 DEF IC5!TypeOK
<1>4. IC10!TypeOK => IC10!TypeOK'
  BY <1>1 DEF IC10!TypeOK
<1>5. SearchInv => SearchInv'
  <2>1. IC1!Friends' = IC1!Friends /\ (IC1!Full' <=> IC1!Full)
    BY <1>1, SameFriends, FullHeap
  <2>2. IC1!EdgesOf({root})' = IC1!EdgesOf({root})
    BY <1>1 DEF IC1!EdgesOf, IC1!InEdges, IC1!OutEdges
  <2>3. LayerInv => LayerInv'
    <3>1. /\ Ball(knows, root, layer - 1)' = Ball(knows, root, layer - 1)
          /\ Ball(knows, root, layer)' = Ball(knows, root, layer)
          /\ (layer < IC1!Farthest)' <=> layer < IC1!Farthest
      BY <1>1
    <3> QED
      BY <1>1, <2>2, <3>1 DEF LayerInv
  <2>4. HeapInv' <=> HeapInv
    BY <1>1, <2>1 DEF HeapInv, Met
  <2> QED
    BY <1>1, <2>1, <2>3, <2>4 DEF SearchInv
<1>6. ForumInv => ForumInv'
  <2>1. \A f : CountedIn(f)' = CountedIn(f)
    BY <1>1 DEF CountedIn
  <2>2. CountInv' <=> CountInv
    BY <1>1, <2>1 DEF CountInv, IC5!Joined
  <2>3. WithPosts' = WithPosts
    BY <1>1 DEF WithPosts
  <2>4. PassInv' <=> PassInv
    BY <1>1, <2>3 DEF PassInv
  <2>5. SettledRows' = SettledRows
    BY <1>1, <2>3 DEF SettledRows, Settled, CountRow
  <2> QED
    BY <1>1, <2>2, <2>4, <2>5 DEF ForumInv
<1>7. ScoreInv => ScoreInv'
  <2>1. Born' = Born /\ Decided' = Decided
    BY <1>1, DecidedStay
  <2>2. IC10!Score(v)' = IC10!Score(v)
    BY <1>1 DEF IC10!Score
  <2>3. ScoreControl' <=> ScoreControl
    BY <1>1, <2>1, <2>2 DEF ScoreControl
  <2>4. Threshold' <=> Threshold
    BY <1>1 DEF Threshold
  <2> QED
    BY <1>1, <2>1, <2>3, <2>4 DEF ScoreInv
<1>8. IC5!CountsAreOfMembers => IC5!CountsAreOfMembers'
  BY <1>1 DEF IC5!CountsAreOfMembers
<1> QED
  BY <1>1, <1>2, <1>3, <1>4, <1>5, <1>6, <1>7, <1>8 DEF CallInv, TypeOK

LEMMA CallInvariance == Spec => []CallInv
<1>1. CallInv /\ [Next]_vars => CallInv'
  BY RejectStep, RunStep, IdleStep DEF Next
<1> QED
  BY <1>1, InitCall, PTL DEF Spec

LEMMA CallShows ==
  ASSUME CallInv
  PROVE  /\ ReturnsTheNearest /\ MetAtDistance
         /\ ReturnsTheBusiest /\ CountsAreOfMembers /\ ReturnsTheBestMatches
<1>1. ReturnsTheNearest /\ MetAtDistance
  <2>1. CASE known /\ call = "ic1"
    BY <2>1, SearchShows DEF CallInv, TypeOK, ReturnsTheNearest, MetAtDistance
  <2>2. CASE ~ known
    BY <2>2 DEF CallInv, ReturnsTheNearest, MetAtDistance, IC1!MetAtDistance
  <2>3. CASE call # "ic1"
    BY <2>3 DEF ReturnsTheNearest, MetAtDistance
  <2> QED
    BY <2>1, <2>2, <2>3
<1>2. ReturnsTheBusiest /\ CountsAreOfMembers
  BY ForumsShow DEF CallInv, TypeOK, ReturnsTheBusiest, CountsAreOfMembers
<1>3. ReturnsTheBestMatches
  BY ScoresShow DEF CallInv, TypeOK, ReturnsTheBestMatches
<1> QED
  BY <1>1, <1>2, <1>3

------------------------------------------------------------------------------
(****************************************************************************)
(* The theorems.                                                            *)
(****************************************************************************)

(* The variables of the running query keep their types: ic1 never enters a  *)
(* fourth layer, ic5 flags only forums it has listed, and nothing but       *)
(* candidates is scored by ic10.                                            *)
THEOREM CallTypes == Spec => []TypeOK
<1>1. CallInv => TypeOK
  BY DEF CallInv
<1> QED
  BY <1>1, CallInvariance, PTL

(* ic1 puts nobody into the heap in a layer farther than his distance, in   *)
(* whatever order the edges come, where a friendship is stored once.        *)
THEOREM LayersAreDistances == Spec => []MetAtDistance
BY CallInvariance, CallShows, PTL

(* ic1 returns the first of those with the name within three steps: neither *)
(* the stop after a layer that leaves the heap full nor the comparison with *)
(* a top of the same layer only costs anybody his place.                    *)
THEOREM NearestReturned == Spec => []ReturnsTheNearest
BY CallInvariance, CallShows, PTL

(* ic5 counts a post of a friend for its forum just when that friend joined *)
(* the forum, although all friends share one set of flags.                  *)
THEOREM CountsOfMembers == Spec => []CountsAreOfMembers
BY CallInvariance, CallShows, PTL

(* ic5 returns the first of the forums the friends joined, by their posts   *)
(* there, although it fills its heap in two passes and in the second looks  *)
(* at identifiers alone.                                                    *)
THEOREM BusiestReturned == Spec => []ReturnsTheBusiest
BY CallInvariance, CallShows, PTL

(* Giving up early is safe: ic10 returns the first of the candidates born   *)
(* under the sign by their whole scores, whatever the order in which        *)
(* candidates and posts are looked at.                                      *)
THEOREM GivingUpIsSafe == Spec => []ReturnsTheBestMatches
BY CallInvariance, CallShows, PTL
===============================================================================
