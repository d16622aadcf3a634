-------------------------- MODULE ShortestPathProofs --------------------------
(****************************************************************************)
(* IC13 computes distances, for every set of persons and every graph.       *)
(****************************************************************************)
EXTENDS ShortestPath, KnowsGraphProofs

(* Nothing is labelled when the call starts: ic13.cc:47-62.                 *)
LEMMA InitTypeOK == Init => TypeOK
BY GraphsAssumption DEF Init, TypeOK, Unlabelled, Side, Pending

(* Every step of the search keeps the types of its variables.               *)
LEMMA NextTypeOK == TypeOK /\ [Next]_vars => TypeOK'
<1> SUFFICES ASSUME TypeOK, [Next]_vars PROVE TypeOK'
  OBVIOUS
<1> USE DEF TypeOK, Side
<1>1. CASE Reject
  BY <1>1 DEF Reject, Return, NotFound
<1>2. CASE SamePerson
  BY <1>2 DEF SamePerson, Return
<1>3. CASE Begin
  <2>1. dist' \in [Person -> Int] /\ queue' \in [Side -> SUBSET Person]
    BY <1>3 DEF Begin, Unlabelled, Root
  <2>2. QED
    BY <1>3, <2>1 DEF Begin
<1>4. CASE ChooseSide
  BY <1>4 DEF ChooseSide, SmallerSide
<1>5. CASE GiveUp
  BY <1>5 DEF GiveUp, Return, NotFound
<1>6. ASSUME NEW v \in Person, Dequeue(v) PROVE TypeOK'
  <2>1. queue' \in [Side -> SUBSET Person]
    BY <1>6 DEF Dequeue
  <2>2. oe' \subseteq Person /\ ie' \subseteq Person
    BY <1>6 DEF Dequeue, OutEdges, InEdges
  <2>3. QED
    BY <1>6, <2>1, <2>2 DEF Dequeue
<1>7. ASSUME NEW v \in Person, LabelNeighbour(v) PROVE TypeOK'
  <2>1. Label(side, Depth(side, x) + 1) \in Int
    BY <1>7 DEF LabelNeighbour, NextEdge, Label, Depth
  <2>2. dist' \in [Person -> Int]
    BY <1>7, <2>1 DEF LabelNeighbour
  <2>3. QED
    BY <1>7, <2>2 DEF LabelNeighbour, NextEdge
<1>8. ASSUME NEW v \in Person, SkipNeighbour(v) PROVE TypeOK'
  BY <1>8 DEF SkipNeighbour, NextEdge
<1>9. ASSUME NEW v \in Person, Meet(v) PROVE TypeOK'
  <2>1. Depth(side, x) - Depth(side, v) - 1 \in Int
    BY <1>9 DEF Meet, NextEdge, Depth
  <2>2. QED
    BY <1>9, <2>1 DEF Meet, NextEdge, Return
<1>10. CASE EndOfEdges
  BY <1>10 DEF EndOfEdges
<1>11. CASE SwapQueues
  <2>1. queue' \in [Side -> SUBSET Person]
    BY <1>11 DEF SwapQueues
  <2>2. QED
    BY <1>11, <2>1 DEF SwapQueues
<1>12. CASE UNCHANGED vars
  BY <1>12 DEF vars
<1>13. QED
  BY <1>1, <1>2, <1>3, <1>4, <1>5, <1>6, <1>7, <1>8, <1>9, <1>10, <1>11,
     <1>12 DEF Next

(* The search keeps its types.                                              *)
THEOREM TypeCorrect == Spec => []TypeOK
BY InitTypeOK, NextTypeOK, PTL DEF Spec

------------------------------------------------------------------------------
(****************************************************************************)
(* What the invariant says of any walk from one of the two persons.         *)
(****************************************************************************)

(* Along a walk that has only passed closed persons, labels grow by at most *)
(* one per step.                                                            *)
LEMMA ClosedPrefix ==
  ASSUME TypeOK, SearchInv, Started, NEW s \in Side, NEW n \in Nat,
         NEW y \in Person, NEW w \in Walks(knows, n, Root(s), y),
         NEW k \in 0..n, \A i \in 0..(k-1) : Closed(s, w[i])
  PROVE  Depth(s, w[k]) > 0 /\ Depth(s, w[k]) <= k + 1
<1> DEFINE S == {i \in Nat : i <= k => /\ Depth(s, w[i]) > 0
                                      /\ Depth(s, w[i]) <= i + 1}
<1>1. 0 \in S
  BY DEF Walks, SearchInv, Control, Side, Root, Depth
<1>2. ASSUME NEW i \in Nat, i \in S PROVE i+1 \in S
  <2>1. SUFFICES ASSUME i+1 <= k
                 PROVE  Depth(s, w[i+1]) > 0 /\ Depth(s, w[i+1]) <= (i+1) + 1
    OBVIOUS
  <2>2. i \in 0..(k-1) /\ i \in 0..(n-1) /\ i+1 \in 0..n
    BY <2>1
  <2>3. w[i] \in Person /\ w[i+1] \in Person /\ w[i+1] \in Neighbours(knows, w[i])
    BY <2>2 DEF Walks
  <2>4. Covered(s, w[i], w[i+1])
    BY <2>2, <2>3 DEF SearchInv, Frontier
  <2>5. Depth(s, w[i]) \in Int /\ Depth(s, w[i+1]) \in Int
    BY <2>3 DEF Depth, TypeOK
  <2>6. QED
    BY <1>2, <2>1, <2>4, <2>5 DEF Covered
<1> HIDE DEF S
<1>3. Nat \subseteq S
  BY <1>1, <1>2, SetInduction
<1>4. QED
  BY <1>3, k \in S DEF S

(* A walk from the root of a side to a person that side has not closed      *)
(* passes an open person, and no sooner than the label of that one says.    *)
LEMMA FirstOpen ==
  ASSUME TypeOK, SearchInv, Started, NEW s \in Side, NEW n \in Nat,
         NEW y \in Person, NEW w \in Walks(knows, n, Root(s), y), ~ Closed(s, y)
  PROVE  \E k \in 0..n : /\ w[k] \in Open(s)
                         /\ Depth(s, w[k]) > 0
                         /\ Depth(s, w[k]) <= k + 1
                         /\ \A i \in 0..(k-1) : Closed(s, w[i])
<1> DEFINE T == {i \in 0..n : ~ Closed(s, w[i])}
<1>1. T \in SUBSET Nat /\ T # {}
  BY n \in T DEF Walks
<1>2. PICK k \in T : \A m \in T : k <= m
  BY <1>1, LeastNat
<1>3. k \in 0..n /\ \A i \in 0..(k-1) : Closed(s, w[i])
  BY <1>2
<1>4. Depth(s, w[k]) > 0 /\ Depth(s, w[k]) <= k + 1
  BY <1>3, ClosedPrefix
<1>5. w[k] \in Open(s)
  BY <1>2, <1>4 DEF Closed
<1>6. QED
  BY <1>3, <1>4, <1>5

(* A walk from src to dst leaves the closed persons of the first side, and  *)
(* only later enters those of the other: its length is bounded below by the *)
(* labels of an open person of each side.                                   *)
LEMMA Crossing ==
  ASSUME TypeOK, SearchInv, Started, NEW n \in Nat, Connected(knows, n, src, dst)
  PROVE  \E u \in Open(1) \cap Person, v \in Open(-1) \cap Person :
            n >= Depth(1, u) + Depth(-1, v) - 1
<1>1. PICK w \in Walks(knows, n, src, dst) : TRUE
  BY DEF Connected
<1> DEFINE r == [i \in 0..n |-> w[n-i]]
<1>2. src \in Person /\ dst \in Person /\ Root(1) = src /\ Root(-1) = dst
  BY DEF SearchInv, Control, Root
<1>3. r \in Walks(knows, n, dst, src)
  BY <1>1, <1>2, WalkReverse
<1>4. ~ Closed(1, dst) /\ ~ Closed(-1, src)
  BY DEF SearchInv, Control, Closed, Depth
<1>5. PICK k \in 0..n : /\ w[k] \in Open(1)
                        /\ Depth(1, w[k]) > 0
                        /\ Depth(1, w[k]) <= k + 1
                        /\ \A i \in 0..(k-1) : Closed(1, w[i])
  BY <1>1, <1>2, <1>4, FirstOpen, 1 \in Side DEF Side
<1>6. PICK m \in 0..n : /\ r[m] \in Open(-1)
                        /\ Depth(-1, r[m]) > 0
                        /\ Depth(-1, r[m]) <= m + 1
                        /\ \A i \in 0..(m-1) : Closed(-1, r[i])
  <2> HIDE DEF r
  <2>1. QED
    BY <1>2, <1>3, <1>4, FirstOpen, -1 \in Side DEF Side
<1>7. w[k] \in Person /\ w[n-m] \in Person /\ r[m] = w[n-m] /\ n-k \in 0..n
      /\ r[n-k] = w[k]
  BY <1>1, k \in 0..n, n-m \in 0..n DEF Walks
<1>8. Depth(1, w[k]) \in Int /\ Depth(-1, w[n-m]) \in Int
      /\ Depth(-1, w[k]) = 0 - Depth(1, w[k])
  BY <1>7 DEF Depth, TypeOK
<1>9. k < n - m
  <2>1. SUFFICES ASSUME k >= n - m PROVE FALSE
    OBVIOUS
  <2>2. CASE n - k = m
    BY <2>2, <1>5, <1>6, <1>7, <1>8
  <2>3. CASE n - k < m
    <3>1. n - k \in 0..(m-1)
      BY <2>3, <1>7
    <3>2. Closed(-1, w[k])
      BY <3>1, <1>6, <1>7
    <3>3. QED
      BY <3>2, <1>5, <1>8 DEF Closed
  <2>4. QED
    BY <2>1, <2>2, <2>3
<1>10. n >= Depth(1, w[k]) + Depth(-1, w[n-m]) - 1
  BY <1>5, <1>6, <1>7, <1>8, <1>9
<1>11. QED
  BY <1>5, <1>6, <1>7, <1>10

------------------------------------------------------------------------------
(****************************************************************************)
(* What the invariant says of the two ways the loop ends, and of the labels.*)
(****************************************************************************)

(* The first edge that joins the two sides lies on a shortest path: the     *)
(* open persons of the other side all have the label of the one met, and no *)
(* open person of this side has a smaller label than the one expanded.      *)
LEMMA MeetIsDistance ==
  ASSUME TypeOK, SearchInv, NotStarted, NEW v \in Person, Meet(v)
  PROVE  IsDistance(knows, Depth(side, x) - Depth(side, v) - 1, src, dst)
<1> DEFINE o == -side
           n == Depth(side, x) - Depth(side, v) - 1
<1>1. pc = "edges" /\ x \in Person /\ Started /\ Depth(side, v) < 0
  BY DEF Meet, NextEdge, TypeOK, NotStarted
<1>2. src \in Person /\ dst \in Person /\ side \in Side /\ o \in Side /\ o # side
  BY <1>1 DEF SearchInv, Control, TypeOK, Side
<1>3. Depth(side, x) \in Int /\ Depth(side, v) \in Int /\ Depth(o, v) = 0 - Depth(side, v)
      /\ Depth(o, x) = 0 - Depth(side, x)
  BY <1>1, <1>2 DEF Depth, TypeOK, Side
<1>4. x \in Open(side) /\ Depth(side, x) > 0
  BY <1>1, <1>2 DEF SearchInv, Levels, Open
<1>5. v \in Neighbours(knows, x) /\ x \in Neighbours(knows, v)
  <2>1. v \in oe \cup ie
    BY DEF Meet, NextEdge
  <2>2. v \in Neighbours(knows, x)
    BY <1>1, <2>1 DEF SearchInv, Control
  <2>3. QED
    BY <1>1, <2>2, NeighboursSymmetric
<1>6. v \in queue[o]
  <2>1. ~ Closed(o, v)
    BY <1>1, <1>2, <1>3, <1>4, <1>5 DEF SearchInv, Frontier, Covered
  <2>2. Depth(o, v) > 0
    BY <1>1, <1>3
  <2>3. QED
    BY <2>1, <2>2, <1>2 DEF Closed, Open
<1>7. n \in Nat
  BY <1>1, <1>3, <1>4
<1>8. Connected(knows, n, src, dst)
  <2>1. Connected(knows, Depth(side, x) - 1, Root(side), x)
    BY <1>1, <1>2, <1>4 DEF SearchInv, Reached
  <2>2. Connected(knows, Depth(o, v) - 1, Root(o), v)
    BY <1>1, <1>2, <1>3 DEF SearchInv, Reached
  <2>3. Root(side) \in Person /\ Root(o) \in Person
    BY <1>2 DEF Root
  <2>4. Connected(knows, (Depth(side, x) - 1) + 1, Root(side), v)
    BY <1>1, <1>3, <1>4, <1>5, <2>1, <2>3, WalkExtend, Depth(side, x) - 1 \in Nat
  <2>5. Connected(knows, Depth(o, v) - 1, v, Root(o))
    BY <1>1, <1>3, <2>2, <2>3, ConnectedSymmetric, Depth(o, v) - 1 \in Nat
  <2>6. Connected(knows, ((Depth(side, x) - 1) + 1) + (Depth(o, v) - 1), Root(side), Root(o))
    BY <1>1, <1>3, <1>4, <2>3, <2>4, <2>5, ConnectedTransitive,
       (Depth(side, x) - 1) + 1 \in Nat, Depth(o, v) - 1 \in Nat
  <2>7. n = ((Depth(side, x) - 1) + 1) + (Depth(o, v) - 1)
    BY <1>3
  <2>8. Connected(knows, n, Root(side), Root(o))
    BY <2>6, <2>7
  <2>9. Connected(knows, n, Root(o), Root(side))
    BY <2>8, <2>3, <1>7, ConnectedSymmetric
  <2>10. QED
    BY <2>8, <2>9, <1>2 DEF Root, Side
<1>9. ASSUME NEW m \in 0..(n-1), Connected(knows, m, src, dst) PROVE FALSE
  <2>1. m \in Nat /\ m < n
    BY <1>7
  <2>2. PICK a \in Open(1) \cap Person, b \in Open(-1) \cap Person :
           m >= Depth(1, a) + Depth(-1, b) - 1
    BY <2>1, <1>1, <1>9, Crossing
  <2>3. \A u \in Open(side) \cap Person : Depth(side, u) >= Depth(side, x)
    BY <1>1, <1>2, <1>3 DEF SearchInv, Levels, Open, Depth, TypeOK
  <2>4. \A u \in Open(o) \cap Person : Depth(o, u) = Depth(o, v)
    BY <1>1, <1>2, <1>6 DEF SearchInv, Levels, Open
  <2>5. Depth(1, a) + Depth(-1, b) >= Depth(side, x) + Depth(o, v)
    <3>1. Depth(1, a) \in Int /\ Depth(-1, b) \in Int
      BY DEF Depth, TypeOK
    <3>2. CASE side = 1
      BY <3>1, <3>2, <2>3, <2>4, <1>3
    <3>3. CASE side = -1
      BY <3>1, <3>3, <2>3, <2>4, <1>3
    <3>4. QED
      BY <3>2, <3>3, <1>2 DEF Side
  <2>6. Depth(1, a) \in Int /\ Depth(-1, b) \in Int
    BY DEF Depth, TypeOK
  <2>7. QED
    BY <2>1, <2>2, <2>5, <2>6, <1>3
<1>10. QED
  <2> HIDE DEF n
  <2>1. IsDistance(knows, n, src, dst)
    BY <1>7, <1>8, <1>9 DEF IsDistance
  <2>2. QED
    BY <2>1 DEF n

(* A side whose queue has run dry has closed all it labelled, and not the   *)
(* other root: its persons, or all the others, are a cut.                   *)
LEMMA GiveUpSeparates ==
  ASSUME TypeOK, SearchInv, NotStarted, GiveUp
  PROVE  Separated(knows, src, dst)
<1> DEFINE s == SmallerSide
           A == {v \in Person : Depth(s, v) > 0}
<1>1. s \in Side /\ queue[s] = {} /\ pc = "choose" /\ Started
  BY DEF GiveUp, SmallerSide, Side, NotStarted
<1>2. src \in Person /\ dst \in Person /\ dist[src] = 1 /\ dist[dst] = -1
      /\ tmp = {} /\ x = kInvalidVid
  BY <1>1 DEF SearchInv, Control
<1>3. \A v \in A : Closed(s, v)
  BY <1>1, <1>2, InvalidVidAssumption DEF Closed, Open
<1>4. \A v \in A : Neighbours(knows, v) \subseteq A
  BY <1>1, <1>3, NeighboursType DEF SearchInv, Frontier, Covered
<1>5. CASE s = 1
  <2>1. src \in A /\ dst \notin A
    BY <1>2, <1>5 DEF Depth
  <2>2. QED
    BY <2>1, <1>4 DEF Separated
<1>6. CASE s = -1
  <2>1. dst \in A /\ src \notin A
    BY <1>2, <1>6 DEF Depth
  <2>2. \A u \in Person \ A : Neighbours(knows, u) \subseteq Person \ A
    <3>1. SUFFICES ASSUME NEW u \in Person \ A, NEW v \in Neighbours(knows, u),
                          v \in A
                   PROVE  FALSE
      BY NeighboursType
    <3>2. u \in Neighbours(knows, v)
      BY <3>1, NeighboursSymmetric
    <3>3. QED
      BY <3>1, <3>2, <1>4
  <2>3. QED
    BY <2>1, <2>2, <1>2 DEF Separated
<1>7. QED
  BY <1>1, <1>5, <1>6 DEF Side

(* Every label is a distance: a shorter walk would have to leave the closed *)
(* persons through an open one, and the open ones stand on the last levels. *)
LEMMA LabelsExact ==
  ASSUME TypeOK, SearchInv
  PROVE  LabelsAreDistances
<1>1. SUFFICES ASSUME NEW v \in Person, NEW s \in Side, Depth(s, v) > 0
               PROVE  IsDistance(knows, Depth(s, v) - 1, Root(s), v)
  BY DEF LabelsAreDistances
<1> DEFINE n == Depth(s, v) - 1
<1>2. Started
  BY <1>1 DEF Started, Unlabelled, Depth
<1>3. n \in Nat /\ Depth(s, v) \in Int
  BY <1>1 DEF Depth, TypeOK
<1>4. Connected(knows, n, Root(s), v)
  BY <1>1, <1>2 DEF SearchInv, Reached
<1>5. ASSUME NEW m \in 0..(n-1), NEW w \in Walks(knows, m, Root(s), v) PROVE FALSE
  <2>1. m \in Nat /\ m < n /\ w[m] = v
    BY <1>3 DEF Walks
  <2>2. CASE \A i \in 0..(m-1) : Closed(s, w[i])
    BY <2>1, <2>2, <1>2, <1>3, ClosedPrefix, m \in 0..m
  <2>3. CASE \E i \in 0..(m-1) : ~ Closed(s, w[i])
    <3> DEFINE T == {i \in 0..(m-1) : ~ Closed(s, w[i])}
    <3>1. T \in SUBSET Nat /\ T # {}
      BY <2>3
    <3>2. PICK k \in T : \A j \in T : k <= j
      BY <3>1, LeastNat
    <3>3. k \in 0..m /\ k < m /\ \A i \in 0..(k-1) : Closed(s, w[i])
      BY <2>1, <3>2
    <3>4. Depth(s, w[k]) > 0 /\ Depth(s, w[k]) <= k + 1
      BY <1>2, <2>1, <3>3, ClosedPrefix
    <3>5. w[k] \in Open(s) /\ w[k] \in Person
      BY <3>2, <3>3, <3>4 DEF Closed, Walks
    <3>6. Depth(s, v) <= Depth(s, w[k]) + 1
      <4>1. Depth(s, w[k]) \in Int
        BY <3>5 DEF Depth, TypeOK
      <4>2. CASE v \notin Open(s)
        BY <4>1, <4>2, <1>1, <1>2, <1>3, <3>5 DEF SearchInv, Levels, Closed
      <4>3. CASE v \in Open(s)
        BY <4>1, <4>3, <1>2, <1>3, <3>5 DEF SearchInv, Levels, Open
      <4>4. QED
        BY <4>2, <4>3
    <3>7. Depth(s, w[k]) \in Int
      BY <3>5 DEF Depth, TypeOK
    <3>8. QED
      BY <2>1, <3>3, <3>4, <3>6, <3>7, <1>3
  <2>4. QED
    BY <2>2, <2>3
<1>6. \A m \in 0..(n-1) : ~ Connected(knows, m, Root(s), v)
  BY <1>5 DEF Connected
<1>7. QED
  <2> HIDE DEF n
  <2>1. IsDistance(knows, n, Root(s), v)
    BY <1>3, <1>4, <1>6 DEF IsDistance
  <2>2. QED
    BY <2>1 DEF n

------------------------------------------------------------------------------
(****************************************************************************)
(* Every step preserves the invariant.                                      *)
(****************************************************************************)

(* The abstract query's definitions are those of KnowsGraph.                *)
LEMMA AnswerMeaning ==
  ASSUME NEW n
  PROVE  Query!IsAnswer(n) <=>
           IF kInvalidVid \in {src, dst} \/ Separated(knows, src, dst)
           THEN n = NotFound
           ELSE IsDistance(knows, n, src, dst)
BY DEF Query!IsAnswer, Query!NotFound, NotFound,
       Query!Separated, Separated, Query!IsDistance, IsDistance,
       Query!Connected, Connected, Query!Walks, Walks,
       Query!Neighbours, Neighbours, Query!OutEdges, OutEdges,
       Query!InEdges, InEdges

(* A distance is an answer that the abstract query may give.                *)
LEMMA AnswerFound ==
  ASSUME TypeOK, src \in Person, dst \in Person, NEW n, IsDistance(knows, n, src, dst)
  PROVE  Query!IsAnswer(n)
<1>1. n \in Nat /\ Connected(knows, n, src, dst)
  BY DEF IsDistance
<1>2. ~ Separated(knows, src, dst)
  BY <1>1, SeparatedNotConnected
<1>3. QED
  BY <1>2, AnswerMeaning, InvalidVidAssumption

(* The inductive invariant holds before the call looks up its persons.      *)
LEMMA InitIInv == Init => IInv
<1> SUFFICES ASSUME Init PROVE IInv
  OBVIOUS
<1>1. TypeOK
  BY InitTypeOK
<1>2. QED
  BY <1>1 DEF Init, IInv, SearchInv, NotStarted, Started, Outcome

(* An unknown person is answered with -1 and nothing is labelled.           *)
LEMMA RejectIInv == IInv /\ TypeOK' /\ Reject => IInv'
<1> SUFFICES ASSUME IInv, TypeOK', Reject PROVE IInv'
  OBVIOUS
<1>1. ~ Started /\ ~ Started'
  BY DEF IInv, SearchInv, Control, Reject, Started
<1>2. NotStarted'
  BY DEF IInv, NotStarted, Reject, Return, Started
<1>3. Query!IsAnswer(NotFound)
  BY AnswerMeaning DEF Reject
<1>4. Outcome'
  BY <1>3 DEF Reject, Return, Outcome, Query!IsAnswer
<1>5. QED
  BY <1>1, <1>2, <1>4 DEF IInv, SearchInv

(* The distance of a person to itself is 0, answered without a search.      *)
LEMMA SamePersonIInv == IInv /\ TypeOK' /\ SamePerson => IInv'
<1> SUFFICES ASSUME IInv, TypeOK', SamePerson PROVE IInv'
  OBVIOUS
<1>1. ~ Started /\ ~ Started'
  BY DEF IInv, SearchInv, Control, SamePerson, Started
<1>2. NotStarted'
  BY DEF IInv, NotStarted, SamePerson, Return, Started
<1>3. IsDistance(knows, 0, src, dst)
  BY WalkZero DEF SamePerson, IsDistance
<1>4. Query!IsAnswer(0)
  BY <1>3, AnswerFound DEF SamePerson, IInv
<1>5. Outcome'
  BY <1>4 DEF SamePerson, Return, Outcome, Query!IsAnswer
<1>6. QED
  BY <1>1, <1>2, <1>5 DEF IInv, SearchInv

(* The roots are labelled 0 and queued: each side is open at its root only. *)
LEMMA BeginIInv == IInv /\ TypeOK' /\ Begin => IInv'
<1> SUFFICES ASSUME IInv, TypeOK', Begin PROVE IInv'
  OBVIOUS
<1>1. /\ src \in Person /\ dst \in Person /\ src # dst /\ src' = src /\ dst' = dst
      /\ dist' = [Unlabelled EXCEPT ![src] = 1, ![dst] = -1]
      /\ queue' = [s \in Side |-> {Root(s)}]
      /\ pc' = "choose" /\ tmp' = tmp /\ x' = x /\ result' = result /\ side' = side
      /\ knows' = knows
  BY DEF Begin
<1>2. ~ Started /\ tmp = {} /\ x = kInvalidVid /\ result = Pending
  BY DEF Begin, IInv, SearchInv, Control, NotStarted, Outcome
<1>3. \A v \in Person : dist'[v] = IF v = dst THEN -1 ELSE IF v = src THEN 1 ELSE 0
  BY <1>1 DEF Unlabelled
<1>4. \A s \in Side : Root(s)' = Root(s) /\ Open(s)' = {Root(s)}
  BY <1>1, <1>2, InvalidVidAssumption DEF Open, Root, TypeOK
<1>5. \A s \in Side, v \in Person :
        /\ Depth(s, v)' > 0 <=> v = Root(s)
        /\ v = Root(s) => Depth(s, v)' = 1
  <2>1. ASSUME NEW v \in Person
        PROVE  /\ dist'[v] > 0 <=> v = src
               /\ 0 - dist'[v] > 0 <=> v = dst
               /\ v = src => dist'[v] = 1
               /\ v = dst => 0 - dist'[v] = 1
    <3>1. src # dst
      BY <1>1
    <3>2. dist'[v] = IF v = dst THEN -1 ELSE IF v = src THEN 1 ELSE 0
      BY <1>3
    <3>3. dist'[v] \in Int
      BY DEF TypeOK
    <3>4. CASE v = src
      BY <3>1, <3>2, <3>3, <3>4
    <3>5. CASE v = dst
      <4>1. dist'[v] = -1
        BY <3>2, <3>5
      <4>2. 0 - dist'[v] = 1 /\ ~ (dist'[v] > 0)
        BY <4>1
      <4>3. 0 - dist'[v] > 0
        BY <4>2
      <4>4. QED
        BY <3>1, <3>5, <4>2, <4>3
    <3>6. CASE v # src /\ v # dst
      BY <3>2, <3>3, <3>6
    <3>7. QED
      BY <3>4, <3>5, <3>6
  <2>2. QED
    BY <2>1 DEF Depth, Root, Side
<1>6. Control'
  BY <1>1, <1>2, <1>3 DEF Control
<1>7. \A s \in Side : Root(s) \in Person
  BY <1>1 DEF Root
<1>8. \A s \in Side, v \in Person : ~ Closed(s, v)'
  BY <1>4, <1>5 DEF Closed
<1>9. Levels'
  BY <1>1, <1>2, <1>4, <1>5, <1>7, <1>8, InvalidVidAssumption DEF Levels
<1>10. Frontier'
  BY <1>1, <1>8 DEF Frontier
<1>11. Reached'
  <2>1. ASSUME NEW s \in Side, NEW v \in Person, Depth(s, v)' > 0
        PROVE  Connected(knows', Depth(s, v)' - 1, Root(s)', v)
    <3>1. v = Root(s) /\ Depth(s, v)' - 1 = 0
      BY <2>1, <1>5
    <3>2. Connected(knows', 0, v, v)
      BY WalkZero
    <3>3. QED
      BY <3>1, <3>2, <1>4
  <2>2. QED
    BY <2>1 DEF Reached
<1>12. Started' /\ Outcome'
  BY <1>1, <1>2, <1>3 DEF Started, Unlabelled, Outcome
<1>13. QED
  BY <1>6, <1>9, <1>10, <1>11, <1>12 DEF IInv, SearchInv, NotStarted

(* The labels, and the open persons of each side, stay as they are.         *)
LEMMA ChooseSideIInv == IInv /\ TypeOK' /\ ChooseSide => IInv'
<1> SUFFICES ASSUME IInv, TypeOK', ChooseSide PROVE IInv'
  OBVIOUS
<1>1. Started /\ Started'
  BY DEF IInv, NotStarted, ChooseSide, Started, Unlabelled
<1>2. Control /\ Levels /\ Frontier /\ Reached
  BY <1>1 DEF IInv, SearchInv
<1>3. tmp = {} /\ x = kInvalidVid /\ tmp' = {} /\ x' = kInvalidVid
  BY <1>2 DEF ChooseSide, Control
<1>4. \A s \in Side : Open(s)' = queue[s] /\ Open(s) = queue[s]
  BY <1>3, InvalidVidAssumption DEF Open, ChooseSide
<1>5. \A s \in Side, v \in Person : Depth(s, v)' = Depth(s, v) /\ Closed(s, v)' = Closed(s, v)
  BY <1>4 DEF Depth, Closed, ChooseSide
<1>6. Control'
  BY <1>2, <1>3 DEF Control, ChooseSide
<1>7. Levels'
  <2>1. \A s \in Side : queue[s] \subseteq Person /\ queue'[s] = queue[s]
    BY DEF IInv, TypeOK, ChooseSide
  <2>2. QED
    BY <1>2, <1>3, <1>4, <1>5, <2>1, InvalidVidAssumption DEF Levels
<1>8. Frontier'
  BY <1>2, <1>5, NeighboursType DEF Frontier, ChooseSide, Covered
<1>9. Reached'
  BY <1>2, <1>5 DEF Reached, Root, ChooseSide
<1>10. Outcome'
  BY DEF IInv, Outcome, ChooseSide
<1>11. QED
  BY <1>1, <1>6, <1>7, <1>8, <1>9, <1>10 DEF IInv, SearchInv, NotStarted

(* The search ends with -1, and the labels of the dry side show why.        *)
LEMMA GiveUpIInv == IInv /\ TypeOK' /\ GiveUp => IInv'
<1> SUFFICES ASSUME IInv, TypeOK', GiveUp PROVE IInv'
  OBVIOUS
<1>1. Separated(knows, src, dst)
  BY GiveUpSeparates DEF IInv
<1>2. Query!IsAnswer(NotFound)
  BY <1>1, AnswerMeaning
<1>3. Outcome'
  BY <1>2 DEF GiveUp, Return, Outcome, Query!IsAnswer
<1>4. SearchInv'
  BY DEF IInv, SearchInv, Started, GiveUp, Return, Control, Levels, Frontier, Reached,
         Open, Closed, Depth, Root, Covered
<1>5. NotStarted'
  BY DEF IInv, NotStarted, Started, GiveUp, Return
<1>6. QED
  BY <1>3, <1>4, <1>5 DEF IInv

(* The person taken from the queue stays open while its edges are visited.  *)
LEMMA DequeueIInv ==
  ASSUME IInv, TypeOK', NEW v \in Person, Dequeue(v)
  PROVE  IInv'
<1>1. Started /\ Started'
  BY DEF IInv, NotStarted, Dequeue, Started, Unlabelled
<1>2. Control /\ Levels /\ Frontier /\ Reached /\ TypeOK
  BY <1>1 DEF IInv, SearchInv
<1>3. x = kInvalidVid /\ x' = v /\ side' = side /\ tmp' = tmp /\ dist' = dist
      /\ knows' = knows /\ v \in queue[side] /\ side \in Side
      /\ queue'[side] = queue[side] \ {v}
      /\ \A s \in Side : s # side => queue'[s] = queue[s]
  BY <1>2 DEF Dequeue, Control, TypeOK
<1>4. \A s \in Side : Open(s)' = Open(s)
  BY <1>3, InvalidVidAssumption DEF Open
<1>5. \A s \in Side, u \in Person : Depth(s, u)' = Depth(s, u) /\ Closed(s, u)' = Closed(s, u)
  BY <1>3, <1>4 DEF Depth, Closed
<1>6. Control'
  BY <1>2 DEF Control, Dequeue, Neighbours
<1>7. Levels'
  <2>1. \A s \in Side : queue[s] \subseteq Person /\ queue'[s] \subseteq queue[s]
    BY <1>2, <1>3 DEF TypeOK
  <2>2. tmp \subseteq Person /\ \A s \in Side : Open(s) \subseteq Person
    BY <1>2 DEF TypeOK, Open
  <2>3. QED
    BY <1>2, <1>3, <1>4, <1>5, <2>1, <2>2 DEF Levels
<1>8. Frontier'
  <2>1. Neighbours(knows, v) \ (oe' \cup ie') = {}
    BY DEF Dequeue, Neighbours
  <2>2. QED
    BY <1>2, <1>3, <1>5, <2>1, NeighboursType DEF Frontier, Covered
<1>9. Reached'
  BY <1>2, <1>5 DEF Reached, Root, Dequeue
<1>10. Outcome'
  BY DEF IInv, Outcome, Dequeue
<1>11. QED
  BY <1>1, <1>6, <1>7, <1>8, <1>9, <1>10 DEF IInv, SearchInv, NotStarted

(* A person labelled for the first time is open, one level further.         *)
LEMMA LabelNeighbourIInv ==
  ASSUME IInv, TypeOK', NEW v \in Person, LabelNeighbour(v)
  PROVE  IInv'
<1>1. Started
  BY DEF IInv, NotStarted, LabelNeighbour, NextEdge
<1>2. Control /\ Levels /\ Frontier /\ Reached /\ TypeOK /\ x \in Person /\ side \in Side
  BY <1>1 DEF IInv, SearchInv, LabelNeighbour, NextEdge, TypeOK
<1>3. /\ x' = x /\ side' = side /\ tmp' = tmp \cup {v} /\ queue' = queue
      /\ knows' = knows /\ src' = src /\ dst' = dst /\ pc' = "edges" /\ pc = "edges"
      /\ v \in oe \cup ie /\ v \in Neighbours(knows, x)
      /\ (oe \cup ie) \ {v} \subseteq oe' \cup ie' /\ oe' \cup ie' \subseteq oe \cup ie
  BY <1>2 DEF LabelNeighbour, NextEdge, Control
<1>4. Depth(side, x) \in Int /\ Depth(side, x) > 0 /\ x \in Open(side)
  BY <1>2 DEF Levels, Open, Depth, TypeOK
<1>5. \A u \in Person : u # v => dist'[u] = dist[u]
  BY <1>2 DEF LabelNeighbour, TypeOK
<1>6. \A s \in Side, u \in Person : u # v => Depth(s, u)' = Depth(s, u)
  BY <1>5 DEF Depth
<1>7. /\ Depth(side, v)' = Depth(side, x) + 1
      /\ \A s \in Side : s # side => Depth(s, v)' = 0 - (Depth(side, x) + 1)
      /\ \A s \in Side : Depth(s, v) = 0
  <2>1. dist[v] = 0 /\ dist'[v] \in Int /\ dist'[v] = Label(side, Depth(side, x) + 1)
    BY <1>2 DEF LabelNeighbour, TypeOK
  <2>2. CASE side = 1
    BY <2>1, <2>2, <1>3, <1>4 DEF Depth, Label, Side
  <2>3. CASE side = -1
    BY <2>1, <2>3, <1>3, <1>4 DEF Depth, Label, Side
  <2>4. QED
    BY <2>2, <2>3, <1>2 DEF Side
<1>8. \A s \in Side : Open(s)' = Open(s) \cup (IF s = side THEN {v} ELSE {})
  BY <1>3 DEF Open
<1>9. \A s \in Side : v \notin Open(s)
  BY <1>2, <1>7 DEF Levels
<1>10. \A s \in Side, u \in Person : Closed(s, u)' <=> Closed(s, u)
  <2>1. ASSUME NEW s \in Side PROVE Closed(s, v)' <=> Closed(s, v)
    <3>1. ~ Closed(s, v)
      BY <1>7 DEF Closed
    <3>2. CASE s = side
      BY <3>1, <3>2, <1>8 DEF Closed
    <3>3. CASE s # side
      BY <3>1, <3>3, <1>7, <1>4 DEF Closed
    <3>4. QED
      BY <3>2, <3>3
  <2>2. ASSUME NEW s \in Side, NEW u \in Person, u # v PROVE Closed(s, u)' <=> Closed(s, u)
    BY <2>2, <1>6, <1>8 DEF Closed
  <2>3. QED
    BY <2>1, <2>2
<1>11. \A s \in Side, u, w \in Person : Covered(s, u, w) /\ Depth(s, u) > 0 => Covered(s, u, w)'
  <2>1. SUFFICES ASSUME NEW s \in Side, NEW u \in Person, NEW w \in Person,
                        Covered(s, u, w), Depth(s, u) > 0
                 PROVE  Covered(s, u, w)'
    OBVIOUS
  <2>2. w # v /\ u # v
    BY <2>1, <1>7 DEF Covered
  <2>3. Depth(s, w)' = Depth(s, w) /\ Depth(s, u)' = Depth(s, u)
    BY <2>2, <1>6
  <2>4. QED
    BY <2>1, <2>3 DEF Covered
<1>12. Control'
  BY <1>2, <1>3, <1>5, <1>7 DEF Control, Depth, Side
<1>13. Levels'
  <2>1. \A s \in Side : queue[s] \subseteq Person /\ Open(s) \subseteq Person
    BY <1>2 DEF TypeOK, Open
  <2>2. tmp \subseteq Person /\ \A u \in tmp : u # v
    BY <1>2, <1>9 DEF TypeOK, Open
  <2>3. \A s \in Side : \A u \in queue[s] : u # v
    BY <1>9 DEF Open
  <2>4. x # v
    BY <1>4, <1>7, <1>2
  <2>5. ASSUME NEW s \in Side
        PROVE  /\ \A u \in Open(s)' : Depth(s, u)' > 0
               /\ \A u, z \in queue'[s] : Depth(s, u)' = Depth(s, z)'
    BY <1>2, <1>3, <1>4, <1>6, <1>7, <1>8, <1>9, <2>1, <2>3 DEF Levels
  <2>6. /\ \A u, z \in tmp' : Depth(side, u)' = Depth(side, z)'
        /\ \A u \in queue'[side], z \in tmp' : Depth(side, z)' = Depth(side, u)' + 1
        /\ \A u \in queue'[side] : Depth(side, u)' = Depth(side, x)'
        /\ \A u \in tmp' : Depth(side, u)' = Depth(side, x)' + 1
    BY <1>2, <1>3, <1>4, <1>6, <1>7, <2>1, <2>2, <2>3, <2>4 DEF Levels
  <2>7. ASSUME NEW s \in Side, NEW u \in Open(s)', NEW z \in Person, Closed(s, z)'
        PROVE  Depth(s, z)' <= Depth(s, u)'
    <3>1. Closed(s, z) /\ z # v /\ Depth(s, z) \in Int /\ Depth(s, z)' = Depth(s, z)
      BY <2>7, <1>6, <1>7, <1>10, <1>2 DEF Closed, Depth, TypeOK
    <3>2. CASE u # v
      BY <3>1, <3>2, <1>2, <1>6, <1>8, <2>1, <2>7 DEF Levels
    <3>3. CASE u = v
      <4>1. s = side
        BY <3>3, <1>8, <1>9, <2>7
      <4>2. Depth(s, z) <= Depth(side, x)
        BY <4>1, <3>1, <1>2, <1>4 DEF Levels
      <4>3. QED
        BY <4>1, <4>2, <3>1, <3>3, <1>3, <1>4, <1>7
    <3>4. QED
      BY <3>2, <3>3
  <2>8. QED
    BY <2>5, <2>6, <2>7, <1>3 DEF Levels
<1>14. Frontier'
  <2>1. ASSUME NEW s \in Side, NEW u \in Person, Closed(s, u)',
               NEW w \in Neighbours(knows, u)
        PROVE  Covered(s, u, w)'
    <3>1. Closed(s, u) /\ w \in Person
      BY <2>1, <1>10, NeighboursType
    <3>2. QED
      BY <3>1, <1>2, <1>11, <2>1 DEF Frontier, Closed
  <2>2. ASSUME NEW w \in Neighbours(knows, x) \ (oe' \cup ie')
        PROVE  Covered(side, x, w)'
    <3>1. CASE w = v
      <4>1. Depth(side, x)' = Depth(side, x)
        BY <1>2, <1>3, <1>4, <1>6, <1>7
      <4>2. QED
        BY <3>1, <4>1, <1>4, <1>7, <1>3 DEF Covered
    <3>2. CASE w # v
      <4>1. w \in Person /\ Covered(side, x, w)
        BY <3>2, <1>2, <1>3, NeighboursType DEF Frontier
      <4>2. QED
        BY <4>1, <1>2, <1>3, <1>4, <1>11
    <3>3. QED
      BY <3>1, <3>2
  <2>3. QED
    BY <2>1, <2>2, <1>3 DEF Frontier
<1>15. Reached'
  <2>1. ASSUME NEW s \in Side, NEW u \in Person, Depth(s, u)' > 0
        PROVE  Connected(knows, Depth(s, u)' - 1, Root(s), u)
    <3>1. CASE u # v
      BY <3>1, <2>1, <1>2, <1>6 DEF Reached
    <3>2. CASE u = v
      <4>1. s = side /\ Depth(s, u)' - 1 = (Depth(side, x) - 1) + 1
        BY <3>2, <2>1, <1>3, <1>4, <1>7
      <4>2. Connected(knows, Depth(side, x) - 1, Root(side), x)
        BY <1>2, <1>4 DEF Reached
      <4>3. Connected(knows, (Depth(side, x) - 1) + 1, Root(side), v)
        BY <4>2, <1>2, <1>3, <1>4, WalkExtend, Depth(side, x) - 1 \in Nat,
           Root(side) \in Person DEF Control, Root
      <4>4. QED
        BY <4>1, <4>3, <3>2
    <3>3. QED
      BY <3>1, <3>2
  <2>2. QED
    BY <2>1, <1>3 DEF Reached, Root
<1>16. Outcome'
  BY <1>3 DEF IInv, Outcome, LabelNeighbour
<1>17. Started'
  BY <1>12 DEF Started, Control, Unlabelled
<1>18. QED
  BY <1>12, <1>13, <1>14, <1>15, <1>16, <1>17 DEF IInv, SearchInv, NotStarted

(* A friend on the same side is covered: open persons differ by one level   *)
(* at most, and closed ones are not further than the person expanded.       *)
LEMMA SkipNeighbourIInv ==
  ASSUME IInv, TypeOK', NEW v \in Person, SkipNeighbour(v)
  PROVE  IInv'
<1>1. Started /\ Started'
  BY DEF IInv, NotStarted, SkipNeighbour, NextEdge, Started, Unlabelled
<1>2. Control /\ Levels /\ Frontier /\ Reached /\ TypeOK /\ x \in Person /\ side \in Side
  BY <1>1 DEF IInv, SearchInv, SkipNeighbour, NextEdge, TypeOK
<1>3. /\ UNCHANGED <<knows, src, dst, dist, queue, tmp, side, x, pc, result>>
      /\ pc = "edges"
      /\ (oe \cup ie) \ {v} \subseteq oe' \cup ie' /\ oe' \cup ie' \subseteq oe \cup ie
      /\ Depth(side, v) > 0
  BY DEF SkipNeighbour, NextEdge
<1>4. Covered(side, x, v)
  <2>1. x \in Open(side) /\ Depth(side, x) \in Int /\ Depth(side, v) \in Int
    BY <1>2 DEF Open, Depth, TypeOK
  <2>2. CASE v \in Open(side)
    BY <2>1, <2>2, <1>2, <1>3 DEF Levels, Open, Covered
  <2>3. CASE v \notin Open(side)
    BY <2>1, <2>3, <1>2, <1>3 DEF Levels, Closed, Covered
  <2>4. QED
    BY <2>2, <2>3
<1>5. Control' /\ Levels' /\ Reached' /\ Outcome'
  BY <1>2, <1>3 DEF IInv, Control, Levels, Reached, Outcome, Open, Closed, Depth, Root,
     Query!IsAnswer
<1>6. Frontier'
  <2>1. \A s \in Side, u \in Person : Closed(s, u)' = Closed(s, u)
    BY <1>3 DEF Closed, Open, Depth
  <2>2. \A s \in Side, u, w \in Person : Covered(s, u, w)' = Covered(s, u, w)
    BY <1>3 DEF Covered, Depth
  <2>3. \A w \in Neighbours(knows, x) \ (oe' \cup ie') : Covered(side, x, w)
    BY <1>2, <1>3, <1>4 DEF Frontier
  <2>4. QED
    BY <2>1, <2>2, <2>3, <1>2, <1>3, NeighboursType DEF Frontier
<1>7. QED
  BY <1>1, <1>5, <1>6 DEF IInv, SearchInv, NotStarted

(* The search ends; the labels stay.                                        *)
LEMMA MeetIInv ==
  ASSUME IInv, TypeOK', NEW v \in Person, Meet(v)
  PROVE  IInv'
<1> DEFINE n == Depth(side, x) - Depth(side, v) - 1
<1>1. Started /\ Started'
  BY DEF IInv, NotStarted, Meet, NextEdge, Started, Unlabelled
<1>2. Control /\ Levels /\ Frontier /\ Reached /\ TypeOK /\ src \in Person /\ dst \in Person
  BY <1>1 DEF IInv, SearchInv, Control
<1>3. /\ UNCHANGED <<knows, src, dst, dist, queue, tmp, side, x>>
      /\ pc' = "done" /\ result' = n
  BY DEF Meet, Return
<1>4. Query!IsAnswer(n)
  BY <1>2, MeetIsDistance, AnswerFound DEF IInv
<1>5. Outcome'
  BY <1>3, <1>4 DEF Outcome, Query!IsAnswer
<1>6. Control' /\ Levels' /\ Reached'
  BY <1>2, <1>3 DEF Control, Levels, Reached, Open, Closed, Depth, Root
<1>7. Frontier'
  BY <1>2, <1>3 DEF Frontier, Closed, Open, Depth, Covered
<1>8. QED
  BY <1>1, <1>3, <1>5, <1>6, <1>7 DEF IInv, SearchInv, NotStarted

(* The person expanded becomes closed: all its friends are covered.         *)
LEMMA EndOfEdgesIInv == IInv /\ TypeOK' /\ EndOfEdges => IInv'
<1> SUFFICES ASSUME IInv, TypeOK', EndOfEdges PROVE IInv'
  OBVIOUS
<1>1. Started /\ Started'
  BY DEF IInv, NotStarted, EndOfEdges, Started, Unlabelled
<1>2. Control /\ Levels /\ Frontier /\ Reached /\ TypeOK /\ x \in Person /\ side \in Side
  BY <1>1 DEF IInv, SearchInv, EndOfEdges, TypeOK
<1>3. /\ UNCHANGED <<knows, src, dst, dist, queue, tmp, side, oe, ie, result>>
      /\ pc = "edges" /\ pc' = "level" /\ x' = kInvalidVid /\ oe = {} /\ ie = {}
  BY DEF EndOfEdges
<1>4. \A s \in Side : /\ Open(s)' \subseteq Open(s)
                     /\ Open(s) \subseteq Open(s)' \cup (IF s = side THEN {x} ELSE {})
                     /\ Open(s) \subseteq Person
  BY <1>2, <1>3, InvalidVidAssumption DEF Open, TypeOK
<1>5. \A s \in Side, u \in Person : Depth(s, u)' = Depth(s, u) /\ Depth(s, u) \in Int
  BY <1>2, <1>3 DEF Depth, TypeOK
<1>6. \A s \in Side, u \in Person : Closed(s, u)' => Closed(s, u) \/ (s = side /\ u = x)
  BY <1>4, <1>5 DEF Closed
<1>7. Control'
  BY <1>2, <1>3 DEF Control
<1>8. Levels'
  <2>1. ASSUME NEW s \in Side
        PROVE  /\ \A u \in Open(s)' : Depth(s, u)' > 0
               /\ \A u, z \in queue'[s] : Depth(s, u)' = Depth(s, z)'
    BY <1>2, <1>3, <1>4, <1>5 DEF Levels, TypeOK
  <2>2. /\ \A u, z \in tmp : Depth(side, u)' = Depth(side, z)'
        /\ \A u \in queue[side], z \in tmp : Depth(side, z)' = Depth(side, u)' + 1
    BY <1>2, <1>3, <1>5 DEF Levels, TypeOK
  <2>3. ASSUME NEW s \in Side, NEW u \in Open(s)', NEW z \in Person, Closed(s, z)'
        PROVE  Depth(s, z)' <= Depth(s, u)'
    <3>1. CASE Closed(s, z)
      BY <3>1, <1>2, <1>4, <1>5 DEF Levels
    <3>2. CASE s = side /\ z = x
      <4>1. u \in queue[side] \/ u \in tmp
        BY <3>2, <1>3, <2>3, InvalidVidAssumption DEF Open
      <4>2. QED
        BY <4>1, <3>2, <1>2, <1>3, <1>4, <1>5 DEF Levels
    <3>3. QED
      BY <3>1, <3>2, <2>3, <1>6
  <2>4. x' \notin Person
    BY <1>3, InvalidVidAssumption
  <2>5. QED
    BY <2>1, <2>2, <2>3, <2>4, <1>3 DEF Levels
<1>9. Frontier'
  <2>1. ASSUME NEW s \in Side, NEW u \in Person, Closed(s, u)', NEW w \in Neighbours(knows, u)
        PROVE  Covered(s, u, w)'
    <3>1. Covered(s, u, w) /\ w \in Person
      BY <2>1, <1>2, <1>3, <1>6, NeighboursType DEF Frontier
    <3>2. QED
      BY <3>1, <1>5 DEF Covered
  <2>2. QED
    BY <2>1, <1>3 DEF Frontier
<1>10. Reached' /\ Outcome'
  BY <1>2, <1>3, <1>5 DEF IInv, Reached, Root, Outcome
<1>11. QED
  BY <1>1, <1>3, <1>7, <1>8, <1>9, <1>10 DEF IInv, SearchInv, NotStarted

(* The open persons of the side are those of the next level.                *)
LEMMA SwapQueuesIInv == IInv /\ TypeOK' /\ SwapQueues => IInv'
<1> SUFFICES ASSUME IInv, TypeOK', SwapQueues PROVE IInv'
  OBVIOUS
<1>1. Started /\ Started'
  BY DEF IInv, NotStarted, SwapQueues, Started, Unlabelled
<1>2. Control /\ Levels /\ Frontier /\ Reached /\ TypeOK /\ side \in Side
  BY <1>1 DEF IInv, SearchInv, TypeOK
<1>3. /\ UNCHANGED <<knows, src, dst, dist, side, x, oe, ie, result>>
      /\ x = kInvalidVid /\ tmp' = {} /\ pc' = "choose" /\ queue[side] = {}
      /\ queue'[side] = tmp /\ \A s \in Side : s # side => queue'[s] = queue[s]
  BY <1>2 DEF SwapQueues, Control, TypeOK
<1>4. \A s \in Side : Open(s)' = Open(s)
  BY <1>3, InvalidVidAssumption DEF Open
<1>5. \A s \in Side, u \in Person : Depth(s, u)' = Depth(s, u) /\ Closed(s, u)' = Closed(s, u)
  BY <1>3, <1>4 DEF Depth, Closed
<1>6. Control'
  BY <1>2, <1>3 DEF Control
<1>7. Levels'
  <2>1. tmp \subseteq Person /\ \A s \in Side : queue[s] \subseteq Person /\ Open(s) \subseteq Person
    BY <1>2 DEF TypeOK, Open
  <2>2. QED
    BY <2>1, <1>2, <1>3, <1>4, <1>5, InvalidVidAssumption DEF Levels
<1>8. Frontier'
  BY <1>2, <1>3, <1>5, NeighboursType DEF Frontier, Covered
<1>9. Reached' /\ Outcome'
  BY <1>2, <1>3, <1>5 DEF IInv, Reached, Root, Outcome, SwapQueues
<1>10. QED
  BY <1>1, <1>3, <1>6, <1>7, <1>8, <1>9 DEF IInv, SearchInv, NotStarted

(* Every step of the search keeps the inductive invariant.                  *)
LEMMA NextIInv == IInv /\ [Next]_vars => IInv'
<1> SUFFICES ASSUME IInv, [Next]_vars PROVE IInv'
  OBVIOUS
<1>1. TypeOK'
  BY NextTypeOK DEF IInv
<1>2. CASE UNCHANGED vars
  BY <1>1, <1>2 DEF vars, IInv, SearchInv, NotStarted, Outcome, Started, Control, Levels,
     Frontier, Reached, Open, Closed, Depth, Root, Covered, Query!IsAnswer
<1>3. CASE Next
  BY <1>1, <1>3, RejectIInv, SamePersonIInv, BeginIInv, ChooseSideIInv, GiveUpIInv,
     DequeueIInv, LabelNeighbourIInv, SkipNeighbourIInv, MeetIInv, EndOfEdgesIInv,
     SwapQueuesIInv DEF Next
<1>4. QED
  BY <1>2, <1>3

------------------------------------------------------------------------------
(****************************************************************************)
(* The theorems.                                                            *)
(****************************************************************************)

(* The inductive invariant holds in every state of the search.              *)
THEOREM Invariance == Spec => []IInv
BY InitIInv, NextIInv, PTL DEF Spec

(* Every label either search sets is the exact distance from its root.      *)
THEOREM ExactLabels == Spec => []LabelsAreDistances
<1>1. IInv => LabelsAreDistances
  BY LabelsExact DEF IInv
<1>2. QED
  BY <1>1, Invariance, PTL

(* No step of the search changes a label once it is set.                    *)
THEOREM FinalLabels == Spec => LabelsAreFinal
<1>1. IInv /\ [Next]_vars =>
        [pc # "lookup" => \A v \in Person : dist[v] # 0 => dist'[v] = dist[v]]_vars
  <2> SUFFICES ASSUME IInv, Next, pc # "lookup",
                      NEW v \in Person, dist[v] # 0
               PROVE  dist'[v] = dist[v]
    BY DEF vars
  <2>1. CASE \E u \in Person : LabelNeighbour(u)
    BY <2>1 DEF LabelNeighbour, IInv, TypeOK
  <2>2. CASE ~ \E u \in Person : LabelNeighbour(u)
    BY <2>2 DEF Next, Reject, SamePerson, Begin, ChooseSide, GiveUp, Dequeue,
                SkipNeighbour, Meet, EndOfEdges, SwapQueues
  <2>3. QED
    BY <2>1, <2>2
<1>2. QED
  BY <1>1, Invariance, PTL DEF Spec, LabelsAreFinal

(* IC13 implements the distance query: what it returns is the length of a   *)
(* shortest chain of friends, or -1 when a person is unknown or none exists.*)
THEOREM Refinement == Spec => AnswersTheQuery
<1>1. Init => Query!Init
  BY DEF Init, Query!Init, Pending, Query!Pending
<1>2. IInv /\ IInv' /\ [Next]_vars => [Query!Answer]_(Query!vars)
  <2> SUFFICES ASSUME IInv, IInv', Next, result' # result PROVE Query!Answer
    <3>1. Next => UNCHANGED <<knows, src, dst>>
      BY DEF Next, Reject, SamePerson, Begin, ChooseSide, GiveUp, Dequeue,
             LabelNeighbour, SkipNeighbour, Meet, EndOfEdges, SwapQueues
    <3>2. UNCHANGED vars => UNCHANGED <<knows, src, dst, result>>
      BY DEF vars
    <3>3. QED
      BY <3>1, <3>2 DEF Query!vars
  <2>1. UNCHANGED <<knows, src, dst>> /\ pc' = "done" /\ pc # "done"
    BY DEF Next, Reject, SamePerson, Begin, ChooseSide, GiveUp, Dequeue,
           LabelNeighbour, SkipNeighbour, Meet, NextEdge, EndOfEdges, SwapQueues, Return
  <2>2. result = Query!Pending
    BY <2>1 DEF IInv, Outcome, Pending, Query!Pending
  <2>3. Query!IsAnswer(result')
    BY <2>1 DEF IInv, Outcome, Query!IsAnswer
  <2>4. result' \in Nat \cup {Query!NotFound}
    BY <2>3, AnswerMeaning DEF IsDistance, NotFound, Query!NotFound
  <2>5. QED
    BY <2>1, <2>2, <2>3, <2>4 DEF Query!Answer
<1>3. QED
  BY <1>1, <1>2, Invariance, PTL DEF Spec, AnswersTheQuery, Query!Spec
===============================================================================
