---------------------------- MODULE PathSearchProofs ----------------------------
(****************************************************************************)
(* IC14 finds every shortest path and nothing else, for every set of        *)
(* persons and every graph whose distances a depth can hold.                *)
(****************************************************************************)
EXTENDS PathSearch, KnowsGraphProofs, SequenceTheorems

(* The distances of the data fit a depth.  PathSearch_chain shows what      *)
(* happens when they do not.                                                *)
Narrow ==
  \A E \in Graphs, u, v \in Person, n \in Nat : IsDistance(E, n, u, v) => n < HalfRange

(* A depth in the range is what it is, and no depth leaves the range.       *)
LEMMA Int8Facts ==
  ASSUME NEW n \in Int
  PROVE  /\ Int8(n) \in (-HalfRange)..(HalfRange - 1)
         /\ n \in (-HalfRange)..(HalfRange - 1) => Int8(n) = n
<1> DEFINE m == 2 * HalfRange
           k == n + HalfRange
<1>1. HalfRange \in Nat /\ HalfRange >= 2 /\ m \in Nat /\ m > 0 /\ k \in Int
  BY HalfRangeAssumption
<1>2. k % m \in 0..(m-1)
  <2> HIDE DEF m, k
  <2> QED
    BY <1>1
<1>3. k \in 0..(m-1) => k % m = k
  <2> HIDE DEF m, k
  <2> QED
    BY <1>1
<1>4. Int8(n) = (k % m) - HalfRange
  BY DEF Int8
<1> QED
  BY <1>1, <1>2, <1>3, <1>4

------------------------------------------------------------------------------
(****************************************************************************)
(* Types.                                                                   *)
(****************************************************************************)
LEMMA InitTypeOK == Init => TypeOK
<1> SUFFICES ASSUME Init PROVE TypeOK
  OBVIOUS
<1>1. knows \in Graph /\ <<src, dst>> \in Calls
  <2>1. PICK c \in Calls : src = c[1] /\ dst = c[2]
    BY DEF Init
  <2>2. c = <<c[1], c[2]>>
    BY <2>1, CallsAssumption
  <2> QED
    BY <2>1, <2>2, GraphsAssumption DEF Init
<1>2. Unseen \in (-HalfRange)..(HalfRange - 1) /\ 0 \in (-HalfRange)..(HalfRange - 1)
  BY HalfRangeAssumption DEF Unseen
<1>3. IsABag(EmptyBag)
  BY DEF IsABag, EmptyBag, SetToBag
<1> QED
  BY <1>1, <1>2, <1>3 DEF Init, TypeOK

(* Nothing is searched for a person who was not found.                      *)
Known == pc \in {"search", "mark", "walk"} => src \in Person /\ dst \in Person

LEMMA SmallerSideType == SmallerSide \in Side /\ -SmallerSide \in Side
<1>1. SmallerSide = 1 \/ SmallerSide = -1
  BY DEF SmallerSide
<1>2. \A s \in Side : -s \in Side
  BY DEF Side
<1> QED
  BY <1>1, <1>2 DEF Side

LEMMA LabelLayerType ==
  ASSUME TypeOK, NEW s \in Side, LabelLayer(s)
  PROVE  /\ dist' \in [Side -> [Person -> (-HalfRange)..(HalfRange - 1)]]
         /\ depth' \in [Side -> (-HalfRange)..(HalfRange - 1)]
<1>1. depth' \in [Side -> (-HalfRange)..(HalfRange - 1)]
  <2>1. depth[s] + 1 \in Int
    BY HalfRangeAssumption DEF TypeOK
  <2> QED
    BY <2>1, Int8Facts DEF LabelLayer, TypeOK
<1>2. [v \in Person |-> IF v \in Reached(s) THEN depth'[s] ELSE dist[s][v]]
        \in [Person -> (-HalfRange)..(HalfRange - 1)]
  BY <1>1 DEF TypeOK
<1> QED
  BY <1>1, <1>2 DEF LabelLayer, TypeOK

LEMMA EdgesType ==
  ASSUME NEW u
  PROVE  Edges(u) \subseteq {"out", "in"} \X Person
BY DEF Edges, OutEdges, InEdges

(* A bag with one more path in it.                                          *)
LEMMA BagAdd ==
  ASSUME IsABag(paths), NEW q
  PROVE  /\ IsABag(paths (+) SetToBag({q}))
         /\ DOMAIN (paths (+) SetToBag({q})) = DOMAIN paths \cup {q}
         /\ \A p \in DOMAIN paths \ {q} : (paths (+) SetToBag({q}))[p] = paths[p]
         /\ q \notin DOMAIN paths => (paths (+) SetToBag({q}))[q] = 1
BY DEF IsABag, (+), SetToBag

(* One more frame on the two stacks, and one less.                          *)
LEMMA PushType ==
  ASSUME NEW S, NEW q \in Seq(S), NEW e \in S
  PROVE  /\ Append(q, e) \in Seq(S)
         /\ Len(Append(q, e)) = Len(q) + 1
         /\ Append(q, e)[Len(q) + 1] = e
         /\ \A i \in 1..Len(q) : Append(q, e)[i] = q[i]
BY AppendProperties

LEMMA PopType ==
  ASSUME NEW S, NEW q \in Seq(S), q # << >>
  PROVE  /\ Len(q) \in Nat \ {0}
         /\ SubSeq(q, 1, Len(q) - 1) \in Seq(S)
         /\ Len(SubSeq(q, 1, Len(q) - 1)) = Len(q) - 1
         /\ \A i \in 1..(Len(q) - 1) : SubSeq(q, 1, Len(q) - 1)[i] = q[i]
<1>1. Len(q) \in Nat \ {0} /\ \A i \in 1..(Len(q) - 1) : q[i] \in S
  BY EmptySeq, ElementOfSeq
<1> DEFINE n == Len(q) - 1
           r == SubSeq(q, 1, n)
<1>2. n \in Nat
  BY <1>1
<1>3. /\ r \in Seq(S)
      /\ Len(r) = IF 1 <= n THEN n - 1 + 1 ELSE 0
      /\ \A i \in 1..(n - 1 + 1) : r[i] = q[1 + i - 1]
  <2>1. \A i \in 1..n : q[i] \in S
    BY <1>1
  <2> HIDE DEF n
  <2> QED
    BY <1>2, <2>1, SubSeqProperties
<1>4. \A i \in 1..n : r[i] = q[i]
  <2> HIDE DEF n, r
  <2> QED
    BY <1>2, <1>3
<1>5. Len(r) = n
  <2> HIDE DEF n, r
  <2> QED
    BY <1>2, <1>3
<1> QED
  BY <1>1, <1>3, <1>4, <1>5

LEMMA NextTypeOK == TypeOK /\ Known /\ [Next]_vars => TypeOK'
<1> SUFFICES ASSUME TypeOK, Known, [Next]_vars PROVE TypeOK'
  OBVIOUS
<1>1. CASE Reject
  BY <1>1 DEF Reject, TypeOK
<1>2. CASE Begin
  <2>1. src \in Person /\ dst \in Person
    BY <1>2, CallsAssumption DEF Begin, TypeOK
  <2>2. dist' \in [Side -> [Person -> (-HalfRange)..(HalfRange - 1)]]
    <3>1. 0 \in (-HalfRange)..(HalfRange - 1)
      BY HalfRangeAssumption
    <3> DEFINE R == (-HalfRange)..(HalfRange - 1)
    <3> HIDE DEF R
    <3>2. dist \in [Side -> [Person -> R]] /\ 0 \in R
      BY <3>1 DEF R, TypeOK
    <3>3. [dist EXCEPT ![1][src] = 0, ![-1][dst] = 0] \in [Side -> [Person -> R]]
      BY <3>2
    <3> QED
      BY <1>2, <3>3 DEF Begin, R
  <2>3. queue' \in [Side -> SUBSET Person]
    BY <1>2, <2>1 DEF Begin, TypeOK
  <2> QED
    BY <1>2, <2>2, <2>3 DEF Begin, TypeOK
<1>3. CASE ExpandLayer
  <2>1. Reached(SmallerSide) \subseteq Person
    BY DEF Reached, Neighbours, OutEdges, InEdges
  <2>2. queue' \in [Side -> SUBSET Person]
    BY <1>3, <2>1 DEF ExpandLayer, TypeOK
  <2>3. LabelLayer(SmallerSide)
    BY <1>3 DEF ExpandLayer
  <2>4. /\ dist' \in [Side -> [Person -> (-HalfRange)..(HalfRange - 1)]]
        /\ depth' \in [Side -> (-HalfRange)..(HalfRange - 1)]
    BY <2>3, SmallerSideType, LabelLayerType
  <2> QED
    BY <1>3, <2>2, <2>4 DEF ExpandLayer, TypeOK
<1>4. CASE Meet
  <2>1. MeetPoints(SmallerSide) \subseteq Person
    BY DEF MeetPoints, Reached, Neighbours, OutEdges, InEdges
  <2>2. queue' \in [Side -> SUBSET Person]
    BY <1>4 DEF Meet, TypeOK
  <2>3. LabelLayer(SmallerSide)
    BY <1>4 DEF Meet
  <2>4. /\ dist' \in [Side -> [Person -> (-HalfRange)..(HalfRange - 1)]]
        /\ depth' \in [Side -> (-HalfRange)..(HalfRange - 1)]
    BY <2>3, SmallerSideType, LabelLayerType
  <2> QED
    BY <1>4, <2>1, <2>2, <2>4 DEF Meet, TypeOK
<1>5. ASSUME NEW v \in Person, Mark(v) PROVE TypeOK'
  <2>1. Nearer(1, v) \subseteq Person /\ Nearer(-1, v) \subseteq Person
    BY DEF Nearer, Neighbours, OutEdges, InEdges
  <2>2. Int8(dist[1][v] + 1) \in (-HalfRange)..(HalfRange - 1)
    <3>1. dist[1][v] + 1 \in Int
      BY HalfRangeAssumption DEF TypeOK, Side
    <3> QED
      BY <3>1, Int8Facts
  <2>3. [u \in Person |-> IF u \in Nearer(-1, v) THEN Int8(dist[1][v] + 1) ELSE dist[1][u]]
          \in [Person -> (-HalfRange)..(HalfRange - 1)]
    BY <2>2 DEF TypeOK, Side
  <2>4. dist' \in [Side -> [Person -> (-HalfRange)..(HalfRange - 1)]]
    BY <1>5, <2>3 DEF Mark, TypeOK
  <2> QED
    BY <1>5, <2>1, <2>4 DEF Mark, TypeOK
<1>6. CASE StartWalk
  <2> DEFINE F == SUBSET ({"out", "in"} \X Person)
             t == IF src = dst THEN {} ELSE Edges(src)
  <2>1. src \in Person /\ t \in F
    BY <1>6, EdgesType DEF StartWalk, Known
  <2>2. path' \in Seq(Person) /\ Len(path') = Len(path) + 1
    BY <1>6, <2>1, PushType DEF StartWalk, Enter, TypeOK
  <2>3. todo' \in Seq(F) /\ Len(todo') = Len(todo) + 1
    BY <1>6, <2>1, PushType DEF StartWalk, Enter, TypeOK
  <2>4. IsABag(paths')
    BY <1>6, BagAdd DEF StartWalk, Enter, TypeOK
  <2> QED
    BY <1>6, <2>2, <2>3, <2>4 DEF StartWalk, TypeOK
<1>7. ASSUME NEW d \in {"out", "in"}, NEW v \in Person, Follow(<<d, v>>) PROVE TypeOK'
  <2> DEFINE F == SUBSET ({"out", "in"} \X Person)
             rest == [todo EXCEPT ![Top] = @ \ {<<d, v>>}]
             t == IF v = dst THEN {} ELSE Edges(v)
  <2>1. t \in F /\ <<d, v>>[2] = v
    BY EdgesType
  <2>2. rest \in Seq(F) /\ Len(rest) = Len(todo)
    <3>1. Top \in 1..Len(todo)
      BY <1>7, EmptySeq DEF Follow, Top, TypeOK
    <3>2. todo[Top] \ {<<d, v>>} \in F
      BY <3>1, ElementOfSeq DEF TypeOK
    <3> QED
      BY <3>1, <3>2, ExceptSeq DEF TypeOK
  <2>3. path' \in Seq(Person) /\ Len(path') = Len(path) + 1
    BY <1>7, <2>1, PushType DEF Follow, TypeOK
  <2>4. todo' \in Seq(F) /\ Len(todo') = Len(todo) + 1
    <3> HIDE DEF rest, t, F
    <3>1. todo' = Append(rest, t)
      BY <1>7, <2>1 DEF Follow, rest, t
    <3> QED
      BY <2>1, <2>2, <3>1, PushType
  <2>5. IsABag(paths')
    BY <1>7, BagAdd DEF Follow, TypeOK
  <2> QED
    BY <1>7, <2>3, <2>4, <2>5 DEF Follow, TypeOK
<1>8. CASE Leave
  <2> DEFINE F == SUBSET ({"out", "in"} \X Person)
  <2>1. path # << >> /\ todo # << >> /\ Len(todo) = Len(path) /\ todo \in Seq(F)
    BY <1>8, EmptySeq DEF Leave, TypeOK
  <2>2. path' \in Seq(Person) /\ Len(path') = Len(path) - 1
    BY <1>8, <2>1, PopType DEF Leave, Top, TypeOK
  <2>3. todo' \in Seq(F) /\ Len(todo') = Len(todo) - 1
    <3> HIDE DEF F
    <3> QED
      BY <1>8, <2>1, PopType DEF Leave, Top
  <2> QED
    BY <1>8, <2>1, <2>2, <2>3 DEF Leave, TypeOK
<1>9. CASE UNCHANGED vars
  BY <1>9 DEF vars, TypeOK
<1> QED
  BY <1>1, <1>2, <1>3, <1>4, <1>5, <1>6, <1>7, <1>8, <1>9 DEF Next

------------------------------------------------------------------------------
(****************************************************************************)
(* The inductive invariant.  The two searches, the marking and the walk     *)
(* concern two different persons; what is said of one person and himself is *)
(* only how the walk ends at once.                                          *)
(****************************************************************************)
Root(s) == IF s = 1 THEN src ELSE dst

(* A label is the distance from the root of its side.                       *)
LabelsExact ==
  \A s \in Side : \A v \in Person :
    dist[s][v] # Unseen => IsDistance(knows, dist[s][v], Root(s), v)

(* Nobody up to the depth of a side is without its label.                   *)
LabelsComplete ==
  \A s \in Side : \A v \in Person : \A n \in 0..depth[s] :
    IsDistance(knows, n, Root(s), v) => dist[s][v] # Unseen

(* The queue of a side is its deepest level, and no level has touched the   *)
(* other side.                                                              *)
Levels ==
  /\ \A s \in Side :
       /\ depth[s] \in Nat
       /\ queue[s] # {}
       /\ queue[s] = {v \in Person : dist[s][v] = depth[s]}
       /\ \A v \in Person : dist[s][v] <= depth[s]
  /\ \A v \in Person : dist[1][v] = Unseen \/ dist[-1][v] = Unseen

(* The persons on a shortest path, by their distances from its ends.        *)
Between(v, n, m) ==
  /\ IsDistance(knows, n, src, v)
  /\ IsDistance(knows, m, v, dst)
  /\ IsDistance(knows, n + m, src, dst)

OnWay(v) == \E n, m \in Nat : Between(v, n, m)

(* Marked persons are on a shortest path and have their distance from the   *)
(* source; those where the sides met are marked; of somebody who is done,   *)
(* so are all friends one step nearer to an end.                            *)
Marking ==
  /\ \A s \in Side : depth[s] \in Nat
  /\ IsDistance(knows, depth[1] + depth[-1], src, dst)
  /\ \A v \in onPath : OnWay(v) /\ dist[1][v] # Unseen
  /\ \A v \in Person : Between(v, depth[1], depth[-1]) => v \in onPath
  /\ \A s \in Side : \A v \in onPath \ frontier : \A u \in Neighbours(knows, v) :
       dist[s][u] # Unseen /\ dist[s][u] + 1 = dist[s][v] => u \in onPath

Marked ==
  /\ onPath = {v \in Person : OnWay(v)}
  /\ \A v \in onPath : IsDistance(knows, dist[1][v], src, v)

(* The path so far is the beginning of a shortest one.                      *)
OnTrack ==
  /\ path # << >> => path[1] = src
  /\ \A i \in 1..Len(path) :
       /\ path[i] \in onPath
       /\ dist[1][path[i]] = i - 1
       /\ todo[i] \subseteq Edges(path[i])
       /\ path[i] = dst => todo[i] = {}
  /\ \A i \in 1..(Len(path) - 1) : path[i+1] \in Neighbours(knows, path[i])

ShortestPaths == {p \in Seq(Person) : IsShortest(p)}

(* p goes on from the i-th person of the path by an edge still to be        *)
(* followed.                                                                *)
GoesOn(p, i) ==
  /\ i < Len(p)
  /\ \A j \in 1..i : p[j] = path[j]
  /\ \E d \in {"out", "in"} : <<d, p[i+1]>> \in todo[i]

(* Every shortest path is found or still ahead.                             *)
NoneLost ==
  /\ DOMAIN paths \subseteq ShortestPaths
  /\ \A p \in ShortestPaths \ DOMAIN paths : \E i \in 1..Len(path) : GoesOn(p, i)

(* Where a friendship is stored once, a path found is not ahead any more.   *)
NoneTwice ==
  Simple(knows) =>
    /\ \A p \in DOMAIN paths :
         paths[p] = 1 /\ \A i \in 1..Len(path) : ~ GoesOn(p, i)
    /\ \A i \in 1..(Len(path) - 1), d \in {"out", "in"} : <<d, path[i+1]>> \notin todo[i]

(* The paths returned are all there are.                                    *)
Outcome ==
  IF kInvalidVid \in {src, dst} THEN paths = EmptyBag
  ELSE \/ Separated(knows, src, dst) /\ paths = EmptyBag
       \/ /\ DOMAIN paths = ShortestPaths
          /\ \E n \in Nat : IsDistance(knows, n, src, dst)
          /\ Simple(knows) => \A p \in DOMAIN paths : paths[p] = 1

(* Two different persons.                                                   *)
CallInv ==
  /\ pc = "search" => Levels /\ LabelsExact /\ LabelsComplete
  /\ pc = "mark" => Marking /\ LabelsExact /\ LabelsComplete
  /\ pc = "walk" => Marked /\ OnTrack /\ NoneLost /\ NoneTwice
  /\ pc = "done" => Outcome

(* One person and himself.                                                  *)
SelfInv ==
  /\ path \in {<< >>, <<src>>}
  /\ path = <<src>> => todo[1] = {}
  /\ \A p \in DOMAIN paths : p = <<src>> /\ paths[p] = 1 /\ src \in Person

(* Nothing is labelled, walked or found before its time.                    *)
Control ==
  /\ knows \in Graphs
  /\ Known
  /\ pc = "lookup" =>
       \A s \in Side : depth[s] = 0 /\ (\A v \in Person : dist[s][v] = Unseen)
  /\ path # << >> <=> pc = "walk"
  /\ pc \in {"lookup", "search", "mark"} => paths = EmptyBag

IInv ==
  /\ TypeOK
  /\ Control
  /\ src # dst => CallInv
  /\ src = dst => SelfInv

------------------------------------------------------------------------------
(****************************************************************************)
(* The search.                                                              *)
(****************************************************************************)
Searching ==
  /\ TypeOK
  /\ src \in Person /\ dst \in Person
  /\ Levels
  /\ LabelsExact
  /\ LabelsComplete

LEMMA RootType ==
  ASSUME src \in Person, dst \in Person
  PROVE  \A s \in Side : Root(s) \in Person
BY DEF Root

(* The next level of a side holds those one step further.                   *)
LEMMA NextLevel ==
  ASSUME Searching, NEW s \in Side
  PROVE  /\ depth[s] + 1 \in Nat
         /\ Reached(s) = {v \in Person : IsDistance(knows, depth[s] + 1, Root(s), v)}
<1> DEFINE k == depth[s]
           r == Root(s)
<1>1. k \in Nat /\ r \in Person /\ k + 1 \in Nat
  BY RootType DEF Searching, Levels
<1>2. /\ queue[s] = {v \in Person : dist[s][v] = k}
      /\ \A v \in Person : dist[s][v] <= k
      /\ \A v \in Person : dist[s][v] # Unseen => IsDistance(knows, dist[s][v], r, v)
      /\ \A v \in Person : \A n \in 0..k : IsDistance(knows, n, r, v) => dist[s][v] # Unseen
  BY DEF Searching, Levels, LabelsExact, LabelsComplete
<1>3. ASSUME NEW v \in Reached(s) PROVE v \in Person /\ IsDistance(knows, k+1, r, v)
  <2>1. PICK z \in queue[s] : v \in Neighbours(knows, z)
    BY DEF Reached
  <2>2. z \in Person /\ IsDistance(knows, k, r, z)
    BY <1>1, <1>2, <2>1 DEF Unseen
  <2>3. v \in Person /\ \E m \in 0..(k+1) : IsDistance(knows, m, r, v)
    BY <1>1, <2>1, <2>2, FriendOf
  <2>4. PICK m \in 0..(k+1) : IsDistance(knows, m, r, v)
    BY <2>3
  <2>5. dist[s][v] = Unseen
    BY DEF Reached
  <2>6. m \notin 0..k
    BY <1>2, <2>3, <2>4, <2>5
  <2>7. m = k+1
    BY <1>1, <2>6
  <2> QED
    BY <2>3, <2>4, <2>7
<1>4. ASSUME NEW v \in Person, IsDistance(knows, k+1, r, v) PROVE v \in Reached(s)
  <2>1. PICK z \in Person : IsDistance(knows, k, r, z) /\ v \in Neighbours(knows, z)
    BY <1>1, <1>4, FriendBefore
  <2>2. dist[s][z] = k
    <3>1. dist[s][z] # Unseen
      BY <1>1, <1>2, <2>1
    <3> QED
      BY <1>1, <1>2, <2>1, <3>1, DistanceUnique
  <2>3. z \in queue[s]
    BY <1>2, <2>2
  <2>4. dist[s][v] = Unseen
    <3>1. SUFFICES ASSUME dist[s][v] # Unseen PROVE FALSE
      OBVIOUS
    <3>2. dist[s][v] = k+1
      BY <1>1, <1>2, <1>4, <3>1, DistanceUnique
    <3>3. dist[s][v] <= k
      BY <1>2
    <3> QED
      BY <1>1, <3>2, <3>3
  <2> QED
    BY <2>1, <2>3, <2>4 DEF Reached
<1>5. Reached(s) \subseteq Person
  BY <1>3
<1> QED
  <2> HIDE DEF k, r
  <2>1. Reached(s) = {v \in Person : IsDistance(knows, k + 1, r, v)}
    BY <1>3, <1>4, <1>5
  <2> QED
    BY <1>1, <2>1 DEF k, r

(* A level that reaches somebody is labelled with its depth.                *)
LEMMA LayerLabels ==
  ASSUME Searching, Narrow, knows \in Graphs, NEW s \in Side, LabelLayer(s),
         Reached(s) # {}, UNCHANGED <<knows, src, dst>>
  PROVE  /\ depth' = [depth EXCEPT ![s] = depth[s] + 1]
         /\ depth[s] + 1 \in Nat
         /\ \A v \in Person :
              /\ v \in Reached(s) => dist[s][v] = Unseen /\ dist'[s][v] = depth[s] + 1
              /\ v \notin Reached(s) => dist'[s][v] = dist[s][v]
         /\ \A o \in Side \ {s} : dist'[o] = dist[o] /\ depth'[o] = depth[o]
         /\ LabelsExact'
         /\ LabelsComplete'
<1> DEFINE k == depth[s] + 1
<1>1. k \in Nat /\ Reached(s) = {v \in Person : IsDistance(knows, k, Root(s), v)}
  BY NextLevel
<1>2. Root(s) \in Person /\ \A o \in Side : Root(o)' = Root(o)
  BY RootType DEF Searching, Root
<1>3. k < HalfRange
  <2>1. PICK v \in Person : IsDistance(knows, k, Root(s), v)
    BY <1>1
  <2> QED
    BY <1>1, <1>2, <2>1 DEF Narrow
<1>4. Int8(k) = k
  <2> HIDE DEF k
  <2>1. k \in (-HalfRange)..(HalfRange - 1) /\ k \in Int
    BY <1>1, <1>3, HalfRangeAssumption
  <2> QED
    BY <2>1, Int8Facts
<1>5. depth' = [depth EXCEPT ![s] = k]
  BY <1>4 DEF LabelLayer
<1>6. depth \in [Side -> (-HalfRange)..(HalfRange - 1)]
      /\ dist \in [Side -> [Person -> (-HalfRange)..(HalfRange - 1)]]
  BY DEF Searching, TypeOK
<1>7. \A v \in Person :
        /\ v \in Reached(s) => dist[s][v] = Unseen /\ dist'[s][v] = k
        /\ v \notin Reached(s) => dist'[s][v] = dist[s][v]
  <2>1. depth'[s] = k
    BY <1>5, <1>6
  <2>2. dist'[s] = [v \in Person |-> IF v \in Reached(s) THEN k ELSE dist[s][v]]
    BY <1>6, <2>1 DEF LabelLayer
  <2>3. \A v \in Reached(s) : dist[s][v] = Unseen
    BY DEF Reached
  <2> HIDE DEF k
  <2> QED
    BY <2>2, <2>3
<1>8. \A o \in Side \ {s} : dist'[o] = dist[o] /\ depth'[o] = depth[o]
  BY <1>5, <1>6 DEF LabelLayer
<1>9. LabelsExact'
  <2>1. ASSUME NEW o \in Side, NEW v \in Person, dist'[o][v] # Unseen
        PROVE  IsDistance(knows, dist'[o][v], Root(o), v)
    <3>1. CASE o = s /\ v \in Reached(s)
      BY <1>1, <1>7, <3>1
    <3>2. CASE ~ (o = s /\ v \in Reached(s))
      <4>1. dist'[o][v] = dist[o][v]
        BY <1>7, <1>8, <3>2
      <4> QED
        BY <2>1, <4>1 DEF Searching, LabelsExact
    <3> QED
      BY <3>1, <3>2
  <2> QED
    BY <1>2, <2>1 DEF LabelsExact
<1>10. LabelsComplete'
  <2>1. ASSUME NEW o \in Side, NEW v \in Person, NEW n \in 0..depth'[o],
               IsDistance(knows, n, Root(o), v), dist'[o][v] = Unseen
        PROVE  FALSE
    <3>1. dist[o][v] = Unseen
      BY <1>1, <1>7, <1>8, <2>1 DEF Unseen
    <3>2. n \notin 0..depth[o]
      BY <2>1, <3>1 DEF Searching, LabelsComplete
    <3>3. o = s
      BY <1>8, <3>2
    <3>4. depth'[s] = k /\ depth[s] = k - 1
      BY <1>5, <1>6
    <3>5. n = k
      <4> HIDE DEF k
      <4> QED
        BY <1>1, <3>2, <3>3, <3>4
    <3>6. v \in Reached(s)
      BY <1>1, <2>1, <3>3, <3>5
    <3> QED
      BY <1>1, <1>7, <2>1, <3>3, <3>6 DEF Unseen
  <2> QED
    BY <1>2, <2>1 DEF LabelsComplete
<1> QED
  BY <1>1, <1>5, <1>7, <1>8, <1>9, <1>10

(* A side that reaches nobody new has labelled all it ever will.            *)
LEMMA NobodyNew ==
  ASSUME Searching, NEW s \in Side, Reached(s) = {}
  PROVE  Separated(knows, src, dst)
<1> DEFINE C == {v \in Person : dist[s][v] # Unseen}
<1>1. -s \in Side /\ Root(s) \in Person /\ Root(-s) \in Person
  BY RootType DEF Searching, Side
<1>2. \A o \in Side : dist[o][Root(o)] # Unseen
  <2>1. SUFFICES ASSUME NEW o \in Side PROVE dist[o][Root(o)] # Unseen
    OBVIOUS
  <2>2. IsDistance(knows, 0, Root(o), Root(o)) /\ Root(o) \in Person /\ 0 \in 0..depth[o]
    BY DistanceZero, RootType DEF Searching, Levels
  <2> QED
    BY <2>2 DEF Searching, LabelsComplete
<1>3. Root(s) \in C /\ Root(-s) \notin C
  <2>1. \A v \in Person : dist[s][v] = Unseen \/ dist[-s][v] = Unseen
    BY DEF Searching, Levels, Side
  <2> QED
    BY <1>1, <1>2, <2>1
<1>4. ASSUME NEW u \in C, NEW v \in Neighbours(knows, u) PROVE v \in C
  <2>1. /\ IsDistance(knows, dist[s][u], Root(s), u)
        /\ dist[s][u] <= depth[s] /\ depth[s] \in Nat
    BY DEF Searching, LabelsExact, Levels
  <2>2. v \in Person /\ dist[s][u] \in Nat
    BY <2>1, NeighboursType DEF IsDistance
  <2>3. CASE dist[s][u] = depth[s]
    <3>1. u \in queue[s]
      BY <2>3 DEF Searching, Levels
    <3> QED
      BY <2>2, <3>1 DEF Reached
  <2>4. CASE dist[s][u] # depth[s]
    <3>1. PICK m \in 0..(dist[s][u] + 1) : IsDistance(knows, m, Root(s), v)
      BY <1>1, <2>1, FriendOf
    <3>2. m \in 0..depth[s]
      BY <2>1, <2>2, <2>4
    <3> QED
      BY <2>2, <3>1, <3>2 DEF Searching, LabelsComplete
  <2> QED
    BY <2>3, <2>4
<1> HIDE DEF C
<1>5. C \subseteq Person
  BY DEF C
<1>6. CASE s = 1
  <2>1. src \in C /\ dst \notin C
    BY <1>3, <1>6 DEF Root
  <2> QED
    BY <1>4, <1>5, <2>1 DEF Separated
<1>7. CASE s = -1
  <2> DEFINE R == Person \ C
  <2>1. src \in R /\ dst \notin R
    BY <1>3, <1>7 DEF Root, Searching
  <2>2. ASSUME NEW u \in R, NEW v \in Neighbours(knows, u) PROVE v \in R
    <3>1. v \in Person /\ u \in Neighbours(knows, v)
      BY <2>2, NeighboursType, NeighboursSymmetric
    <3> QED
      BY <1>4, <3>1
  <2>3. R \in SUBSET Person /\ \A u \in R : Neighbours(knows, u) \subseteq R
    BY <2>2
  <2> HIDE DEF R
  <2> QED
    BY <2>1, <2>3 DEF Separated
<1> QED
  BY <1>6, <1>7 DEF Side

(* As long as no level has touched the other side, no walk is as short as   *)
(* the two depths together.                                                 *)
LEMMA StillApart ==
  ASSUME Searching, NEW k \in Nat, Connected(knows, k, src, dst)
  PROVE  k > depth[1] + depth[-1]
<1>1. depth[1] \in Nat /\ depth[-1] \in Nat
  BY DEF Searching, Levels, Side
<1>2. SUFFICES ASSUME k <= depth[1] + depth[-1] PROVE FALSE
  BY <1>1
<1> DEFINE j == IF k <= depth[1] THEN k ELSE depth[1]
<1>3. j \in 0..k /\ j <= depth[1] /\ k - j \in Nat /\ k - j <= depth[-1] /\ j \in Nat
  BY <1>1, <1>2
<1> HIDE DEF j
<1>4. PICK z \in Person : Connected(knows, j, src, z) /\ Connected(knows, k-j, z, dst)
  BY <1>3, SomebodyBetween DEF Searching
<1>5. PICK m \in 0..j : IsDistance(knows, m, src, z)
  BY <1>3, <1>4, DistanceExists DEF Searching
<1>6. Connected(knows, k-j, dst, z)
  BY <1>3, <1>4, ConnectedSymmetric DEF Searching
<1>7. PICK n \in 0..(k-j) : IsDistance(knows, n, dst, z)
  BY <1>3, <1>6, DistanceExists DEF Searching
<1>8. m \in 0..depth[1] /\ n \in 0..depth[-1]
  BY <1>1, <1>3
<1>9. dist[1][z] # Unseen /\ dist[-1][z] # Unseen
  BY <1>5, <1>7, <1>8 DEF Searching, LabelsComplete, Root, Side
<1> QED
  BY <1>9 DEF Searching, Levels

(* A level that touches nobody of the other side keeps the search as it is, *)
(* or ends it when it has reached nobody.                                   *)
LEMMA ExpandLayerStep ==
  ASSUME Searching, Narrow, knows \in Graphs, ExpandLayer, TypeOK'
  PROVE  \/ pc' = "search" /\ Searching'
         \/ pc' = "done" /\ Separated(knows, src, dst)
<1> DEFINE s == SmallerSide
<1>1. s \in Side /\ -s \in Side /\ LabelLayer(s) /\ MeetPoints(s) = {} /\ s # -s
  BY SmallerSideType DEF ExpandLayer, Side
<1>2. /\ queue' = [queue EXCEPT ![s] = Reached(s)] /\ UNCHANGED <<knows, src, dst>>
      /\ queue \in [Side -> SUBSET Person]
      /\ pc' = IF {} \in {queue'[1], queue'[-1]} THEN "done" ELSE "search"
  BY DEF ExpandLayer, Searching, TypeOK
<1> HIDE DEF s
<1>3. queue'[s] = Reached(s) /\ \A o \in Side \ {s} : queue'[o] = queue[o]
  BY <1>1, <1>2
<1>4. CASE Reached(s) = {}
  <2>1. pc' = "done"
    BY <1>1, <1>2, <1>3, <1>4 DEF Side
  <2> QED
    BY <1>1, <1>4, <2>1, NobodyNew
<1>5. CASE Reached(s) # {}
  <2>1. \A o \in Side : queue'[o] # {}
    BY <1>3, <1>5 DEF Searching, Levels
  <2>2. pc' = "search"
    BY <1>2, <2>1 DEF Side
  <2>3. /\ depth' = [depth EXCEPT ![s] = depth[s] + 1]
        /\ depth[s] + 1 \in Nat
        /\ \A v \in Person :
             /\ v \in Reached(s) => dist[s][v] = Unseen /\ dist'[s][v] = depth[s] + 1
             /\ v \notin Reached(s) => dist'[s][v] = dist[s][v]
        /\ \A o \in Side \ {s} : dist'[o] = dist[o] /\ depth'[o] = depth[o]
        /\ LabelsExact'
        /\ LabelsComplete'
    BY <1>1, <1>2, <1>5, LayerLabels
  <2>4. depth'[s] = depth[s] + 1 /\ depth[s] \in Nat
    BY <1>1, <2>3 DEF Searching, Levels, TypeOK
  <2>5. \A v \in Person : dist[s][v] <= depth[s] /\ dist[s][v] \in Int
    BY <1>1 DEF Searching, Levels, TypeOK
  <2>6. Reached(s) \subseteq Person
    BY <1>1, NextLevel
  <2>7. ASSUME NEW o \in Side
        PROVE  /\ depth'[o] \in Nat
               /\ queue'[o] = {v \in Person : dist'[o][v] = depth'[o]}
               /\ \A v \in Person : dist'[o][v] <= depth'[o]
    <3>1. CASE o = s
      <4>1. \A v \in Person : v \in Reached(s) <=> dist'[s][v] = depth[s] + 1
        BY <2>3, <2>4, <2>5
      <4>2. \A v \in Person : dist'[s][v] <= depth[s] + 1
        BY <2>3, <2>4, <2>5
      <4> QED
        BY <1>3, <2>3, <2>4, <2>6, <3>1, <4>1, <4>2
    <3>2. CASE o # s
      BY <1>3, <2>3, <3>2 DEF Searching, Levels
    <3> QED
      BY <3>1, <3>2
  <2>8. ASSUME NEW v \in Person PROVE dist'[1][v] = Unseen \/ dist'[-1][v] = Unseen
    <3>1. dist'[s][v] = Unseen \/ dist'[-s][v] = Unseen
      <4>1. dist'[-s] = dist[-s]
        BY <1>1, <2>3
      <4>2. dist[s][v] = Unseen \/ dist[-s][v] = Unseen
        BY <1>1 DEF Searching, Levels, Side
      <4>3. v \in Reached(s) => dist[-s][v] = Unseen
        BY <1>1 DEF MeetPoints
      <4> QED
        BY <2>3, <4>1, <4>2, <4>3
    <3> QED
      BY <1>1, <3>1 DEF Side
  <2>9. Levels'
    BY <2>1, <2>7, <2>8 DEF Levels
  <2> QED
    BY <1>2, <2>2, <2>3, <2>9 DEF Searching
<1> QED
  BY <1>4, <1>5

(* Somebody on the way, seen from the two roots.                            *)
LEMMA BetweenRoots ==
  ASSUME src \in Person, dst \in Person, NEW v \in Person, NEW n, NEW m
  PROVE  Between(v, n, m) <=> /\ IsDistance(knows, n, Root(1), v)
                              /\ IsDistance(knows, m, Root(-1), v)
                              /\ IsDistance(knows, n + m, src, dst)
BY DistanceSymmetric DEF Between, Root

(* The level that touches the other side touches it at the last level of    *)
(* that one, at the persons in the middle of the shortest paths.            *)
LEMMA MeetStep ==
  ASSUME Searching, Narrow, knows \in Graphs, Meet, TypeOK'
  PROVE  Marking' /\ LabelsExact' /\ LabelsComplete'
<1> DEFINE s == SmallerSide
<1>1. s \in Side /\ -s \in Side /\ LabelLayer(s) /\ MeetPoints(s) # {} /\ s # -s
  BY SmallerSideType DEF Meet, Side
<1>2. /\ onPath' = MeetPoints(s) /\ frontier' = MeetPoints(s)
      /\ UNCHANGED <<knows, src, dst>>
  BY DEF Meet
<1> HIDE DEF s
<1>3. src \in Person /\ dst \in Person /\ \A o \in Side : Root(o) \in Person /\ Root(o)' = Root(o)
  BY <1>2, RootType DEF Searching, Root
<1>4. Reached(s) # {}
  BY <1>1 DEF MeetPoints
<1>5. /\ depth' = [depth EXCEPT ![s] = depth[s] + 1]
      /\ depth[s] + 1 \in Nat
      /\ \A v \in Person :
           /\ v \in Reached(s) => dist[s][v] = Unseen /\ dist'[s][v] = depth[s] + 1
           /\ v \notin Reached(s) => dist'[s][v] = dist[s][v]
      /\ \A o \in Side \ {s} : dist'[o] = dist[o] /\ depth'[o] = depth[o]
      /\ LabelsExact'
      /\ LabelsComplete'
  BY <1>1, <1>2, <1>4, LayerLabels
<1>6. /\ depth'[s] = depth[s] + 1 /\ depth'[-s] = depth[-s]
      /\ depth[s] \in Nat /\ depth[-s] \in Nat
  BY <1>1, <1>5 DEF Searching, Levels, TypeOK
<1>7. depth'[1] + depth'[-1] = depth[1] + depth[-1] + 1
      /\ depth'[1] \in Nat /\ depth'[-1] \in Nat
      /\ depth'[s] + depth'[-s] = depth'[1] + depth'[-1]
  BY <1>1, <1>6 DEF Side
<1>8. Reached(s) = {v \in Person : IsDistance(knows, depth'[s], Root(s), v)}
  BY <1>1, <1>6, NextLevel
<1> DEFINE D == depth'[1] + depth'[-1]
<1>9. \A k \in Nat : Connected(knows, k, src, dst) => k >= D
  <2> SUFFICES ASSUME NEW k \in Nat, Connected(knows, k, src, dst) PROVE k >= D
    OBVIOUS
  <2>1. k > depth[1] + depth[-1]
    BY StillApart
  <2>2. depth[1] \in Nat /\ depth[-1] \in Nat
    BY DEF Searching, Levels, Side
  <2> QED
    BY <1>7, <2>1, <2>2
<1>10. ASSUME NEW v \in MeetPoints(s)
       PROVE  /\ v \in Person
              /\ IsDistance(knows, depth'[s], Root(s), v)
              /\ IsDistance(knows, depth'[-s], Root(-s), v)
              /\ IsDistance(knows, D, src, dst)
  <2>1. v \in Reached(s) /\ dist[-s][v] # Unseen
    BY DEF MeetPoints
  <2>2. v \in Person /\ IsDistance(knows, depth'[s], Root(s), v)
    BY <1>8, <2>1
  <2> DEFINE m == dist[-s][v]
  <2>3. IsDistance(knows, m, Root(-s), v) /\ m <= depth[-s]
    BY <1>1, <2>1, <2>2 DEF Searching, LabelsExact, Levels
  <2>4. m \in Nat
    BY <2>3 DEF IsDistance
  <2>5. Connected(knows, depth'[s] + m, src, dst)
    <3> HIDE DEF m
    <3>1. depth'[s] \in Nat
      BY <1>6
    <3>2. Connected(knows, depth'[s], Root(s), v) /\ Connected(knows, m, Root(-s), v)
      BY <2>2, <2>3 DEF IsDistance
    <3>3. Connected(knows, depth'[s], v, Root(s)) /\ Connected(knows, m, v, Root(-s))
      BY <1>1, <1>3, <2>2, <2>4, <3>1, <3>2, ConnectedSymmetric
    <3>4. Connected(knows, depth'[s] + m, Root(s), Root(-s))
      BY <1>1, <1>3, <2>2, <2>4, <3>1, <3>2, <3>3, ConnectedTransitive
    <3>5. Connected(knows, m + depth'[s], Root(-s), Root(s))
      BY <1>1, <1>3, <2>2, <2>4, <3>1, <3>2, <3>3, ConnectedTransitive
    <3>6. m + depth'[s] = depth'[s] + m
      BY <2>4, <3>1
    <3> QED
      BY <1>1, <3>4, <3>5, <3>6 DEF Root, Side
  <2>6. depth'[s] + m >= D
    <3> HIDE DEF m, D
    <3>1. depth'[s] + m \in Nat
      BY <1>6, <2>4
    <3> QED
      BY <1>9, <2>5, <3>1
  <2>7. m = depth'[-s] /\ depth'[s] + m = D
    <3> HIDE DEF m
    <3> QED
      BY <1>6, <1>7, <2>3, <2>4, <2>6
  <2>8. IsDistance(knows, D, src, dst)
    <3>1. D \in Nat /\ Connected(knows, D, src, dst)
      BY <1>7, <2>5, <2>7
    <3>2. \A k \in 0..(D-1) : ~ Connected(knows, k, src, dst)
      <4> HIDE DEF D
      <4> QED
        BY <1>9, <3>1
    <3> HIDE DEF D
    <3> QED
      BY <3>1, <3>2 DEF IsDistance
  <2> QED
    BY <2>2, <2>3, <2>7, <2>8
<1>11. ASSUME NEW v \in MeetPoints(s)
       PROVE  v \in Person /\ Between(v, depth'[1], depth'[-1]) /\ dist'[1][v] # Unseen
  <2>1. /\ v \in Person
        /\ IsDistance(knows, depth'[1], Root(1), v)
        /\ IsDistance(knows, depth'[-1], Root(-1), v)
        /\ IsDistance(knows, D, src, dst)
    BY <1>1, <1>10 DEF Side
  <2>2. Between(v, depth'[1], depth'[-1])
    BY <1>3, <2>1, BetweenRoots
  <2>3. dist'[1][v] # Unseen
    <3>1. dist'[s][v] = depth[s] + 1 /\ dist'[-s] = dist[-s] /\ dist[-s][v] # Unseen
      BY <1>1, <1>5, <2>1 DEF MeetPoints
    <3> QED
      BY <1>1, <1>5, <3>1 DEF Side, Unseen
  <2> QED
    BY <2>1, <2>2, <2>3
<1>12. ASSUME NEW v \in Person, Between(v, depth'[1], depth'[-1])
       PROVE  v \in MeetPoints(s)
  <2>1. /\ IsDistance(knows, depth'[1], Root(1), v)
        /\ IsDistance(knows, depth'[-1], Root(-1), v)
    BY <1>3, <1>12, BetweenRoots
  <2>2. v \in Reached(s) /\ IsDistance(knows, depth'[-s], Root(-s), v)
    BY <1>1, <1>8, <2>1 DEF Side
  <2>3. depth'[-s] = depth[-s] /\ depth[-s] \in 0..depth[-s]
    BY <1>6
  <2>4. dist[-s][v] # Unseen
    BY <1>1, <2>2, <2>3 DEF Searching, LabelsComplete
  <2> QED
    BY <2>2, <2>4 DEF MeetPoints
<1>13. \A v, n, m : Between(v, n, m)' <=> Between(v, n, m)
  BY <1>2 DEF Between
<1>14. IsDistance(knows, depth'[1] + depth'[-1], src, dst)
  BY <1>1, <1>10
<1>15. Marking'
  <2>1. \A o \in Side : depth'[o] \in Nat
    BY <1>7 DEF Side
  <2>2. \A v \in onPath' : OnWay(v)' /\ dist'[1][v] # Unseen
    BY <1>2, <1>7, <1>11 DEF OnWay, Between
  <2>3. \A v \in Person : Between(v, depth[1], depth[-1])' => v \in onPath'
    BY <1>2, <1>12 DEF Between
  <2>4. onPath' \ frontier' = {}
    BY <1>2
  <2> QED
    BY <1>2, <1>14, <2>1, <2>2, <2>3, <2>4 DEF Marking
<1> QED
  BY <1>5, <1>15

------------------------------------------------------------------------------
(****************************************************************************)
(* The marking.                                                             *)
(****************************************************************************)
InMarking ==
  /\ TypeOK
  /\ src \in Person /\ dst \in Person
  /\ Marking
  /\ LabelsExact
  /\ LabelsComplete

(* A friend one step nearer to either end is on a shortest path too.        *)
LEMMA NearerOnWay ==
  ASSUME InMarking, NEW v \in onPath
  PROVE  /\ \A u \in Nearer(1, v) : u \in Person /\ OnWay(u) /\ dist[1][u] # Unseen
         /\ \A u \in Nearer(-1, v) :
              u \in Person /\ OnWay(u) /\ IsDistance(knows, dist[1][v] + 1, src, u)
<1>1. v \in Person /\ src \in Person /\ dst \in Person
      /\ \A u \in Neighbours(knows, v) : u \in Person /\ v \in Neighbours(knows, u)
  BY NeighboursType, NeighboursSymmetric DEF InMarking, TypeOK
<1>2. \A s \in Side : \A u \in Person :
        dist[s][u] # Unseen => IsDistance(knows, dist[s][u], Root(s), u)
  BY DEF InMarking, LabelsExact
<1>3. PICK n \in Nat, m \in Nat : Between(v, n, m)
  BY DEF InMarking, Marking, OnWay
<1>4. /\ IsDistance(knows, n, src, v) /\ IsDistance(knows, m, v, dst)
      /\ IsDistance(knows, m, dst, v) /\ IsDistance(knows, n + m, src, dst)
  BY <1>1, <1>3, DistanceSymmetric DEF Between
<1>5. dist[1][v] = n
  <2>1. IsDistance(knows, dist[1][v], src, v)
    BY <1>1, <1>2 DEF InMarking, Marking, Side, Root
  <2> QED
    BY <1>1, <1>4, <2>1, DistanceUnique
<1>6. ASSUME NEW u \in Nearer(1, v)
      PROVE  u \in Person /\ OnWay(u) /\ dist[1][u] # Unseen
  <2>1. u \in Neighbours(knows, v) /\ dist[1][u] # Unseen /\ dist[1][u] + 1 = n
    BY <1>5 DEF Nearer
  <2> DEFINE k == dist[1][u]
  <2>2. IsDistance(knows, k, src, u) /\ k \in Nat /\ k + 1 = n
    BY <1>1, <1>2, <2>1 DEF IsDistance, Side, Root
  <2> HIDE DEF k
  <2>3. Connected(knows, k, src, u) /\ Connected(knows, m + 1, u, dst)
    <3>1. Connected(knows, m, dst, v)
      BY <1>4 DEF IsDistance
    <3>2. Connected(knows, m + 1, dst, u)
      BY <1>1, <2>1, <3>1, WalkExtend
    <3> QED
      BY <1>1, <2>1, <2>2, <3>2, ConnectedSymmetric DEF IsDistance
  <2>4. IsDistance(knows, k + (m + 1), src, dst)
    <3>1. k + (m + 1) = n + m
      BY <2>2
    <3> QED
      BY <1>4, <3>1
  <2>5. IsDistance(knows, m + 1, u, dst)
    BY <1>1, <2>1, <2>2, <2>3, <2>4, DistanceSplit
  <2> QED
    BY <1>1, <2>1, <2>2, <2>4, <2>5 DEF OnWay, Between
<1>7. ASSUME NEW u \in Nearer(-1, v)
      PROVE  u \in Person /\ OnWay(u) /\ IsDistance(knows, dist[1][v] + 1, src, u)
  <2> DEFINE k == dist[-1][u]
  <2>1. u \in Neighbours(knows, v) /\ k # Unseen /\ k + 1 = dist[-1][v]
    BY DEF Nearer
  <2>2. IsDistance(knows, k, dst, u) /\ k \in Nat
    BY <1>1, <1>2, <2>1 DEF IsDistance, Side, Root
  <2>3. dist[-1][v] = m
    <3>1. dist[-1][v] # Unseen
      BY <2>1, <2>2 DEF Unseen
    <3>2. IsDistance(knows, dist[-1][v], dst, v)
      BY <1>1, <1>2, <3>1 DEF Side, Root
    <3> QED
      BY <1>1, <1>4, <3>2, DistanceUnique
  <2>4. k + 1 = m
    BY <2>1, <2>3
  <2> HIDE DEF k
  <2>5. Connected(knows, n + 1, src, u)
    <3>1. Connected(knows, n, src, v)
      BY <1>4 DEF IsDistance
    <3> QED
      BY <1>1, <2>1, <3>1, WalkExtend
  <2>6. IsDistance(knows, k, u, dst) /\ Connected(knows, k, u, dst)
    BY <1>1, <2>1, <2>2, DistanceSymmetric DEF IsDistance
  <2>7. IsDistance(knows, (n + 1) + k, src, dst)
    <3>1. (n + 1) + k = n + m
      BY <2>2, <2>4
    <3> QED
      BY <1>4, <3>1
  <2>8. IsDistance(knows, n + 1, src, u)
    BY <1>1, <2>1, <2>2, <2>5, <2>6, <2>7, DistanceSplit
  <2>9. OnWay(u)
    BY <2>2, <2>6, <2>7, <2>8 DEF OnWay, Between
  <2> QED
    BY <1>1, <1>5, <2>1, <2>8, <2>9
<1> QED
  BY <1>6, <1>7

(* Marking a person's nearer friends keeps what is said of the marks, and   *)
(* the label written on the far side is the distance from the source.       *)
LEMMA MarkStep ==
  ASSUME InMarking, Narrow, knows \in Graphs, NEW v \in Person, Mark(v), TypeOK'
  PROVE  InMarking'
<1> DEFINE A == Nearer(1, v)
           B == Nearer(-1, v)
           n == dist[1][v]
<1>1. v \in onPath /\ v \in frontier
  BY DEF Mark, InMarking, TypeOK
<1>2. /\ onPath' = onPath \cup A \cup B /\ frontier' = (frontier \ {v}) \cup A \cup B
      /\ UNCHANGED <<knows, src, dst, depth>>
      /\ dist' = [dist EXCEPT ![1] = [u \in Person |-> IF u \in B THEN Int8(n + 1) ELSE dist[1][u]]]
  BY DEF Mark
<1>3. /\ \A u \in A : u \in Person /\ OnWay(u) /\ dist[1][u] # Unseen
      /\ \A u \in B : u \in Person /\ OnWay(u) /\ IsDistance(knows, n + 1, src, u)
  BY <1>1, NearerOnWay
<1>4. B # {} => n + 1 \in Nat /\ Int8(n + 1) = n + 1
  <2>1. SUFFICES ASSUME NEW u \in B PROVE n + 1 \in Nat /\ Int8(n + 1) = n + 1
    OBVIOUS
  <2> DEFINE k == n + 1
  <2>2. IsDistance(knows, k, src, u) /\ u \in Person /\ src \in Person
    BY <1>3 DEF InMarking
  <2> HIDE DEF k, B
  <2>3. k \in Nat /\ k < HalfRange
    BY <2>2 DEF IsDistance, Narrow
  <2>4. Int8(k) = k
    BY <2>3, Int8Facts, HalfRangeAssumption
  <2> QED
    BY <2>3, <2>4 DEF k
<1>5. A \cap onPath = {} /\ B \cap onPath = {}
  BY DEF Nearer
<1> HIDE DEF A, B
<1>6. \A u \in Person : /\ u \in B => dist'[1][u] = n + 1 /\ n + 1 \in Nat
                        /\ u \notin B => dist'[1][u] = dist[1][u]
  BY <1>2, <1>4 DEF InMarking, TypeOK, Side
<1>7. dist'[-1] = dist[-1]
  BY <1>2 DEF InMarking, TypeOK, Side
<1>8. \A s \in Side : Root(s)' = Root(s)
  BY <1>2 DEF Root
<1>9. LabelsExact'
  <2>1. ASSUME NEW s \in Side, NEW u \in Person, dist'[s][u] # Unseen
        PROVE  IsDistance(knows, dist'[s][u], Root(s), u)
    <3>1. CASE s = 1 /\ u \in B
      BY <1>3, <1>6, <3>1 DEF Root
    <3>2. CASE ~ (s = 1 /\ u \in B)
      <4>1. dist'[s][u] = dist[s][u]
        BY <1>6, <1>7, <3>2 DEF Side
      <4> QED
        BY <2>1, <4>1 DEF InMarking, LabelsExact
    <3> QED
      BY <3>1, <3>2
  <2> QED
    BY <1>2, <1>8, <2>1 DEF LabelsExact
<1>10. \A s \in Side : \A u \in Person : dist[s][u] # Unseen => dist'[s][u] # Unseen
  BY <1>6, <1>7 DEF Side, Unseen
<1>11. LabelsComplete'
  BY <1>2, <1>8, <1>10 DEF InMarking, LabelsComplete
<1>12. \A u : OnWay(u)' <=> OnWay(u)
  BY <1>2 DEF OnWay, Between
<1>13. \A u \in onPath' : OnWay(u)' /\ dist'[1][u] # Unseen
  <2> SUFFICES ASSUME NEW u \in onPath' PROVE OnWay(u) /\ dist'[1][u] # Unseen
    BY <1>12
  <2>1. CASE u \in onPath
    <3>1. u \in Person /\ OnWay(u) /\ dist[1][u] # Unseen
      BY <2>1 DEF InMarking, Marking, TypeOK
    <3> QED
      BY <1>10, <3>1 DEF Side
  <2>2. CASE u \in A
    BY <1>3, <1>10, <2>2 DEF Side
  <2>3. CASE u \in B
    BY <1>3, <1>6, <2>3 DEF Unseen
  <2> QED
    BY <1>2, <2>1, <2>2, <2>3
<1>14. ASSUME NEW s \in Side, NEW z \in onPath' \ frontier', NEW u \in Neighbours(knows, z),
              dist'[s][u] # Unseen, dist'[s][u] + 1 = dist'[s][z], u \notin onPath'
       PROVE  FALSE
  <2>1. z \in onPath /\ z \notin A \cup B /\ u \notin A \cup B /\ u \notin onPath
    BY <1>2, <1>14
  <2>2. z \in Person /\ u \in Person
    BY <2>1, NeighboursType DEF InMarking, TypeOK
  <2>3. dist'[s][u] = dist[s][u] /\ dist'[s][z] = dist[s][z]
    BY <1>6, <1>7, <2>1, <2>2 DEF Side
  <2>4. CASE z = v
    <3>1. u \in Nearer(s, v)
      BY <1>14, <2>1, <2>3, <2>4 DEF Nearer
    <3> QED
      BY <2>1, <3>1 DEF A, B, Side
  <2>5. CASE z # v
    <3>1. z \in onPath \ frontier
      BY <1>2, <1>14, <2>1, <2>5
    <3> QED
      BY <1>14, <2>1, <2>3, <3>1 DEF InMarking, Marking
  <2> QED
    BY <2>4, <2>5
<1>15. Marking'
  <2>1. \A u \in Person : Between(u, depth[1], depth[-1])' => u \in onPath'
    BY <1>2 DEF InMarking, Marking, Between
  <2>2. (\A s \in Side : depth'[s] \in Nat) /\ IsDistance(knows', depth'[1] + depth'[-1], src', dst')
    BY <1>2 DEF InMarking, Marking
  <2>3. \A s \in Side : \A z \in onPath' \ frontier' : \A u \in Neighbours(knows', z) :
          dist'[s][u] # Unseen /\ dist'[s][u] + 1 = dist'[s][z] => u \in onPath'
    BY <1>2, <1>14
  <2> QED
    BY <1>13, <2>1, <2>2, <2>3 DEF Marking
<1> QED
  BY <1>2, <1>9, <1>11, <1>15 DEF InMarking

(* When nobody is left to be done, marks have spread from where the sides   *)
(* met back to both ends: k counts the steps from there.                    *)
LEMMA MarksSpread ==
  ASSUME InMarking, frontier = {}, NEW s \in Side, NEW k \in Nat, NEW v \in Person,
         IsDistance(knows, depth[s] - k, Root(s), v),
         IsDistance(knows, depth[-s] + k, Root(-s), v)
  PROVE  v \in onPath
<1> DEFINE a == depth[s]
           b == depth[-s]
           Away(u, i) == /\ IsDistance(knows, a - i, Root(s), u)
                         /\ IsDistance(knows, b + i, Root(-s), u)
           S == {i \in Nat : \A u \in Person : Away(u, i) => u \in onPath}
<1>1. /\ a \in Nat /\ b \in Nat /\ -s \in Side
      /\ Root(s) \in Person /\ Root(-s) \in Person
      /\ src \in Person /\ dst \in Person
  BY RootType DEF InMarking, Marking, Side
<1>2. IsDistance(knows, a + b, Root(s), Root(-s))
  <2>1. IsDistance(knows, depth[1] + depth[-1], src, dst)
        /\ IsDistance(knows, depth[1] + depth[-1], dst, src)
    BY <1>1, DistanceSymmetric DEF InMarking, Marking
  <2> QED
    BY <1>1, <2>1 DEF Root, Side
<1>3. 0 \in S
  <2> SUFFICES ASSUME NEW u \in Person, Away(u, 0) PROVE u \in onPath
    OBVIOUS
  <2>1. IsDistance(knows, a, Root(s), u) /\ IsDistance(knows, b, Root(-s), u)
    BY <1>1
  <2>2. Between(u, depth[1], depth[-1])
    <3>1. IsDistance(knows, depth[1], Root(1), u) /\ IsDistance(knows, depth[-1], Root(-1), u)
      BY <2>1 DEF Side
    <3> QED
      BY <1>1, <3>1, BetweenRoots DEF InMarking, Marking
  <2> QED
    BY <2>2 DEF InMarking, Marking
<1>4. ASSUME NEW i \in Nat, i \in S PROVE i+1 \in S
  <2> SUFFICES ASSUME NEW u \in Person, Away(u, i+1) PROVE u \in onPath
    OBVIOUS
  <2> DEFINE n == a - (i + 1)
             m == b + i
  <2>1. IsDistance(knows, n, Root(s), u) /\ IsDistance(knows, m + 1, Root(-s), u)
        /\ m \in Nat /\ n \in Nat /\ n + 1 = a - i /\ (n + 1) + m = a + b
    <3>1. b + (i + 1) = m + 1 /\ m \in Nat /\ n + 1 = a - i /\ (n + 1) + m = a + b
      BY <1>1
    <3>2. IsDistance(knows, n, Root(s), u) /\ IsDistance(knows, m + 1, Root(-s), u)
      BY <3>1
    <3> QED
      BY <3>1, <3>2 DEF IsDistance
  <2> HIDE DEF n
  <2>2. PICK z \in Person : IsDistance(knows, m, Root(-s), z) /\ u \in Neighbours(knows, z)
    <3> HIDE DEF m
    <3> QED
      BY <1>1, <2>1, FriendBefore
  <2>3. z \in Neighbours(knows, u)
    BY <2>2, NeighboursSymmetric
  <2>4. IsDistance(knows, n + 1, Root(s), z)
    <3>1. Connected(knows, n + 1, Root(s), z)
      <4>1. Connected(knows, n, Root(s), u)
        BY <2>1 DEF IsDistance
      <4> QED
        BY <1>1, <2>1, <2>3, <4>1, WalkExtend
    <3>2. Connected(knows, m, z, Root(-s))
      <4>1. IsDistance(knows, m, z, Root(-s))
        BY <1>1, <2>2, DistanceSymmetric
      <4> QED
        BY <4>1 DEF IsDistance
    <3>3. IsDistance(knows, (n + 1) + m, Root(s), Root(-s))
      BY <1>2, <2>1
    <3>4. n + 1 \in Nat
      BY <2>1
    <3> HIDE DEF m
    <3> QED
      BY <1>1, <2>1, <3>1, <3>2, <3>3, <3>4, DistanceSplit
  <2>5. z \in onPath
    <3>1. Away(z, i)
      BY <2>1, <2>2, <2>4
    <3> QED
      BY <1>4, <3>1
  <2>6. dist[s][z] = n + 1 /\ dist[s][u] = n /\ dist[s][u] # Unseen
    <3>1. n \in 0..depth[s] /\ n + 1 \in 0..depth[s]
      BY <1>1, <2>1
    <3>2. dist[s][z] # Unseen /\ dist[s][u] # Unseen
      BY <2>1, <2>4, <3>1 DEF InMarking, LabelsComplete
    <3>3. IsDistance(knows, dist[s][z], Root(s), z) /\ IsDistance(knows, dist[s][u], Root(s), u)
      BY <3>2 DEF InMarking, LabelsExact
    <3> QED
      BY <1>1, <2>1, <2>4, <3>2, <3>3, DistanceUnique
  <2>7. z \in onPath \ frontier /\ dist[s][u] # Unseen /\ dist[s][u] + 1 = dist[s][z]
    BY <2>5, <2>6
  <2>8. \A w \in onPath \ frontier : \A t \in Neighbours(knows, w) :
          dist[s][t] # Unseen /\ dist[s][t] + 1 = dist[s][w] => t \in onPath
    BY DEF InMarking, Marking
  <2> QED
    BY <2>2, <2>7, <2>8
<1> HIDE DEF S
<1>5. k \in S
  BY <1>3, <1>4, SetInduction
<1> QED
  BY <1>5 DEF S

LEMMA MarkingOver ==
  ASSUME InMarking, frontier = {}
  PROVE  Marked
<1>1. /\ src \in Person /\ dst \in Person /\ depth[1] \in Nat /\ depth[-1] \in Nat
      /\ IsDistance(knows, depth[1] + depth[-1], src, dst)
  BY DEF InMarking, Marking, Side
<1>2. ASSUME NEW v \in Person, OnWay(v) PROVE v \in onPath
  <2>1. PICK n \in Nat, m \in Nat : Between(v, n, m)
    BY <1>2 DEF OnWay
  <2>2. /\ IsDistance(knows, n, Root(1), v) /\ IsDistance(knows, m, Root(-1), v)
        /\ IsDistance(knows, n + m, src, dst)
    BY <1>1, <2>1, BetweenRoots
  <2>3. n + m = depth[1] + depth[-1]
    BY <1>1, <2>2, DistanceUnique
  <2>4. CASE n <= depth[1]
    <3> DEFINE k == depth[1] - n
    <3>1. k \in Nat /\ n = depth[1] - k /\ m = depth[-1] + k
      BY <1>1, <2>3, <2>4
    <3> HIDE DEF k
    <3>2. IsDistance(knows, depth[1] - k, Root(1), v) /\ IsDistance(knows, depth[-1] + k, Root(-1), v)
      BY <2>2, <3>1
    <3> QED
      BY <3>1, <3>2, MarksSpread DEF Side
  <2>5. CASE n > depth[1]
    <3> DEFINE k == depth[-1] - m
    <3>1. k \in Nat /\ n = depth[1] + k /\ m = depth[-1] - k
      BY <1>1, <2>3, <2>5
    <3> HIDE DEF k
    <3>2. PICK s \in Side : s = -1
      BY DEF Side
    <3>3. -s = 1
      <4>1. \A o \in Side : -o \in Side /\ o # -o
        BY DEF Side
      <4> QED
        BY <3>2, <4>1 DEF Side
    <3>4. IsDistance(knows, depth[s] - k, Root(s), v) /\ IsDistance(knows, depth[-s] + k, Root(-s), v)
      BY <2>2, <3>1, <3>2, <3>3
    <3> QED
      BY <3>1, <3>4, MarksSpread
  <2> QED
    BY <1>1, <2>4, <2>5
<1>3. \A v \in onPath : v \in Person /\ OnWay(v) /\ IsDistance(knows, dist[1][v], src, v)
  BY DEF InMarking, Marking, LabelsExact, TypeOK, Side, Root
<1> QED
  BY <1>2, <1>3 DEF Marked

------------------------------------------------------------------------------
(****************************************************************************)
(* The walk.                                                                *)
(****************************************************************************)

(* Who stands at each place of a shortest path.                             *)
LEMMA AlongShortest ==
  ASSUME src \in Person, dst \in Person, NEW p \in ShortestPaths
  PROVE  /\ p \in Seq(Person) /\ Len(p) \in Nat \ {0}
         /\ IsDistance(knows, Len(p) - 1, src, dst)
         /\ p[1] = src /\ p[Len(p)] = dst
         /\ \A i \in 1..Len(p) :
              /\ p[i] \in Person
              /\ IsDistance(knows, i - 1, src, p[i])
              /\ OnWay(p[i])
         /\ \A i \in 1..(Len(p) - 1) : p[i+1] \in Neighbours(knows, p[i])
<1> DEFINE n == Len(p) - 1
           w == AsWalk(p)
<1>1. p \in Seq(Person) /\ IsDistance(knows, n, src, dst) /\ w \in Walks(knows, n, src, dst)
      /\ Len(p) \in Nat \ {0} /\ n \in Nat
  <2>1. p \in Seq(Person) /\ IsShortest(p)
    BY DEF ShortestPaths
  <2>2. Len(p) \in Nat
    BY <2>1, LenProperties
  <2> QED
    BY <2>1, <2>2 DEF IsShortest
<1>2. \A i \in 1..Len(p) : i - 1 \in 0..n /\ w[i-1] = p[i]
  <2> SUFFICES ASSUME NEW i \in 1..Len(p) PROVE i - 1 \in 0..n /\ w[i-1] = p[i]
    OBVIOUS
  <2>1. i - 1 \in 0..n /\ (i - 1) + 1 = i
    BY <1>1
  <2> QED
    BY <2>1 DEF AsWalk
<1> HIDE DEF w
<1>3. w[0] = src /\ w[n] = dst /\ \A i \in 0..(n-1) : w[i+1] \in Neighbours(knows, w[i])
  BY <1>1 DEF Walks
<1>4. p[1] = src /\ p[Len(p)] = dst
  <2>1. 1 \in 1..Len(p) /\ Len(p) \in 1..Len(p) /\ 1 - 1 = 0 /\ Len(p) - 1 = n
    BY <1>1
  <2> QED
    BY <1>2, <1>3, <2>1
<1>5. ASSUME NEW i \in 1..Len(p)
      PROVE  p[i] \in Person /\ IsDistance(knows, i - 1, src, p[i]) /\ OnWay(p[i])
  <2> DEFINE k == i - 1
  <2>1. k \in 0..n /\ w[k] = p[i] /\ k \in Nat /\ n - k \in Nat /\ k + (n - k) = n
    BY <1>1, <1>2
  <2> HIDE DEF k, n
  <2>2. p[i] \in Person /\ Connected(knows, k, src, p[i]) /\ Connected(knows, n - k, p[i], dst)
    BY <1>1, <2>1, WalkCut
  <2>3. IsDistance(knows, k + (n - k), src, dst)
    BY <1>1, <2>1
  <2>4. IsDistance(knows, k, src, p[i]) /\ IsDistance(knows, n - k, p[i], dst)
    BY <2>1, <2>2, <2>3, DistanceSplit
  <2>5. OnWay(p[i])
    BY <2>1, <2>3, <2>4 DEF OnWay, Between
  <2> QED
    BY <2>2, <2>4, <2>5 DEF k
<1>6. ASSUME NEW i \in 1..(Len(p) - 1) PROVE p[i+1] \in Neighbours(knows, p[i])
  <2>1. i - 1 \in 0..(n-1) /\ i \in 1..Len(p) /\ i + 1 \in 1..Len(p)
        /\ (i - 1) + 1 = i /\ (i + 1) - 1 = i
    BY <1>1
  <2>2. w[i-1] = p[i] /\ w[i] = p[i+1]
    BY <1>2, <2>1
  <2>3. w[(i-1) + 1] \in Neighbours(knows, w[i-1])
    BY <1>3, <2>1
  <2> QED
    BY <2>1, <2>2, <2>3
<1> QED
  BY <1>1, <1>4, <1>5, <1>6

(* What makes a sequence of persons a shortest path.                        *)
LEMMA IsShortestPath ==
  ASSUME NEW p \in Seq(Person), Len(p) > 0, p[1] = src, p[Len(p)] = dst,
         IsDistance(knows, Len(p) - 1, src, dst),
         \A i \in 1..(Len(p) - 1) : p[i+1] \in Neighbours(knows, p[i])
  PROVE  p \in ShortestPaths
<1> DEFINE n == Len(p) - 1
           w == AsWalk(p)
<1>1. n \in Nat /\ Len(p) \in Nat /\ \A i \in 1..Len(p) : p[i] \in Person
  BY LenProperties, ElementOfSeq
<1>2. \A i \in 0..n : i + 1 \in 1..Len(p)
  BY <1>1
<1>3. w \in [0..n -> Person] /\ w[0] = src /\ w[n] = dst
  BY <1>1, <1>2 DEF AsWalk
<1>4. \A i \in 0..(n-1) : w[i+1] \in Neighbours(knows, w[i])
  <2> SUFFICES ASSUME NEW i \in 0..(n-1) PROVE w[i+1] \in Neighbours(knows, w[i])
    OBVIOUS
  <2>1. i + 1 \in 1..(Len(p) - 1) /\ i \in 0..n /\ i + 1 \in 0..n
    BY <1>1
  <2>2. w[i] = p[i+1] /\ w[i+1] = p[(i+1)+1]
    BY <2>1 DEF AsWalk
  <2> QED
    BY <2>1, <2>2
<1>5. w \in Walks(knows, n, src, dst)
  BY <1>3, <1>4 DEF Walks
<1> QED
  BY <1>5 DEF ShortestPaths, IsShortest

(* The edges the walk follows, by their ends.                               *)
LEMMA EdgesAhead ==
  ASSUME NEW u \in Person, NEW v \in Person
  PROVE  /\ \A d \in {"out", "in"} : <<d, v>> \in Edges(u) =>
              v \in onPath /\ v \in Neighbours(knows, u) /\ dist[1][v] = dist[1][u] + 1
         /\ v \in onPath /\ v \in Neighbours(knows, u) /\ dist[1][v] = dist[1][u] + 1 =>
              \E d \in {"out", "in"} : <<d, v>> \in Edges(u)
         /\ Simple(knows) => ~ (<<"out", v>> \in Edges(u) /\ <<"in", v>> \in Edges(u))
<1>1. \A d : <<d, v>> \in Edges(u) <=>
        \/ d = "out" /\ v \in OutEdges(knows, u) /\ v \in Ahead(u)
        \/ d = "in" /\ v \in InEdges(knows, u) /\ v \in Ahead(u)
  BY DEF Edges
<1>2. v \in Neighbours(knows, u) <=> v \in OutEdges(knows, u) \/ v \in InEdges(knows, u)
  BY DEF Neighbours
<1>3. v \in Ahead(u) <=> v \in onPath /\ dist[1][v] = dist[1][u] + 1
  BY DEF Ahead
<1>4. ASSUME Simple(knows), v \in OutEdges(knows, u), v \in InEdges(knows, u) PROVE FALSE
  <2>1. <<u, v>> \in knows /\ <<v, u>> \in knows
    BY <1>4 DEF OutEdges, InEdges
  <2>2. <<u, v>>[1] = u /\ <<u, v>>[2] = v
    OBVIOUS
  <2> QED
    BY <1>4, <2>1, <2>2 DEF Simple
<1> QED
  BY <1>1, <1>2, <1>3, <1>4

Walking ==
  /\ TypeOK
  /\ src \in Person /\ dst \in Person /\ src # dst
  /\ path # << >>
  /\ Marked /\ OnTrack /\ NoneLost /\ NoneTwice

(* The walk starts with all shortest paths ahead.                           *)
LEMMA StartWalkStep ==
  ASSUME TypeOK, src \in Person, dst \in Person, src # dst, Marked,
         NEW n, IsDistance(knows, n, src, dst),
         path = << >>, paths = EmptyBag, StartWalk, TypeOK'
  PROVE  Walking'
<1>1. UNCHANGED <<knows, src, dst, dist, onPath>> /\ paths' = EmptyBag
  BY DEF StartWalk, Enter
<1>2. Len(path) = 0 /\ Len(todo) = 0 /\ todo = << >>
  BY EmptySeq DEF TypeOK
<1>3. path' = <<src>> /\ todo' = <<Edges(src)>>
  BY <1>2 DEF StartWalk, Enter
<1>4. path' # << >> /\ Len(path') = 1 /\ path'[1] = src /\ todo'[1] = Edges(src)
  BY <1>3
<1>5. src \in onPath /\ dist[1][src] = 0
  <2>1. n \in Nat /\ IsDistance(knows, 0, src, src) /\ IsDistance(knows, 0 + n, src, dst)
    <3>1. n \in Nat /\ 0 + n = n
      BY DEF IsDistance
    <3> QED
      BY <3>1, DistanceZero
  <2>2. OnWay(src)
    BY <2>1 DEF OnWay, Between
  <2>3. src \in onPath
    BY <2>2 DEF Marked
  <2>4. IsDistance(knows, dist[1][src], src, src)
    BY <2>3 DEF Marked
  <2> QED
    BY <2>1, <2>3, <2>4, DistanceUnique
<1>6. Marked'
  BY <1>1 DEF Marked, OnWay, Between
<1>7. \A u : Edges(u)' = Edges(u)
  BY <1>1 DEF Edges, Ahead
<1>8. OnTrack'
  BY <1>1, <1>4, <1>5, <1>7 DEF OnTrack
<1>9. DOMAIN paths' = {}
  BY <1>1 DEF EmptyBag, SetToBag
<1>10. \A p : p \in ShortestPaths' <=> p \in ShortestPaths
  BY <1>1 DEF ShortestPaths, IsShortest
<1>11. ASSUME NEW p \in ShortestPaths PROVE GoesOn(p, 1)'
  <2>1. /\ Len(p) \in Nat \ {0} /\ p[1] = src /\ p[Len(p)] = dst
        /\ \A i \in 1..Len(p) : p[i] \in Person /\ IsDistance(knows, i - 1, src, p[i]) /\ OnWay(p[i])
        /\ \A i \in 1..(Len(p) - 1) : p[i+1] \in Neighbours(knows, p[i])
    BY AlongShortest
  <2>2. Len(p) # 1
    BY <2>1
  <2>3. 2 \in 1..Len(p) /\ 1 \in 1..(Len(p) - 1) /\ 1 + 1 = 2 /\ 2 - 1 = 1 /\ 1 < Len(p)
    BY <2>1, <2>2
  <2>4. p[2] \in Neighbours(knows, src) /\ p[2] \in Person /\ p[2] \in onPath
        /\ IsDistance(knows, 1, src, p[2])
    BY <2>1, <2>3 DEF Marked
  <2>5. dist[1][p[2]] = dist[1][src] + 1
    <3>1. IsDistance(knows, dist[1][p[2]], src, p[2])
      BY <2>4 DEF Marked
    <3>2. dist[1][p[2]] = 1
      BY <2>4, <3>1, DistanceUnique
    <3> QED
      BY <1>5, <3>2
  <2>6. \E d \in {"out", "in"} : <<d, p[2]>> \in Edges(src)
    BY <2>4, <2>5, EdgesAhead
  <2>7. \E d \in {"out", "in"} : <<d, p[1+1]>> \in todo'[1]
    BY <1>4, <2>3, <2>6
  <2>8. \A j \in 1..1 : p[j] = path'[j]
    BY <1>4, <2>1
  <2> QED
    BY <2>3, <2>7, <2>8 DEF GoesOn
<1>12. NoneLost'
  <2>1. 1 \in 1..Len(path')
    BY <1>4
  <2> QED
    BY <1>9, <1>10, <1>11, <2>1 DEF NoneLost
<1>13. NoneTwice'
  BY <1>4, <1>9 DEF NoneTwice
<1> QED
  BY <1>1, <1>4, <1>6, <1>8, <1>12, <1>13 DEF Walking

(* The stacks after an edge has been followed.                              *)
LEMMA FollowFrames ==
  ASSUME Walking, NEW d \in {"out", "in"}, NEW v \in Person, Follow(<<d, v>>)
  PROVE  /\ Top \in Nat \ {0} /\ Len(path') = Top + 1 /\ path'[Top + 1] = v
         /\ \A i \in 1..Top : path'[i] = path[i]
         /\ todo'[Top + 1] = IF v = dst THEN {} ELSE Edges(v)
         /\ todo'[Top] = todo[Top] \ {<<d, v>>}
         /\ \A i \in 1..(Top - 1) : todo'[i] = todo[i]
         /\ path[Top] \in Person
         /\ <<d, v>> \in todo[Top] /\ <<d, v>> \in Edges(path[Top])
         /\ v \in onPath /\ v \in Neighbours(knows, path[Top]) /\ dist[1][v] = Top
         /\ UNCHANGED <<knows, src, dst, dist, onPath>>
<1> DEFINE F == SUBSET ({"out", "in"} \X Person)
           rest == [todo EXCEPT ![Top] = @ \ {<<d, v>>}]
           t == IF v = dst THEN {} ELSE Edges(v)
<1>1. <<d, v>>[2] = v
  OBVIOUS
<1>2. /\ path \in Seq(Person) /\ Top \in Nat \ {0} /\ Len(todo) = Top
      /\ todo \in Seq(F) /\ Top \in 1..Len(todo)
  BY EmptySeq, LenProperties DEF Walking, TypeOK, Top
<1>3. /\ path' = Append(path, v) /\ todo' = Append(rest, t)
      /\ <<d, v>> \in todo[Top] /\ UNCHANGED <<knows, src, dst, dist, onPath>>
  BY <1>1 DEF Follow
<1>4. /\ rest \in Seq(F) /\ Len(rest) = Top
      /\ rest[Top] = todo[Top] \ {<<d, v>>}
      /\ \A i \in 1..(Top - 1) : rest[i] = todo[i]
  <2>1. todo[Top] \in F
    BY <1>2, ElementOfSeq
  <2>2. todo[Top] \ {<<d, v>>} \in F
    BY <2>1
  <2> HIDE DEF F
  <2> QED
    BY <1>2, <2>2, ExceptSeq
<1>5. t \in F
  BY EdgesType
<1>6. Len(path') = Top + 1 /\ path'[Top + 1] = v /\ \A i \in 1..Top : path'[i] = path[i]
  BY <1>2, <1>3, PushType DEF Top
<1>7. todo'[Top + 1] = t /\ \A i \in 1..Top : todo'[i] = rest[i]
  <2> HIDE DEF t, rest, F
  <2> QED
    BY <1>3, <1>4, <1>5, PushType
<1>8. path[Top] \in Person /\ dist[1][path[Top]] = Top - 1 /\ <<d, v>> \in Edges(path[Top])
  <2>1. Top \in 1..Len(path) /\ path[Top] \in Person
    BY <1>2, ElementOfSeq DEF Top
  <2> QED
    BY <1>3, <2>1 DEF Walking, OnTrack
<1>9. v \in onPath /\ v \in Neighbours(knows, path[Top]) /\ dist[1][v] = Top
  <2>1. v \in onPath /\ v \in Neighbours(knows, path[Top]) /\ dist[1][v] = dist[1][path[Top]] + 1
    BY <1>8, EdgesAhead
  <2> QED
    BY <1>2, <1>8, <2>1
<1>10. todo'[Top] = todo[Top] \ {<<d, v>>} /\ \A i \in 1..(Top - 1) : todo'[i] = todo[i]
  <2> HIDE DEF rest
  <2> QED
    BY <1>2, <1>4, <1>7
<1> QED
  BY <1>2, <1>3, <1>6, <1>7, <1>8, <1>9, <1>10

(* One person further: the walk stays on track, and what it finds at the    *)
(* destination is a shortest path it has not found before.                  *)
LEMMA FollowStep ==
  ASSUME Walking, NEW d \in {"out", "in"}, NEW v \in Person, Follow(<<d, v>>), TypeOK'
  PROVE  Walking'
<1>0. PICK n, x : n = Top /\ x = path[Top]
  OBVIOUS
<1>1. /\ n \in Nat \ {0} /\ Len(path') = n + 1 /\ path'[n + 1] = v
      /\ \A i \in 1..n : path'[i] = path[i]
      /\ todo'[n + 1] = IF v = dst THEN {} ELSE Edges(v)
      /\ todo'[n] = todo[n] \ {<<d, v>>}
      /\ \A i \in 1..(n - 1) : todo'[i] = todo[i]
      /\ x \in Person
      /\ <<d, v>> \in todo[n] /\ <<d, v>> \in Edges(x)
      /\ v \in onPath /\ v \in Neighbours(knows, x) /\ dist[1][v] = n
      /\ UNCHANGED <<knows, src, dst, dist, onPath>>
  BY <1>0, FollowFrames
<1>2. /\ Len(path) = n /\ x = path[n] /\ path \in Seq(Person)
      /\ path' \in Seq(Person) /\ src \in Person /\ dst \in Person
  BY <1>0 DEF Top, Walking, TypeOK
<1>3. paths' = IF v = dst THEN paths (+) SetToBag({path'}) ELSE paths
  BY DEF Follow
<1>4. /\ path[1] = src
      /\ \A i \in 1..n : /\ path[i] \in onPath /\ dist[1][path[i]] = i - 1
                         /\ todo[i] \subseteq Edges(path[i])
                         /\ path[i] = dst => todo[i] = {}
      /\ \A i \in 1..(n - 1) : path[i+1] \in Neighbours(knows, path[i])
  BY <1>2 DEF Walking, OnTrack
<1>5. \A i \in 1..n : todo'[i] \subseteq todo[i]
  <2> SUFFICES ASSUME NEW i \in 1..n PROVE todo'[i] \subseteq todo[i]
    OBVIOUS
  <2>1. i \in 1..(n-1) \/ i = n
    BY <1>1
  <2> QED
    BY <1>1, <2>1
<1>6. \A u : Edges(u)' = Edges(u)
  BY <1>1 DEF Edges, Ahead
<1>7. path' # << >> /\ path'[1] = src
  <2>1. 1 \in 1..n
    BY <1>1
  <2> QED
    BY <1>1, <1>2, <1>4, <2>1, EmptySeq
<1>8. \A i \in 1..n : path'[i+1] \in Neighbours(knows, path'[i])
  <2> SUFFICES ASSUME NEW i \in 1..n PROVE path'[i+1] \in Neighbours(knows, path'[i])
    OBVIOUS
  <2>1. CASE i = n
    BY <1>1, <1>2, <2>1
  <2>2. CASE i # n
    <3>1. i \in 1..(n-1) /\ i + 1 \in 1..n
      BY <1>1, <2>2
    <3> QED
      BY <1>1, <1>4, <3>1
  <2> QED
    BY <2>1, <2>2
<1>9. OnTrack'
  <2>1. ASSUME NEW i \in 1..(n+1)
        PROVE  /\ path'[i] \in onPath /\ dist[1][path'[i]] = i - 1
               /\ todo'[i] \subseteq Edges(path'[i])
               /\ path'[i] = dst => todo'[i] = {}
    <3>1. CASE i = n + 1
      BY <1>1, <3>1
    <3>2. CASE i # n + 1
      <4>1. i \in 1..n
        BY <1>1, <3>2
      <4>2. todo'[i] \subseteq todo[i] /\ path'[i] = path[i]
        BY <1>1, <1>5, <4>1
      <4>3. /\ path[i] \in onPath /\ dist[1][path[i]] = i - 1
            /\ todo[i] \subseteq Edges(path[i])
            /\ path[i] = dst => todo[i] = {}
        BY <1>4, <4>1
      <4> QED
        BY <4>2, <4>3
    <3> QED
      BY <3>1, <3>2
  <2>2. Len(path') - 1 = n
    BY <1>1
  <2> QED
    BY <1>1, <1>6, <1>7, <1>8, <2>1, <2>2 DEF OnTrack
<1>10. Marked'
  BY <1>1 DEF Walking, Marked, OnWay, Between
<1>11. ShortestPaths' = ShortestPaths
  BY <1>1 DEF ShortestPaths, IsShortest
<1>12. v = dst => path' \in ShortestPaths
  <2> SUFFICES ASSUME v = dst PROVE path' \in ShortestPaths
    OBVIOUS
  <2>1. Len(path') > 0 /\ Len(path') - 1 = n
    BY <1>1
  <2>2. IsDistance(knows, Len(path') - 1, src, dst)
    <3>1. IsDistance(knows, dist[1][v], src, v)
      BY <1>1 DEF Walking, Marked
    <3> QED
      BY <1>1, <2>1, <3>1
  <2>3. path'[Len(path')] = dst
    BY <1>1
  <2>4. \A i \in 1..(Len(path') - 1) : path'[i+1] \in Neighbours(knows, path'[i])
    BY <1>8, <2>1
  <2>5. \A q \in Seq(Person) :
          /\ Len(q) > 0 /\ q[1] = src /\ q[Len(q)] = dst
          /\ IsDistance(knows, Len(q) - 1, src, dst)
          /\ \A i \in 1..(Len(q) - 1) : q[i+1] \in Neighbours(knows, q[i])
          => q \in ShortestPaths
    BY IsShortestPath
  <2> QED
    BY <1>2, <1>7, <2>1, <2>2, <2>3, <2>4, <2>5
<1>13. /\ DOMAIN paths' = IF v = dst THEN DOMAIN paths \cup {path'} ELSE DOMAIN paths
       /\ \A p \in DOMAIN paths \ {path'} : paths'[p] = paths[p]
       /\ v = dst /\ path' \notin DOMAIN paths => paths'[path'] = 1
       /\ v # dst => paths' = paths
  BY <1>3, BagAdd DEF Walking, TypeOK
<1>14. NoneLost'
  <2>1. DOMAIN paths' \subseteq ShortestPaths
    BY <1>12, <1>13 DEF Walking, NoneLost
  <2>2. ASSUME NEW p \in ShortestPaths \ DOMAIN paths'
        PROVE  \E i \in 1..Len(path') : GoesOn(p, i)'
    <3>1. PICK i \in 1..n : GoesOn(p, i)
      BY <1>2, <1>13, <2>2 DEF Walking, NoneLost
    <3>2. PICK c \in {"out", "in"} : <<c, p[i+1]>> \in todo[i]
      BY <3>1 DEF GoesOn
    <3>3. i < Len(p) /\ \A j \in 1..i : p[j] = path[j]
      BY <3>1 DEF GoesOn
    <3>4. \A j \in 1..i : p[j] = path'[j]
      <4>1. \A j \in 1..i : j \in 1..n
        BY <1>1
      <4> QED
        BY <1>1, <3>3, <4>1
    <3>5. CASE <<c, p[i+1]>> \in todo'[i]
      <4>1. GoesOn(p, i)'
        BY <3>3, <3>4, <3>5 DEF GoesOn
      <4>2. i \in 1..Len(path')
        BY <1>1
      <4> QED
        BY <4>1, <4>2
    <3>6. CASE <<c, p[i+1]>> \notin todo'[i]
      <4>1. i = n /\ c = d /\ p[n+1] = v
        <5>1. i \in 1..(n-1) \/ i = n
          BY <1>1
        <5>2. i = n
          BY <1>1, <3>2, <3>6, <5>1
        <5>3. <<c, p[n+1]>> = <<d, v>>
          BY <1>1, <3>2, <3>6, <5>2
        <5> QED
          BY <5>2, <5>3
      <4>2. \A j \in 1..(n+1) : p[j] = path'[j]
        <5> SUFFICES ASSUME NEW j \in 1..(n+1) PROVE p[j] = path'[j]
          OBVIOUS
        <5>1. j \in 1..i \/ j = n + 1
          BY <1>1, <4>1
        <5> QED
          BY <1>1, <3>4, <4>1, <5>1
      <4>3. /\ p \in Seq(Person) /\ Len(p) \in Nat \ {0} /\ p[Len(p)] = dst
            /\ IsDistance(knows, Len(p) - 1, src, dst)
            /\ \A j \in 1..Len(p) : p[j] \in Person /\ IsDistance(knows, j - 1, src, p[j]) /\ OnWay(p[j])
            /\ \A j \in 1..(Len(p) - 1) : p[j+1] \in Neighbours(knows, p[j])
        BY <1>2, <2>2, AlongShortest
      <4>4. n < Len(p)
        BY <3>3, <4>1
      <4>5. CASE v = dst
        <5>1. path' \in ShortestPaths
          BY <1>12, <4>5
        <5>2. IsDistance(knows, Len(path') - 1, src, dst)
          BY <5>1 DEF ShortestPaths, IsShortest
        <5>3. Len(path') - 1 = Len(p) - 1
          BY <1>2, <4>3, <5>2, DistanceUnique
        <5>4. Len(p) = n + 1 /\ Len(path') = Len(p)
          BY <1>1, <4>3, <5>3
        <5>5. p = path'
          BY <1>2, <4>2, <4>3, <5>4, SeqEqual
        <5> QED
          BY <1>13, <2>2, <4>5, <5>5
      <4>6. CASE v # dst
        <5>1. Len(p) # n + 1
          BY <4>1, <4>3, <4>6
        <5>2. n + 1 < Len(p) /\ n + 1 \in 1..(Len(p) - 1) /\ (n+1) + 1 \in 1..Len(p)
              /\ ((n+1) + 1) - 1 = n + 1
          BY <1>1, <4>3, <4>4, <5>1
        <5> DEFINE z == p[(n+1) + 1]
        <5>3. z \in Person /\ IsDistance(knows, n + 1, src, z) /\ OnWay(z) /\ z \in Neighbours(knows, v)
          BY <4>1, <4>3, <5>2
        <5>4. z \in onPath
          BY <5>3 DEF Walking, Marked
        <5>5. dist[1][z] = dist[1][v] + 1
          <6>1. IsDistance(knows, dist[1][z], src, z)
            BY <5>4 DEF Walking, Marked
          <6>2. dist[1][z] = n + 1
            BY <1>2, <5>3, <6>1, DistanceUnique
          <6> QED
            BY <1>1, <6>2
        <5>6. \E b \in {"out", "in"} : <<b, z>> \in Edges(v)
          <6> HIDE DEF z
          <6> QED
            BY <5>3, <5>4, <5>5, EdgesAhead
        <5>7. GoesOn(p, n + 1)'
          BY <1>1, <4>2, <4>6, <5>2, <5>6 DEF GoesOn
        <5>8. n + 1 \in 1..Len(path')
          BY <1>1
        <5> QED
          BY <5>7, <5>8
      <4> QED
        BY <4>5, <4>6
    <3> QED
      BY <3>5, <3>6
  <2> QED
    BY <1>11, <2>1, <2>2 DEF NoneLost
<1>15. NoneTwice'
  <2> SUFFICES ASSUME Simple(knows)
               PROVE  /\ \A p \in DOMAIN paths' :
                           paths'[p] = 1 /\ \A i \in 1..(n+1) : ~ GoesOn(p, i)'
                      /\ \A i \in 1..n : \A c \in {"out", "in"} : <<c, path'[i+1]>> \notin todo'[i]
    <3>1. Len(path') = n + 1 /\ Len(path') - 1 = n /\ knows' = knows
      BY <1>1
    <3> QED
      BY <3>1 DEF NoneTwice
  <2>1. /\ \A p \in DOMAIN paths : paths[p] = 1 /\ \A i \in 1..n : ~ GoesOn(p, i)
        /\ \A i \in 1..(n-1) : \A c \in {"out", "in"} : <<c, path[i+1]>> \notin todo[i]
    BY <1>2 DEF Walking, NoneTwice
  <2>2. \A i \in 1..n : \A c \in {"out", "in"} : <<c, path'[i+1]>> \notin todo'[i]
    <3> SUFFICES ASSUME NEW i \in 1..n, NEW c \in {"out", "in"}, <<c, path'[i+1]>> \in todo'[i]
                 PROVE  FALSE
      OBVIOUS
    <3>1. CASE i = n
      <4>1. <<c, v>> \in todo[n] /\ <<c, v>> # <<d, v>>
        BY <1>1, <3>1
      <4>2. <<c, v>> \in Edges(x) /\ c # d
        BY <1>1, <1>2, <1>4, <4>1
      <4>3. <<"out", v>> \in Edges(x) /\ <<"in", v>> \in Edges(x)
        BY <1>1, <4>2
      <4> QED
        BY <1>1, <4>3, EdgesAhead
    <3>2. CASE i # n
      <4>1. i \in 1..(n-1) /\ i + 1 \in 1..n
        BY <1>1, <3>2
      <4> QED
        BY <1>1, <2>1, <4>1
    <3> QED
      BY <3>1, <3>2
  <2>3. \A p, i : i \in 1..n /\ GoesOn(p, i)' => GoesOn(p, i)
    <3> SUFFICES ASSUME NEW p, NEW i \in 1..n, GoesOn(p, i)' PROVE GoesOn(p, i)
      OBVIOUS
    <3>1. \A j \in 1..i : j \in 1..n
      BY <1>1
    <3>2. todo'[i] \subseteq todo[i]
      BY <1>5
    <3> QED
      BY <1>1, <3>1, <3>2 DEF GoesOn
  <2>4. \A p \in DOMAIN paths : ~ GoesOn(p, n + 1)'
    <3> SUFFICES ASSUME NEW p \in DOMAIN paths, GoesOn(p, n + 1)' PROVE FALSE
      OBVIOUS
    <3>1. n + 1 < Len(p) /\ \A j \in 1..(n+1) : p[j] = path'[j]
      BY DEF GoesOn
    <3>2. Len(p) \in Nat
      BY AlongShortest, <1>2 DEF Walking, NoneLost
    <3>3. n < Len(p) /\ n + 1 \in 1..(n+1) /\ \A j \in 1..n : j \in 1..(n+1)
      BY <1>1, <3>1, <3>2
    <3>4. p[n+1] = v /\ \A j \in 1..n : p[j] = path[j]
      BY <1>1, <3>1, <3>3
    <3>5. GoesOn(p, n)
      BY <1>1, <3>3, <3>4 DEF GoesOn
    <3>6. n \in 1..n
      BY <1>1
    <3> QED
      BY <2>1, <3>5, <3>6
  <2>5. CASE v # dst
    <3> SUFFICES ASSUME NEW p \in DOMAIN paths
                 PROVE  paths[p] = 1 /\ \A i \in 1..(n+1) : ~ GoesOn(p, i)'
      BY <1>13, <2>2, <2>5
    <3>1. \A i \in 1..(n+1) : i \in 1..n \/ i = n + 1
      BY <1>1
    <3> QED
      BY <2>1, <2>3, <2>4, <3>1
  <2>6. CASE v = dst
    <3>1. path' \notin DOMAIN paths
      <4>1. n \in 1..n /\ n < Len(path') /\ \A j \in 1..n : path'[j] = path[j]
        BY <1>1
      <4>2. <<d, path'[n+1]>> \in todo[n]
        BY <1>1
      <4>3. \A q : q = path' => GoesOn(q, n)
        BY <4>1, <4>2 DEF GoesOn
      <4> QED
        BY <2>1, <4>1, <4>3
    <3>2. \A i \in 1..(n+1) : \A q : q = path' => ~ GoesOn(q, i)'
      <4> SUFFICES ASSUME NEW i \in 1..(n+1), NEW q, q = path', GoesOn(q, i)' PROVE FALSE
        OBVIOUS
      <4>1. i < n + 1 /\ \E c \in {"out", "in"} : <<c, path'[i+1]>> \in todo'[i]
        BY <1>1 DEF GoesOn
      <4>2. i \in 1..n
        BY <1>1, <4>1
      <4> QED
        BY <2>2, <4>1, <4>2
    <3>3. \A i \in 1..(n+1) : i \in 1..n \/ i = n + 1
      BY <1>1
    <3>4. \A p \in DOMAIN paths : paths'[p] = 1 /\ \A i \in 1..(n+1) : ~ GoesOn(p, i)'
      BY <1>13, <2>1, <2>3, <2>4, <3>1, <3>3
    <3>5. paths'[path'] = 1
      BY <1>13, <2>6, <3>1
    <3> QED
      BY <1>13, <2>2, <2>6, <3>2, <3>4, <3>5
  <2> QED
    BY <2>5, <2>6
<1> QED
  BY <1>1, <1>2, <1>7, <1>9, <1>10, <1>14, <1>15 DEF Walking

(* One person back: nothing was ahead of the last person any more, and when *)
(* the source is left nothing is ahead at all.                              *)
LEMMA LeaveStep ==
  ASSUME Walking, Leave, TypeOK', kInvalidVid \notin {src, dst}
  PROVE  \/ pc' = "walk" /\ Walking'
         \/ pc' = "done" /\ path' = << >> /\ Outcome'
<1>0. PICK n : n = Top
  OBVIOUS
<1>1. /\ n \in Nat \ {0} /\ Len(path) = n /\ Len(path') = n - 1
      /\ \A i \in 1..(n-1) : path'[i] = path[i] /\ todo'[i] = todo[i]
      /\ todo[n] = {} /\ path' \in Seq(Person)
      /\ pc' = (IF n = 1 THEN "done" ELSE "walk")
      /\ UNCHANGED <<knows, src, dst, dist, onPath, paths>>
  <2> DEFINE F == SUBSET ({"out", "in"} \X Person)
  <2>1. path \in Seq(Person) /\ path # << >> /\ todo \in Seq(F) /\ Len(todo) = Len(path)
        /\ todo # << >>
    BY EmptySeq DEF Walking, TypeOK
  <2>2. /\ Len(path) \in Nat \ {0} /\ path' \in Seq(Person) /\ Len(path') = Len(path) - 1
        /\ \A i \in 1..(Len(path) - 1) : path'[i] = path[i]
    BY <2>1, PopType DEF Leave, Top
  <2>3. \A i \in 1..(Len(todo) - 1) : todo'[i] = todo[i]
    <3> HIDE DEF F
    <3>1. todo' = SubSeq(todo, 1, Len(todo) - 1)
      BY <2>1 DEF Leave, Top
    <3> QED
      BY <2>1, <3>1, PopType
  <2> QED
    BY <1>0, <2>1, <2>2, <2>3 DEF Leave, Top
<1>2. ShortestPaths' = ShortestPaths
  BY <1>1 DEF ShortestPaths, IsShortest
<1>3. \A p, i : i \in 1..(n-1) => (GoesOn(p, i)' <=> GoesOn(p, i))
  <2> SUFFICES ASSUME NEW p, NEW i \in 1..(n-1) PROVE GoesOn(p, i)' <=> GoesOn(p, i)
    OBVIOUS
  <2>1. \A j \in 1..i : j \in 1..(n-1)
    BY <1>1
  <2> QED
    BY <1>1, <2>1 DEF GoesOn
<1>4. \A p : ~ GoesOn(p, n)
  BY <1>1 DEF GoesOn
<1>5. \A p \in ShortestPaths \ DOMAIN paths : \E i \in 1..(n-1) : GoesOn(p, i)
  <2> SUFFICES ASSUME NEW p \in ShortestPaths \ DOMAIN paths
               PROVE  \E i \in 1..(n-1) : GoesOn(p, i)
    OBVIOUS
  <2>1. PICK i \in 1..n : GoesOn(p, i)
    BY <1>1 DEF Walking, NoneLost
  <2>2. i # n
    BY <1>4, <2>1
  <2>3. i \in 1..(n-1)
    BY <1>1, <2>2
  <2> QED
    BY <2>1, <2>3
<1>6. CASE n = 1
  <2>1. pc' = "done" /\ path' = << >>
    BY <1>1, <1>6, EmptySeq
  <2>2. DOMAIN paths = ShortestPaths
    <3>1. 1..(n-1) = {}
      BY <1>6
    <3> QED
      BY <1>5, <3>1 DEF Walking, NoneLost
  <2>3. \E k \in Nat : IsDistance(knows, k, src, dst)
    <3>1. src \in onPath
      BY <1>1, <1>6 DEF Walking, OnTrack
    <3>2. PICK i \in Nat, j \in Nat : Between(src, i, j)
      BY <3>1 DEF Walking, Marked, OnWay
    <3>3. i + j \in Nat /\ IsDistance(knows, i + j, src, dst)
      BY <3>2 DEF Between
    <3> QED
      BY <3>3
  <2>4. Simple(knows) => \A p \in DOMAIN paths : paths[p] = 1
    BY DEF Walking, NoneTwice
  <2>5. Outcome'
    BY <1>1, <1>2, <2>2, <2>3, <2>4 DEF Outcome
  <2> QED
    BY <2>1, <2>5
<1>7. CASE n # 1
  <2>1. pc' = "walk" /\ path' # << >> /\ 1 \in 1..(n-1)
    <3>1. Len(path') # 0
      BY <1>1, <1>7
    <3> QED
      BY <1>1, <1>7, <3>1, EmptySeq
  <2>2. Marked'
    BY <1>1 DEF Walking, Marked, OnWay, Between
  <2>3. \A u : Edges(u)' = Edges(u)
    BY <1>1 DEF Edges, Ahead
  <2>4. OnTrack'
    <3>1. \A i \in 1..(n-1) : i \in 1..n
      BY <1>1
    <3>2. \A i \in 1..((n-1) - 1) : i \in 1..(n-1) /\ i + 1 \in 1..(n-1)
      BY <1>1
    <3>3. path'[1] = src
      BY <1>1, <2>1 DEF Walking, OnTrack
    <3>4. \A i \in 1..(n-1) :
            /\ path'[i] \in onPath /\ dist[1][path'[i]] = i - 1
            /\ todo'[i] \subseteq Edges(path'[i])
            /\ path'[i] = dst => todo'[i] = {}
      BY <1>1, <3>1 DEF Walking, OnTrack
    <3>5. \A i \in 1..((n-1) - 1) : path'[i+1] \in Neighbours(knows, path'[i])
      BY <1>1, <3>2 DEF Walking, OnTrack
    <3> QED
      BY <1>1, <2>3, <3>3, <3>4, <3>5 DEF OnTrack
  <2>5. NoneLost'
    BY <1>1, <1>2, <1>3, <1>5 DEF NoneLost, Walking
  <2>6. NoneTwice'
    <3> SUFFICES ASSUME Simple(knows)
                 PROVE  /\ \A p \in DOMAIN paths :
                             paths[p] = 1 /\ \A i \in 1..(n-1) : ~ GoesOn(p, i)'
                        /\ \A i \in 1..((n-1) - 1) : \A c \in {"out", "in"} : <<c, path'[i+1]>> \notin todo'[i]
      BY <1>1 DEF NoneTwice
    <3>1. \A i \in 1..(n-1) : i \in 1..n
      BY <1>1
    <3>2. \A i \in 1..((n-1) - 1) : i \in 1..(n-1) /\ i + 1 \in 1..(n-1)
      BY <1>1
    <3>3. /\ \A p \in DOMAIN paths : paths[p] = 1 /\ \A i \in 1..n : ~ GoesOn(p, i)
          /\ \A i \in 1..(n-1) : \A c \in {"out", "in"} : <<c, path[i+1]>> \notin todo[i]
      BY <1>1 DEF Walking, NoneTwice
    <3>4. \A i \in 1..((n-1) - 1) : \A c \in {"out", "in"} : <<c, path'[i+1]>> \notin todo'[i]
      BY <1>1, <3>2, <3>3
    <3> QED
      BY <1>3, <3>1, <3>3, <3>4
  <2> QED
    BY <1>1, <2>1, <2>2, <2>4, <2>5, <2>6 DEF Walking
<1> QED
  BY <1>6, <1>7

------------------------------------------------------------------------------
(****************************************************************************)
(* Every step keeps the invariant.                                          *)
(****************************************************************************)
LEMMA InitIInv == Init => IInv
<1> SUFFICES ASSUME Init PROVE IInv
  OBVIOUS
<1>1. TypeOK
  BY InitTypeOK
<1>2. Control
  BY DEF Init, Control, Known
<1>3. DOMAIN paths = {}
  BY DEF Init, EmptyBag, SetToBag
<1>4. CallInv /\ SelfInv
  BY <1>3 DEF Init, CallInv, SelfInv
<1> QED
  BY <1>1, <1>2, <1>4 DEF IInv

(* Nobody but the two persons is labelled when the search begins.           *)
LEMMA BeginStep ==
  ASSUME IInv, src # dst, Begin, TypeOK'
  PROVE  Searching'
<1>1. src \in Person /\ dst \in Person /\ UNCHANGED <<knows, src, dst, depth>>
  BY CallsAssumption DEF Begin, IInv, TypeOK
<1>2. \A s \in Side : depth[s] = 0 /\ Root(s)' = Root(s) /\ Root(s) \in Person
  BY <1>1, RootType DEF Begin, IInv, Control, Root
<1>3. \A s \in Side : /\ queue'[s] = {Root(s)}
                      /\ \A v \in Person : dist'[s][v] = IF v = Root(s) THEN 0 ELSE Unseen
  <2>1. \A s \in Side : \A v \in Person : dist[s][v] = Unseen
    BY DEF Begin, IInv, Control
  <2>2. queue'[1] = {src} /\ queue'[-1] = {dst}
    BY DEF Begin, IInv, TypeOK, Side
  <2>3. /\ dist'[1] = [dist[1] EXCEPT ![src] = 0]
        /\ dist'[-1] = [dist[-1] EXCEPT ![dst] = 0]
    <3> DEFINE R == (-HalfRange)..(HalfRange - 1)
    <3> HIDE DEF R
    <3>1. dist \in [Side -> [Person -> R]] /\ 1 \in Side /\ -1 \in Side /\ 1 # -1
      BY DEF IInv, TypeOK, R, Side
    <3>2. dist' = [dist EXCEPT ![1][src] = 0, ![-1][dst] = 0]
      BY DEF Begin
    <3> QED
      BY <3>1, <3>2
  <2>4. \A s \in Side : dist[s] \in [Person -> (-HalfRange)..(HalfRange - 1)]
    BY DEF IInv, TypeOK
  <2> QED
    BY <1>1, <2>1, <2>2, <2>3, <2>4 DEF Root, Side
<1>4. \A s \in Side : \A v \in Person : IsDistance(knows, 0, Root(s), v) <=> v = Root(s)
  BY <1>2, DistanceZero
<1>5. Levels'
  <2>1. \A v \in Person : dist'[1][v] = Unseen \/ dist'[-1][v] = Unseen
    BY <1>3 DEF Root, Side, IInv
  <2> QED
    BY <1>1, <1>2, <1>3, <2>1 DEF Levels, Unseen
<1>6. LabelsExact'
  BY <1>1, <1>2, <1>3, <1>4 DEF LabelsExact
<1>7. LabelsComplete'
  BY <1>1, <1>2, <1>3, <1>4 DEF LabelsComplete, Unseen
<1> QED
  BY <1>1, <1>5, <1>6, <1>7 DEF Searching

LEMMA ControlStep == IInv /\ Next /\ TypeOK' => Control'
<1> SUFFICES ASSUME IInv, Next, TypeOK' PROVE Control'
  OBVIOUS
<1> USE DEF IInv, Control, Known
<1>1. knows' = knows /\ src' = src /\ dst' = dst
  BY DEF Next, Reject, Begin, ExpandLayer, Meet, Mark, StartWalk, Follow, Leave
<1>2. CASE Reject
  BY <1>2 DEF Reject
<1>3. CASE Begin
  <2>1. src \in Person /\ dst \in Person
    BY <1>3, CallsAssumption DEF Begin, TypeOK
  <2> QED
    BY <1>3, <2>1 DEF Begin
<1>4. CASE ExpandLayer
  BY <1>4 DEF ExpandLayer
<1>5. CASE Meet
  BY <1>5 DEF Meet
<1>6. ASSUME NEW v \in Person, Mark(v) PROVE Control'
  BY <1>6 DEF Mark
<1>7. CASE StartWalk
  <2>1. path' # << >>
    BY <1>7 DEF StartWalk, Enter, TypeOK
  <2> QED
    BY <1>7, <2>1 DEF StartWalk
<1>8. ASSUME NEW d \in {"out", "in"}, NEW v \in Person, Follow(<<d, v>>) PROVE Control'
  <2>1. path' # << >>
    BY <1>8 DEF Follow, TypeOK
  <2> QED
    BY <1>8, <2>1 DEF Follow
<1>9. CASE Leave
  <2>1. Len(path') = Top - 1 /\ Top \in Nat \ {0} /\ path' \in Seq(Person)
    BY <1>9, PopType DEF Leave, Top, TypeOK
  <2>2. path' = << >> <=> Top = 1
    BY <2>1, EmptySeq
  <2> QED
    BY <1>9, <2>2 DEF Leave
<1> QED
  BY <1>2, <1>3, <1>4, <1>5, <1>6, <1>7, <1>8, <1>9 DEF Next

(* Two different persons, in each phase.                                    *)
LEMMA CallStep ==
  ASSUME IInv, Narrow, Next, TypeOK', src # dst
  PROVE  CallInv'
<1>1. TypeOK /\ Control /\ CallInv /\ knows \in Graphs
  BY DEF IInv, Control
<1>2. pc \in {"search", "mark", "walk"} =>
        src \in Person /\ dst \in Person /\ kInvalidVid \notin {src, dst}
  BY <1>1, InvalidVidAssumption DEF Control, Known
<1>3. CASE Reject
  BY <1>1, <1>3 DEF Reject, Control, CallInv, Outcome
<1>4. CASE Begin
  BY <1>4, BeginStep DEF Begin, Searching, CallInv
<1>5. CASE ExpandLayer
  <2>1. Searching /\ paths = EmptyBag /\ UNCHANGED <<knows, src, dst, paths>>
    BY <1>1, <1>2, <1>5 DEF ExpandLayer, CallInv, Searching, Control
  <2>2. \/ pc' = "search" /\ Searching'
        \/ pc' = "done" /\ Separated(knows, src, dst)
    BY <1>1, <1>5, <2>1, ExpandLayerStep
  <2>3. kInvalidVid \notin {src, dst}
    BY <1>2, <1>5 DEF ExpandLayer
  <2> QED
    BY <2>1, <2>2, <2>3 DEF CallInv, Searching, Outcome
<1>6. CASE Meet
  <2>1. Searching
    BY <1>1, <1>2, <1>6 DEF Meet, CallInv, Searching
  <2>2. Marking' /\ LabelsExact' /\ LabelsComplete'
    BY <1>1, <1>6, <2>1, MeetStep
  <2> QED
    BY <1>6, <2>2 DEF Meet, CallInv
<1>7. ASSUME NEW v \in Person, Mark(v) PROVE CallInv'
  <2>1. InMarking
    BY <1>1, <1>2, <1>7 DEF Mark, CallInv, InMarking
  <2>2. InMarking'
    BY <1>1, <1>7, <2>1, MarkStep
  <2> QED
    BY <1>7, <2>2 DEF Mark, CallInv, InMarking
<1>8. CASE StartWalk
  <2>1. InMarking /\ frontier = {} /\ path = << >> /\ paths = EmptyBag /\ pc' = "walk"
    BY <1>1, <1>2, <1>8 DEF StartWalk, CallInv, InMarking, Control
  <2>2. Marked
    BY <2>1, MarkingOver
  <2>3. IsDistance(knows, depth[1] + depth[-1], src, dst)
    BY <2>1 DEF InMarking, Marking
  <2>4. Walking'
    BY <1>1, <1>8, <2>1, <2>2, <2>3, StartWalkStep DEF InMarking
  <2> QED
    BY <2>1, <2>4 DEF CallInv, Walking
<1>9. ASSUME pc = "walk" PROVE Walking
  BY <1>1, <1>2, <1>9 DEF CallInv, Walking, Control
<1>10. ASSUME NEW d \in {"out", "in"}, NEW v \in Person, Follow(<<d, v>>) PROVE CallInv'
  <2>1. Walking /\ pc' = "walk"
    BY <1>9, <1>10 DEF Follow
  <2>2. Walking'
    BY <1>10, <2>1, FollowStep
  <2> QED
    BY <2>1, <2>2 DEF CallInv, Walking
<1>11. CASE Leave
  <2>1. Walking /\ kInvalidVid \notin {src, dst}
    BY <1>2, <1>9, <1>11 DEF Leave
  <2>2. \/ pc' = "walk" /\ Walking'
        \/ pc' = "done" /\ path' = << >> /\ Outcome'
    BY <1>11, <2>1, LeaveStep
  <2> QED
    BY <2>2 DEF CallInv, Walking
<1> QED
  BY <1>3, <1>4, <1>5, <1>6, <1>7, <1>8, <1>10, <1>11 DEF Next

(* One person and himself: the walk ends where it starts.                   *)
LEMMA SelfStep ==
  ASSUME IInv, Next, TypeOK', src = dst
  PROVE  SelfInv'
<1>1. TypeOK /\ Control /\ SelfInv
  BY DEF IInv
<1>2. src' = src
  BY DEF Next, Reject, Begin, ExpandLayer, Meet, Mark, StartWalk, Follow, Leave
<1>3. CASE Reject \/ Begin \/ ExpandLayer \/ Meet \/ \E v \in Person : Mark(v)
  <2>1. path' = path /\ todo' = todo /\ paths' = paths
    BY <1>3 DEF Reject, Begin, ExpandLayer, Meet, Mark
  <2> QED
    BY <1>1, <1>2, <2>1 DEF SelfInv
<1>4. CASE StartWalk
  <2>1. path = << >> /\ paths = EmptyBag /\ Len(todo) = 0
    BY <1>1, <1>4 DEF StartWalk, Control, TypeOK
  <2>2. todo = << >>
    BY <1>1, <2>1, EmptySeq DEF TypeOK
  <2>3. path' = <<src>> /\ todo'[1] = {} /\ paths' = paths (+) SetToBag({<<src>>})
    BY <1>4, <2>1, <2>2 DEF StartWalk, Enter
  <2>4. DOMAIN paths = {}
    BY <2>1 DEF EmptyBag, SetToBag
  <2>5. DOMAIN paths' = {<<src>>} /\ paths'[<<src>>] = 1
    <3> DEFINE q == <<src>>
    <3>1. IsABag(paths) /\ paths' = paths (+) SetToBag({q})
      BY <1>1, <2>3 DEF TypeOK
    <3> HIDE DEF q
    <3>2. DOMAIN paths' = {q} /\ paths'[q] = 1
      BY <2>4, <3>1, BagAdd
    <3> QED
      BY <3>2 DEF q
  <2>6. src \in Person
    BY <1>1, <1>4 DEF StartWalk, Control, Known
  <2> QED
    BY <1>2, <2>3, <2>5, <2>6 DEF SelfInv
<1>5. ASSUME NEW d \in {"out", "in"}, NEW v \in Person, Follow(<<d, v>>) PROVE FALSE
  <2>1. path = <<src>> /\ Top = 1 /\ todo[1] = {}
    BY <1>1, <1>5 DEF Follow, SelfInv, Top
  <2> QED
    BY <1>5, <2>1 DEF Follow
<1>6. CASE Leave
  <2>1. path = <<src>> /\ Len(path) = 1 /\ path \in Seq(Person)
    BY <1>1, <1>6 DEF Leave, SelfInv, TypeOK
  <2>2. path' \in Seq(Person) /\ Len(path') = 1 - 1
    BY <1>6, <2>1, PopType DEF Leave, Top
  <2>3. path' = << >>
    BY <2>2, EmptySeq
  <2> QED
    BY <1>1, <1>2, <1>6, <2>3 DEF Leave, SelfInv
<1> QED
  BY <1>3, <1>4, <1>5, <1>6 DEF Next

LEMMA NextIInv == IInv /\ Narrow /\ [Next]_vars => IInv'
<1> SUFFICES ASSUME IInv, Narrow, [Next]_vars PROVE IInv'
  OBVIOUS
<1>1. TypeOK'
  BY NextTypeOK DEF IInv, Control
<1>2. CASE Next
  <2>1. src' = src /\ dst' = dst
    BY <1>2 DEF Next, Reject, Begin, ExpandLayer, Meet, Mark, StartWalk, Follow, Leave
  <2> QED
    BY <1>1, <1>2, <2>1, ControlStep, CallStep, SelfStep DEF IInv
<1>3. CASE UNCHANGED vars
  <2>1. (Control' <=> Control) /\ (SelfInv' <=> SelfInv)
    BY <1>3 DEF vars, Control, Known, SelfInv
  <2>2. CallInv' <=> CallInv
    BY <1>3 DEF vars, CallInv, Levels, LabelsExact, LabelsComplete, Marking, Marked, OnTrack,
       NoneLost, NoneTwice, Outcome, Root, OnWay, Between, GoesOn, ShortestPaths, IsShortest,
       Edges, Ahead
  <2>3. src' = src /\ dst' = dst
    BY <1>3 DEF vars
  <2> QED
    BY <1>1, <2>1, <2>2, <2>3 DEF IInv
<1> QED
  BY <1>2, <1>3

------------------------------------------------------------------------------
(****************************************************************************)
(* Theorems.                                                                *)
(****************************************************************************)

(* The call keeps its types, whatever the distances are: a depth wraps but  *)
(* stays an int8_t.                                                         *)
THEOREM TypeCorrect == Spec => []TypeOK
<1>1. Init => TypeOK /\ Known
  BY InitTypeOK DEF Init, Known
<1>2. TypeOK /\ Known /\ [Next]_vars => TypeOK' /\ Known'
  <2> SUFFICES ASSUME TypeOK, Known, [Next]_vars PROVE TypeOK' /\ Known'
    OBVIOUS
  <2>1. TypeOK'
    BY NextTypeOK
  <2>2. Known'
    <3>1. CASE Begin
      BY <3>1, CallsAssumption DEF Begin, TypeOK, Known
    <3>2. CASE UNCHANGED vars
      BY <3>2 DEF vars, Known
    <3>3. CASE Next /\ ~ Begin
      BY <3>3 DEF Next, Known, Reject, ExpandLayer, Meet, Mark, StartWalk, Follow, Leave
    <3> QED
      BY <3>1, <3>2, <3>3
  <2> QED
    BY <2>1, <2>2
<1> QED
  BY <1>1, <1>2, PTL DEF Spec

(* The invariant, where a depth can hold the distances.                     *)
THEOREM Invariance == ASSUME Narrow PROVE Spec => []IInv
<1>1. Init => IInv
  BY InitIInv
<1>2. IInv /\ [Next]_vars => IInv'
  BY NextIInv
<1> QED
  BY <1>1, <1>2, PTL DEF Spec

(* Where a friendship is stored once no path is returned twice: whatever    *)
(* the walk has found is not ahead of it any more.                          *)
THEOREM PathsOnce == ASSUME Narrow PROVE Spec => []EachPathOnce
<1>1. IInv => EachPathOnce
  <2> SUFFICES ASSUME IInv, Simple(knows) PROVE \A p \in DOMAIN paths : paths[p] = 1
    BY DEF EachPathOnce, BagToSet
  <2>1. CASE src = dst
    BY <2>1 DEF IInv, SelfInv
  <2>2. CASE paths = EmptyBag
    BY <2>2 DEF EmptyBag, SetToBag
  <2>3. CASE src # dst /\ pc \in {"walk", "done"}
    <3>1. DOMAIN EmptyBag = {}
      BY DEF EmptyBag, SetToBag
    <3> QED
      BY <2>3, <3>1 DEF IInv, CallInv, NoneTwice, Outcome
  <2> QED
    BY <2>1, <2>2, <2>3 DEF IInv, Control, TypeOK
<1> QED
  BY <1>1, Invariance, PTL

(* The phase between the search and the walk leaves exactly the persons of  *)
(* the shortest paths marked, with their distances from the source.         *)
THEOREM MarksRight ==
  ASSUME Narrow, IsFiniteSet(Person)
  PROVE  Spec => []MarkedExactly
<1>1. IInv => MarkedExactly
  <2> SUFFICES ASSUME IInv, pc = "walk", src # dst
               PROVE  /\ onPath = {v \in Person : OnShortestPath(v)}
                      /\ \A v \in onPath : IsDistance(knows, dist[1][v], src, v)
    BY DEF MarkedExactly
  <2>1. Marked /\ src \in Person /\ dst \in Person
    BY DEF IInv, CallInv, Control, Known
  <2>2. ASSUME NEW v \in Person PROVE OnWay(v) <=> OnShortestPath(v)
    <3>1. ASSUME NEW n \in Nat, NEW m \in Nat, Between(v, n, m)
          PROVE  n \in 0..(Cardinality(Person) - 1) /\ m \in 0..(Cardinality(Person) - 1)
      BY <2>1, <3>1, DistanceBound DEF Between
    <3>2. \A n \in 0..(Cardinality(Person) - 1) : n \in Nat
      OBVIOUS
    <3> QED
      BY <3>1, <3>2 DEF OnWay, OnShortestPath, Between
  <2> QED
    BY <2>1, <2>2 DEF Marked
<1> QED
  BY <1>1, Invariance, PTL

(* The shortest paths are the walks of that length, numbered from 1.        *)
LEMMA PathOfWalk ==
  ASSUME src \in Person, dst \in Person, NEW n, IsDistance(knows, n, src, dst),
         NEW w \in Walks(knows, n, src, dst)
  PROVE  [i \in 1..(n+1) |-> w[i-1]] \in ShortestPaths
<1> DEFINE p == [i \in 1..(n+1) |-> w[i-1]]
<1>1. n \in Nat /\ w \in [0..n -> Person] /\ w[0] = src /\ w[n] = dst
      /\ \A i \in 0..(n-1) : w[i+1] \in Neighbours(knows, w[i])
  BY DEF Walks, IsDistance
<1>2. \A i \in 1..(n+1) : i - 1 \in 0..n
  BY <1>1
<1>3. p \in [1..(n+1) -> Person] /\ n + 1 \in Nat
  BY <1>1, <1>2
<1>4. p \in Seq(Person) /\ Len(p) = n + 1
  <2> HIDE DEF p
  <2>1. p \in Seq(Person)
    BY <1>3, IsASeq
  <2> QED
    BY <1>3, <2>1, LenProperties
<1>5. p[1] = src /\ p[n+1] = dst
  <2>1. 1 \in 1..(n+1) /\ n + 1 \in 1..(n+1) /\ 1 - 1 = 0 /\ (n+1) - 1 = n
    BY <1>1
  <2> QED
    BY <1>1, <2>1
<1>6. \A i \in 1..n : p[i+1] \in Neighbours(knows, p[i])
  <2> SUFFICES ASSUME NEW i \in 1..n PROVE p[i+1] \in Neighbours(knows, p[i])
    OBVIOUS
  <2>1. i \in 1..(n+1) /\ i + 1 \in 1..(n+1) /\ i - 1 \in 0..(n-1)
        /\ (i + 1) - 1 = (i - 1) + 1
    BY <1>1
  <2> QED
    BY <1>1, <2>1
<1>7. Len(p) - 1 = n /\ Len(p) > 0
  BY <1>1, <1>4
<1> HIDE DEF p
<1>8. p \in ShortestPaths
  BY <1>4, <1>5, <1>6, <1>7, IsShortestPath
<1> QED
  BY <1>8 DEF p

LEMMA AsManyPathsAsWalks ==
  ASSUME src \in Person, dst \in Person, NEW n, IsDistance(knows, n, src, dst),
         IsFiniteSet(Person)
  PROVE  Cardinality(ShortestPaths) = Cardinality(Walks(knows, n, src, dst))
<1> DEFINE W == Walks(knows, n, src, dst)
           f == [w \in W |-> [i \in 1..(n+1) |-> w[i-1]]]
<1>1. n \in Nat /\ \A w \in W : w \in [0..n -> Person]
  BY DEF IsDistance, Walks
<1>2. f \in [W -> ShortestPaths]
  BY PathOfWalk
<1>3. ASSUME NEW a \in W, NEW b \in W, f[a] = f[b] PROVE a = b
  <2>1. \A i \in 0..n : a[i] = b[i]
    <3> SUFFICES ASSUME NEW i \in 0..n PROVE a[i] = b[i]
      OBVIOUS
    <3>1. i + 1 \in 1..(n+1) /\ (i + 1) - 1 = i
      BY <1>1
    <3>2. f[a][i+1] = a[i] /\ f[b][i+1] = b[i]
      BY <3>1
    <3> QED
      BY <1>3, <3>2
  <2> QED
    BY <1>1, <2>1
<1>4. ASSUME NEW p \in ShortestPaths PROVE \E w \in W : f[w] = p
  <2> DEFINE w == AsWalk(p)
             q == [i \in 1..(n+1) |-> w[i-1]]
  <2>1. p \in Seq(Person) /\ Len(p) \in Nat \ {0} /\ IsDistance(knows, Len(p) - 1, src, dst)
    BY AlongShortest
  <2>2. Len(p) - 1 = n
    BY <2>1, DistanceUnique
  <2>3. w \in W
    BY <2>2 DEF ShortestPaths, IsShortest
  <2>4. Len(p) = n + 1
    BY <1>1, <2>1, <2>2
  <2>5. \A i \in 1..(n+1) : q[i] = p[i]
    <3> SUFFICES ASSUME NEW i \in 1..(n+1) PROVE q[i] = p[i]
      OBVIOUS
    <3>1. i - 1 \in 0..(Len(p) - 1) /\ (i - 1) + 1 = i
      BY <1>1, <2>2
    <3> QED
      BY <3>1 DEF AsWalk
  <2>6. q = p
    <3> HIDE DEF w
    <3>1. p \in [1..(n+1) -> Person]
      BY <2>1, <2>4, LenProperties
    <3> QED
      BY <2>5, <3>1
  <2> HIDE DEF w
  <2> QED
    BY <2>3, <2>6
<1>5. f \in Bijection(W, ShortestPaths)
  <2> HIDE DEF f, W
  <2> QED
    BY <1>2, <1>3, <1>4 DEF Bijection, Injection, Surjection, IsInjective
<1>6. ExistsBijection(W, ShortestPaths) /\ IsFiniteSet(W)
  <2> HIDE DEF f
  <2>1. IsFiniteSet(W)
    BY <1>1, FiniteWalks
  <2> QED
    BY <1>5, <2>1 DEF ExistsBijection
<1> QED
  BY <1>6, FS_Bijection

(* The person alone is the shortest path from a person to himself.          *)
LEMMA SelfShortest == src = dst /\ src \in Person => <<src>> \in ShortestPaths
<1> SUFFICES ASSUME src = dst, src \in Person PROVE <<src>> \in ShortestPaths
  OBVIOUS
<1>1. IsDistance(knows, 0, src, dst)
  BY DistanceZero
<1> DEFINE p == <<src>>
<1>2. p \in Seq(Person) /\ Len(p) = 1 /\ p[1] = src
  OBVIOUS
<1> HIDE DEF p
<1>3. p \in ShortestPaths
  <2>1. Len(p) - 1 = 0 /\ Len(p) > 0 /\ 1..(Len(p) - 1) = {}
    BY <1>2
  <2> QED
    BY <1>1, <1>2, <2>1, IsShortestPath
<1> QED
  BY <1>3 DEF p

(* IC14 returns nothing but shortest paths, and between two different       *)
(* persons every one: the paths returned are as many as the walks of that   *)
(* length, and each is one of them.                                         *)
THEOREM AllPathsFound ==
  ASSUME Narrow, IsFiniteSet(Person)
  PROVE  Spec => []AllShortestPaths
<1>1. IInv => AllShortestPaths
  <2> SUFFICES ASSUME IInv, pc = "done"
               PROVE  /\ \A p \in DOMAIN paths : IsShortest(p)
                      /\ src # dst /\ kInvalidVid \notin {src, dst} =>
                           \A n \in 1..(Cardinality(Person) - 1) :
                             IsDistance(knows, n, src, dst) =>
                               Cardinality(DOMAIN paths) = Cardinality(Walks(knows, n, src, dst))
    BY DEF AllShortestPaths, BagToSet
  <2>1. src # dst => Outcome
    BY DEF IInv, CallInv
  <2>2. DOMAIN EmptyBag = {}
    BY DEF EmptyBag, SetToBag
  <2>3. \A p \in DOMAIN paths : IsShortest(p)
    <3>1. CASE src # dst
      BY <2>1, <2>2, <3>1 DEF Outcome, ShortestPaths
    <3>2. CASE src = dst
      BY <3>2, SelfShortest DEF IInv, SelfInv, ShortestPaths
    <3> QED
      BY <3>1, <3>2
  <2>4. ASSUME src # dst, kInvalidVid \notin {src, dst}, NEW n, IsDistance(knows, n, src, dst)
        PROVE  Cardinality(DOMAIN paths) = Cardinality(Walks(knows, n, src, dst))
    <3>1. src \in Person /\ dst \in Person
      BY <2>4, CallsAssumption DEF IInv, TypeOK
    <3>2. ~ Separated(knows, src, dst)
      BY <2>4, <3>1, SeparatedNotConnected DEF IsDistance
    <3>3. DOMAIN paths = ShortestPaths
      BY <2>1, <2>4, <3>2 DEF Outcome
    <3> QED
      BY <2>4, <3>1, <3>3, AsManyPathsAsWalks
  <2> QED
    BY <2>3, <2>4
<1> QED
  BY <1>1, Invariance, PTL

(* What the abstract query asks for, in the terms of KnowsGraph.            *)
LEMMA AnswerMeaning ==
  ASSUME NEW n
  PROVE  Query!IsAnswer(n) <=>
           IF kInvalidVid \in {src, dst} \/ Separated(knows, src, dst)
           THEN n = -1
           ELSE IsDistance(knows, n, src, dst)
BY DEF Query!IsAnswer, Query!NotFound, Query!Separated, Separated,
       Query!IsDistance, IsDistance, Query!Connected, Connected, Query!Walks, Walks,
       Query!Neighbours, Neighbours, Query!OutEdges, OutEdges, Query!InEdges, InEdges

(* Between two different persons the length of the paths returned answers   *)
(* the query of ic13.                                                       *)
LEMMA LengthAnswers ==
  ASSUME IInv, pc = "done", src # dst
  PROVE  Query!IsAnswer(Length) /\ Length \in Nat \cup {-1}
<1>1. Outcome /\ DOMAIN EmptyBag = {}
  BY DEF IInv, CallInv, EmptyBag, SetToBag
<1>2. Length = IF paths = EmptyBag THEN -1
               ELSE Len(CHOOSE p \in BagToSet(paths) : TRUE) - 1
  BY DEF Length
<1>3. CASE kInvalidVid \in {src, dst}
  <2>1. Length = -1
    BY <1>1, <1>2, <1>3 DEF Outcome
  <2> QED
    BY <1>3, <2>1, AnswerMeaning
<1>4. CASE kInvalidVid \notin {src, dst}
  <2>1. src \in Person /\ dst \in Person
    BY <1>4, CallsAssumption DEF IInv, TypeOK
  <2>2. \A n : IsDistance(knows, n, src, dst) => n \in Nat /\ ~ Separated(knows, src, dst)
    BY <2>1, SeparatedNotConnected DEF IsDistance
  <2>3. CASE Separated(knows, src, dst)
    <3>1. paths = EmptyBag
      BY <1>1, <1>4, <2>2, <2>3 DEF Outcome
    <3> QED
      BY <1>2, <2>3, <3>1, AnswerMeaning
  <2>4. CASE ~ Separated(knows, src, dst)
    <3>1. DOMAIN paths = ShortestPaths /\ \E n \in Nat : IsDistance(knows, n, src, dst)
      BY <1>1, <1>4, <2>4 DEF Outcome
    <3>2. PICK n \in Nat : IsDistance(knows, n, src, dst)
      BY <3>1
    <3>3. PICK w \in Walks(knows, n, src, dst) : TRUE
      BY <3>2 DEF IsDistance, Connected
    <3>4. ShortestPaths # {}
      BY <2>1, <3>2, <3>3, PathOfWalk
    <3>5. paths # EmptyBag
      BY <1>1, <3>1, <3>4
    <3> DEFINE q == CHOOSE p \in BagToSet(paths) : TRUE
    <3>6. q \in ShortestPaths
      BY <3>1, <3>4 DEF BagToSet
    <3> HIDE DEF q
    <3>7. IsDistance(knows, Len(q) - 1, src, dst)
      BY <3>6 DEF ShortestPaths, IsShortest
    <3>8. Length = Len(q) - 1
      BY <1>2, <3>5 DEF q
    <3> QED
      BY <1>4, <2>2, <2>4, <3>7, <3>8, AnswerMeaning
  <2> QED
    BY <2>3, <2>4
<1> QED
  BY <1>3, <1>4

(* Between two different persons IC14 implements the query IC13 implements: *)
(* the length of the paths of the one is the answer of the other, and it    *)
(* returns none exactly when the other answers -1.                          *)
THEOREM Refinement ==
  ASSUME Narrow
  PROVE  Spec => AgreesWithIC13
<1>1. Init => Query!Init
  <2> SUFFICES ASSUME Init PROVE Query!Init
    OBVIOUS
  <2>1. knows \in Graphs /\ src \in Person \cup {kInvalidVid} /\ dst \in Person \cup {kInvalidVid}
    BY InitTypeOK, CallsAssumption DEF Init, TypeOK
  <2>2. Length = -2
    BY DEF Init, Length
  <2> QED
    BY <2>1, <2>2 DEF Query!Init, Query!Pending
<1>2. IInv /\ IInv' /\ [Next]_vars => [src # dst => Query!Answer]_(Query!vars)
  <2> SUFFICES ASSUME IInv, IInv', [Next]_vars, src # dst PROVE [Query!Answer]_(Query!vars)
    OBVIOUS
  <2>1. UNCHANGED <<knows, src, dst>>
    BY DEF vars, Next, Reject, Begin, ExpandLayer, Meet, Mark, StartWalk, Follow, Leave
  <2>2. CASE UNCHANGED vars
    <3>1. Length' = Length
      BY <2>2 DEF vars, Length
    <3> QED
      BY <2>1, <3>1 DEF Query!vars
  <2>3. CASE Next
    <3>1. pc # "done"
      BY <2>3 DEF Next, Reject, Begin, ExpandLayer, Meet, Mark, StartWalk, Follow, Leave
    <3>2. Length = -2
      BY <3>1 DEF Length
    <3>3. CASE pc' # "done"
      <4>1. Length' = -2
        BY <3>3 DEF Length
      <4> QED
        BY <2>1, <3>2, <4>1 DEF Query!vars
    <3>4. CASE pc' = "done"
      <4>1. (IInv /\ pc = "done" /\ src # dst => Query!IsAnswer(Length) /\ Length \in Nat \cup {-1})'
        BY LengthAnswers, PTL
      <4>2. Query!IsAnswer(Length)' /\ Length' \in Nat \cup {-1}
        BY <2>1, <3>4, <4>1
      <4> QED
        BY <2>1, <3>2, <4>2 DEF Query!Answer, Query!IsAnswer, Query!Pending, Query!NotFound
    <3> QED
      BY <3>3, <3>4
  <2> QED
    BY <2>2, <2>3
<1> QED
  BY <1>1, <1>2, Invariance, PTL DEF Spec, AgreesWithIC13
================================================================================
