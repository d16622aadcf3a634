--------------------------- MODULE KnowsGraphProofs ---------------------------
(****************************************************************************)
(* Facts about walks in the KNOWS graph, for every set of persons.  The     *)
(* first two lemmas give induction over the natural numbers in a form       *)
(* without an operator parameter: it is derived from the library's fact     *)
(* that the strict inclusion of finite sets is well-founded.                *)
(****************************************************************************)
EXTENDS KnowsGraph, FiniteSetTheorems, TLAPS

(* A non-empty set of natural numbers has a least element.                  *)
LEMMA LeastNat ==
  ASSUME NEW T \in SUBSET Nat, T # {}
  PROVE  \E n \in T : \A m \in T : n <= m
<1> DEFINE I == {0..k : k \in T}
<1>1. I \subseteq FiniteSubsetsOf(Nat)
  <2>1. ASSUME NEW k \in T PROVE 0..k \in FiniteSubsetsOf(Nat)
    <3>1. IsFiniteSet(0..k)
      BY FS_Interval
    <3>2. QED
      BY <3>1 DEF FiniteSubsetsOf
  <2>2. QED
    BY <2>1
<1>2. I # {}
  OBVIOUS
<1>3. PICK X \in I : \A Y \in I : <<Y, X>> \notin StrictSubsetOrdering(Nat)
  <2> HIDE DEF I
  <2>1. IsWellFoundedOn(StrictSubsetOrdering(Nat), FiniteSubsetsOf(Nat))
    BY FS_StrictSubsetOrderingWellFounded
  <2>2. QED
    BY <2>1, <1>1, <1>2, WFMin
<1>4. PICK n \in T : X = 0..n
  BY <1>3
<1>5. ASSUME NEW m \in T, m < n PROVE FALSE
  <2>1. 0..m \subseteq 0..n /\ 0..m # 0..n
    BY <1>5, n \in 0..n, n \notin 0..m
  <2>2. <<0..m, 0..n>> \in StrictSubsetOrdering(Nat)
    BY <2>1 DEF StrictSubsetOrdering
  <2>3. QED
    BY <2>2, <1>3, <1>4
<1>6. QED
  BY <1>5

(* A set that contains 0 and the successor of each of its numbers contains  *)
(* every natural number.                                                    *)
LEMMA SetInduction ==
  ASSUME NEW S, 0 \in S, \A n \in Nat : n \in S => n+1 \in S
  PROVE  Nat \subseteq S
<1>1. SUFFICES ASSUME Nat \ S # {} PROVE FALSE
  OBVIOUS
<1>2. PICK n \in Nat \ S : \A m \in Nat \ S : n <= m
  BY <1>1, LeastNat
<1>3. n # 0 /\ n - 1 \in Nat
  BY <1>2
<1>4. n - 1 \in S
  BY <1>2, <1>3
<1>5. QED
  BY <1>2, <1>3, <1>4

------------------------------------------------------------------------------

(* Friends of a person are persons of the graph.                            *)
LEMMA NeighboursType ==
  ASSUME NEW E, NEW u \in Person
  PROVE  Neighbours(E, u) \subseteq Person
BY DEF Neighbours, OutEdges, InEdges

(* Friendship is mutual: the two views together hide the stored direction.  *)
LEMMA NeighboursSymmetric ==
  ASSUME NEW E, NEW u \in Person, NEW v \in Person
  PROVE  v \in Neighbours(E, u) <=> u \in Neighbours(E, v)
BY DEF Neighbours, OutEdges, InEdges

(* The only walk of length 0 stays where it starts.                         *)
LEMMA WalkZero ==
  ASSUME NEW E, NEW u \in Person, NEW v \in Person
  PROVE  Connected(E, 0, u, v) <=> u = v
<1>1. ASSUME u = v PROVE Connected(E, 0, u, v)
  <2>1. [i \in 0..0 |-> u] \in Walks(E, 0, u, v)
    BY <1>1 DEF Walks
  <2>2. QED
    BY <2>1 DEF Connected
<1>2. ASSUME Connected(E, 0, u, v) PROVE u = v
  BY <1>2 DEF Connected, Walks
<1>3. QED
  BY <1>1, <1>2

(* A friend of the last person of a walk makes it one step longer.          *)
LEMMA WalkExtend ==
  ASSUME NEW E, NEW n \in Nat, NEW u \in Person, NEW v \in Person,
         Connected(E, n, u, v), NEW z \in Neighbours(E, v)
  PROVE  Connected(E, n+1, u, z)
<1>1. PICK w \in Walks(E, n, u, v) : TRUE
  BY DEF Connected
<1>2. z \in Person
  BY NeighboursType
<1> DEFINE ww == [i \in 0..(n+1) |-> IF i = n+1 THEN z ELSE w[i]]
<1>3. ww \in [0..(n+1) -> Person]
  BY <1>1, <1>2 DEF Walks
<1>4. ww[0] = u /\ ww[n+1] = z
  BY <1>1 DEF Walks
<1>5. ASSUME NEW i \in 0..((n+1)-1) PROVE ww[i+1] \in Neighbours(E, ww[i])
  <2>1. CASE i = n
    BY <2>1, <1>1 DEF Walks
  <2>2. CASE i # n
    <3>1. i \in 0..(n-1) /\ i+1 \in 0..(n+1) /\ i+1 # n+1 /\ i # n+1
      BY <2>2
    <3>2. ww[i+1] = w[i+1] /\ ww[i] = w[i]
      BY <3>1
    <3>3. QED
      BY <3>1, <3>2, <1>1 DEF Walks
  <2>3. QED
    BY <2>1, <2>2
<1>6. ww \in Walks(E, n+1, u, z)
  BY <1>3, <1>4, <1>5 DEF Walks
<1>7. QED
  BY <1>6 DEF Connected

(* A walk read backwards is a walk.                                         *)
LEMMA WalkReverse ==
  ASSUME NEW E, NEW n \in Nat, NEW u \in Person, NEW v \in Person,
         NEW w \in Walks(E, n, u, v)
  PROVE  [i \in 0..n |-> w[n-i]] \in Walks(E, n, v, u)
<1> DEFINE r == [i \in 0..n |-> w[n-i]]
<1>1. \A i \in 0..n : n-i \in 0..n
  OBVIOUS
<1>2. r \in [0..n -> Person]
  BY <1>1 DEF Walks
<1>3. r[0] = v /\ r[n] = u
  BY DEF Walks
<1>4. ASSUME NEW i \in 0..(n-1) PROVE r[i+1] \in Neighbours(E, r[i])
  <2>1. n-(i+1) \in 0..(n-1) /\ n-i \in 0..n /\ (n-(i+1))+1 = n-i
    OBVIOUS
  <2>2. w[n-i] \in Neighbours(E, w[n-(i+1)])
    BY <2>1 DEF Walks
  <2>3. w[n-i] \in Person /\ w[n-(i+1)] \in Person
    BY <2>1 DEF Walks
  <2>4. w[n-(i+1)] \in Neighbours(E, w[n-i])
    BY <2>2, <2>3, NeighboursSymmetric
  <2>5. QED
    BY <2>1, <2>4
<1>5. QED
  BY <1>2, <1>3, <1>4 DEF Walks

(* Walks that join two walks, and walks read backwards, in terms of         *)
(* Connected.                                                               *)
LEMMA ConnectedSymmetric ==
  ASSUME NEW E, NEW n \in Nat, NEW u \in Person, NEW v \in Person,
         Connected(E, n, u, v)
  PROVE  Connected(E, n, v, u)
<1>1. PICK w \in Walks(E, n, u, v) : TRUE
  BY DEF Connected
<1>2. QED
  BY <1>1, WalkReverse DEF Connected

(* Chains of friends that meet in a person make one chain.                  *)
LEMMA ConnectedTransitive ==
  ASSUME NEW E, NEW m \in Nat, NEW n \in Nat,
         NEW u \in Person, NEW v \in Person, NEW z \in Person,
         Connected(E, m, u, v), Connected(E, n, v, z)
  PROVE  Connected(E, m+n, u, z)
<1>1. PICK w \in Walks(E, n, v, z) : TRUE
  BY DEF Connected
<1> DEFINE S == {i \in Nat : i <= n => Connected(E, m+i, u, w[i])}
<1>2. 0 \in S
  BY <1>1 DEF Walks
<1>3. ASSUME NEW i \in Nat, i \in S PROVE i+1 \in S
  <2>1. SUFFICES ASSUME i+1 <= n PROVE Connected(E, m+(i+1), u, w[i+1])
    OBVIOUS
  <2>2. i \in 0..(n-1) /\ w[i] \in Person /\ w[i+1] \in Neighbours(E, w[i])
    BY <2>1, <1>1 DEF Walks
  <2>3. Connected(E, m+i, u, w[i])
    BY <1>3, <2>1
  <2>4. Connected(E, (m+i)+1, u, w[i+1])
    BY <2>2, <2>3, WalkExtend, m+i \in Nat
  <2>5. QED
    BY <2>4, (m+i)+1 = m+(i+1)
<1> HIDE DEF S
<1>4. Nat \subseteq S
  BY <1>2, <1>3, SetInduction
<1>5. QED
  BY <1>4, <1>1, n \in S DEF S, Walks

(* A cut refutes every walk, of any length.                                 *)
LEMMA SeparatedNotConnected ==
  ASSUME NEW E, NEW n \in Nat, NEW u \in Person, NEW v \in Person,
         Separated(E, u, v)
  PROVE  ~ Connected(E, n, u, v)
<1>1. SUFFICES ASSUME NEW w \in Walks(E, n, u, v) PROVE FALSE
  BY DEF Connected
<1>2. PICK C \in SUBSET Person : /\ u \in C /\ v \notin C
                                 /\ \A z \in C : Neighbours(E, z) \subseteq C
  BY DEF Separated
<1> DEFINE S == {i \in Nat : i <= n => w[i] \in C}
<1>3. 0 \in S
  BY <1>2 DEF Walks
<1>4. ASSUME NEW i \in Nat, i \in S PROVE i+1 \in S
  BY <1>4, <1>2 DEF Walks
<1> HIDE DEF S
<1>5. Nat \subseteq S
  BY <1>3, <1>4, SetInduction
<1>6. QED
  BY <1>5, <1>2, n \in S DEF S, Walks
------------------------------------------------------------------------------
(****************************************************************************)
(* Distances.                                                               *)
(****************************************************************************)

(* Two persons have one distance.                                           *)
LEMMA DistanceUnique ==
  ASSUME NEW E, NEW u \in Person, NEW v \in Person,
         NEW m, NEW n, IsDistance(E, m, u, v), IsDistance(E, n, u, v)
  PROVE  m = n
<1>1. m \in Nat /\ n \in Nat
  BY DEF IsDistance
<1>2. ~ (m < n) /\ ~ (n < m)
  BY <1>1 DEF IsDistance
<1> QED
  BY <1>1, <1>2

(* A distance is never greater than the length of a walk, and any walk has  *)
(* one.                                                                     *)
LEMMA DistanceExists ==
  ASSUME NEW E, NEW u \in Person, NEW v \in Person,
         NEW n \in Nat, Connected(E, n, u, v)
  PROVE  \E m \in 0..n : IsDistance(E, m, u, v)
<1> DEFINE T == {m \in Nat : Connected(E, m, u, v)}
<1>1. n \in T /\ T \in SUBSET Nat
  OBVIOUS
<1>2. PICK m \in T : \A k \in T : m <= k
  BY <1>1, LeastNat
<1>3. m \in 0..n /\ Connected(E, m, u, v) /\ \A k \in 0..(m-1) : ~ Connected(E, k, u, v)
  BY <1>1, <1>2
<1> QED
  BY <1>3 DEF IsDistance

LEMMA DistanceSymmetric ==
  ASSUME NEW E, NEW u \in Person, NEW v \in Person, NEW n, IsDistance(E, n, u, v)
  PROVE  IsDistance(E, n, v, u)
<1>1. \A m \in Nat : Connected(E, m, u, v) <=> Connected(E, m, v, u)
  BY ConnectedSymmetric
<1>2. n \in Nat /\ \A m \in 0..(n-1) : m \in Nat
  BY DEF IsDistance
<1> QED
  BY <1>1, <1>2 DEF IsDistance

LEMMA DistanceZero ==
  ASSUME NEW E, NEW u \in Person, NEW v \in Person
  PROVE  IsDistance(E, 0, u, v) <=> u = v
BY WalkZero DEF IsDistance

(* A walk can be cut at any of its persons.                                 *)
LEMMA WalkCut ==
  ASSUME NEW E, NEW n \in Nat, NEW u \in Person, NEW v \in Person,
         NEW w \in Walks(E, n, u, v), NEW k \in 0..n
  PROVE  /\ w[k] \in Person
         /\ Connected(E, k, u, w[k])
         /\ Connected(E, n-k, w[k], v)
<1>1. w[k] \in Person /\ w \in [0..n -> Person] /\ w[0] = u /\ w[n] = v
      /\ \A i \in 0..(n-1) : w[i+1] \in Neighbours(E, w[i])
  BY DEF Walks
<1>2. Connected(E, k, u, w[k])
  <2> DEFINE a == [i \in 0..k |-> w[i]]
  <2>1. a \in [0..k -> Person] /\ a[0] = u /\ a[k] = w[k]
    BY <1>1
  <2>2. \A i \in 0..(k-1) : a[i+1] \in Neighbours(E, a[i])
    BY <1>1
  <2>3. a \in Walks(E, k, u, w[k])
    BY <2>1, <2>2 DEF Walks
  <2> QED
    BY <2>3 DEF Connected
<1>3. Connected(E, n-k, w[k], v)
  <2> DEFINE b == [i \in 0..(n-k) |-> w[k+i]]
  <2>1. b \in [0..(n-k) -> Person] /\ b[0] = w[k] /\ b[n-k] = v
    BY <1>1
  <2>2. ASSUME NEW i \in 0..((n-k)-1) PROVE b[i+1] \in Neighbours(E, b[i])
    <3>1. k+i \in 0..(n-1) /\ k+(i+1) = (k+i)+1 /\ i \in 0..(n-k) /\ i+1 \in 0..(n-k)
      OBVIOUS
    <3> QED
      BY <1>1, <3>1
  <2>3. b \in Walks(E, n-k, w[k], v)
    BY <2>1, <2>2 DEF Walks
  <2> QED
    BY <2>3 DEF Connected
<1> QED
  BY <1>1, <1>2, <1>3

(* Somebody stands at every length on the way from u to v.                  *)
LEMMA SomebodyBetween ==
  ASSUME NEW E, NEW n \in Nat, NEW u \in Person, NEW v \in Person,
         Connected(E, n, u, v), NEW k \in 0..n
  PROVE  \E z \in Person : Connected(E, k, u, z) /\ Connected(E, n-k, z, v)
<1>1. PICK w \in Walks(E, n, u, v) : TRUE
  BY DEF Connected
<1> QED
  BY <1>1, WalkCut

(* Both parts of a shortest walk are shortest walks.                        *)
LEMMA DistanceSplit ==
  ASSUME NEW E, NEW n \in Nat, NEW m \in Nat,
         NEW u \in Person, NEW z \in Person, NEW v \in Person,
         Connected(E, n, u, z), Connected(E, m, z, v), IsDistance(E, n+m, u, v)
  PROVE  IsDistance(E, n, u, z) /\ IsDistance(E, m, z, v)
<1>1. ASSUME NEW k \in 0..(n-1), Connected(E, k, u, z) PROVE FALSE
  <2>1. Connected(E, k+m, u, v)
    BY <1>1, ConnectedTransitive
  <2>2. k+m \in 0..((n+m)-1)
    OBVIOUS
  <2> QED
    BY <2>1, <2>2 DEF IsDistance
<1>2. ASSUME NEW k \in 0..(m-1), Connected(E, k, z, v) PROVE FALSE
  <2>1. Connected(E, n+k, u, v)
    BY <1>2, ConnectedTransitive
  <2>2. n+k \in 0..((n+m)-1)
    OBVIOUS
  <2> QED
    BY <2>1, <2>2 DEF IsDistance
<1> QED
  BY <1>1, <1>2 DEF IsDistance

(* A walk of one step goes to a friend.                                     *)
LEMMA OneStep ==
  ASSUME NEW E, NEW u \in Person, NEW v \in Person
  PROVE  Connected(E, 1, u, v) <=> v \in Neighbours(E, u)
<1>1. ASSUME v \in Neighbours(E, u) PROVE Connected(E, 1, u, v)
  <2>1. Connected(E, 0, u, u)
    BY WalkZero
  <2>2. Connected(E, 0+1, u, v)
    BY <1>1, <2>1, WalkExtend
  <2> QED
    BY <2>2
<1>2. ASSUME Connected(E, 1, u, v) PROVE v \in Neighbours(E, u)
  <2>1. PICK w \in Walks(E, 1, u, v) : TRUE
    BY <1>2 DEF Connected
  <2>2. w[0] = u /\ w[1] = v /\ w[0+1] \in Neighbours(E, w[0])
    BY <2>1, 0 \in 0..(1-1) DEF Walks
  <2> QED
    BY <2>2
<1> QED
  BY <1>1, <1>2

(* A person at a distance has a friend one step nearer.                     *)
LEMMA FriendBefore ==
  ASSUME NEW E, NEW n \in Nat, NEW u \in Person, NEW v \in Person,
         IsDistance(E, n+1, u, v)
  PROVE  \E z \in Person : IsDistance(E, n, u, z) /\ v \in Neighbours(E, z)
<1>1. Connected(E, n+1, u, v) /\ n \in 0..(n+1) /\ (n+1)-n = 1
  BY DEF IsDistance
<1>2. PICK z \in Person : Connected(E, n, u, z) /\ Connected(E, 1, z, v)
  BY <1>1, SomebodyBetween
<1>3. IsDistance(E, n, u, z)
  BY <1>2, DistanceSplit
<1> QED
  BY <1>2, <1>3, OneStep

(* A friend of a person at a distance is one step further at the most.      *)
LEMMA FriendOf ==
  ASSUME NEW E, NEW n, NEW u \in Person, NEW z \in Person,
         IsDistance(E, n, u, z), NEW v \in Neighbours(E, z)
  PROVE  v \in Person /\ \E m \in 0..(n+1) : IsDistance(E, m, u, v)
<1>1. n \in Nat /\ Connected(E, n, u, z) /\ v \in Person
  BY NeighboursType DEF IsDistance
<1>2. Connected(E, n+1, u, v)
  BY <1>1, WalkExtend
<1> QED
  BY <1>1, <1>2, DistanceExists

(* A shortest walk passes nobody twice, so that a distance is less than the *)
(* number of persons.                                                       *)
LEMMA DistanceBound ==
  ASSUME NEW E, NEW u \in Person, NEW v \in Person, NEW n,
         IsDistance(E, n, u, v), IsFiniteSet(Person)
  PROVE  n \in 0..(Cardinality(Person) - 1)
<1>1. n \in Nat
  BY DEF IsDistance
<1>2. PICK w \in Walks(E, n, u, v) : TRUE
  BY DEF IsDistance, Connected
<1>3. w \in [0..n -> Person]
  BY <1>2 DEF Walks
<1>4. ASSUME NEW i \in 0..n, NEW j \in 0..n, i < j, w[i] = w[j] PROVE FALSE
  <2>1. Connected(E, i, u, w[i]) /\ Connected(E, n-j, w[j], v) /\ w[i] \in Person
    BY <1>1, <1>2, WalkCut
  <2>2. i \in Nat /\ n-j \in Nat /\ i+(n-j) \in 0..(n-1)
    BY <1>1, <1>4
  <2>3. Connected(E, i+(n-j), u, v)
    BY <1>4, <2>1, <2>2, ConnectedTransitive
  <2> QED
    BY <2>2, <2>3 DEF IsDistance
<1>5. \A i, j \in 0..n : w[i] = w[j] => i = j
  <2> SUFFICES ASSUME NEW i \in 0..n, NEW j \in 0..n, w[i] = w[j], i # j PROVE FALSE
    OBVIOUS
  <2> QED
    BY <1>1, <1>4
<1>6. w \in Injection(0..n, Person)
  BY <1>3, <1>5 DEF Injection, IsInjective
<1>7. Cardinality(0..n) <= Cardinality(Person) /\ Cardinality(0..n) = n + 1
  <2>1. Cardinality(0..n) = n - 0 + 1
    BY <1>1, FS_Interval
  <2> QED
    BY <1>1, <1>6, <2>1, FS_Injection
<1>8. Cardinality(Person) \in Nat
  BY FS_CardinalityType
<1> QED
  BY <1>1, <1>7, <1>8

(* There are finitely many walks of a length.                               *)
LEMMA FiniteWalks ==
  ASSUME IsFiniteSet(Person), NEW E, NEW n \in Nat, NEW u, NEW v
  PROVE  IsFiniteSet(Walks(E, n, u, v))
<1> DEFINE F(i) == [0..i -> Person]
           S == {i \in Nat : IsFiniteSet(F(i))}
<1>1. 0 \in S
  <2> DEFINE f == [w \in F(0) |-> w[0]]
  <2>1. 0 \in 0..0 /\ \A i \in 0..0 : i = 0
    OBVIOUS
  <2>2. f \in [F(0) -> Person] /\ \A a, b \in F(0) : f[a] = f[b] => a = b
    BY <2>1
  <2>3. f \in Injection(F(0), Person)
    BY <2>2 DEF Injection, IsInjective
  <2>4. IsFiniteSet(F(0))
    BY <2>3, FS_Injection
  <2> QED
    BY <2>4
<1>2. ASSUME NEW i \in Nat, i \in S PROVE i+1 \in S
  <2> DEFINE G == F(i) \X Person
             cut(w) == [j \in 0..i |-> w[j]]
             f == [w \in F(i+1) |-> <<cut(w), w[i+1]>>]
  <2>1. IsFiniteSet(G)
    BY <1>2, FS_Product
  <2>2. i+1 \in 0..(i+1) /\ \A j \in 0..i : j \in 0..(i+1)
    OBVIOUS
  <2>3. \A w \in F(i+1) : cut(w) \in F(i) /\ w[i+1] \in Person
    BY <2>2
  <2>4. f \in [F(i+1) -> G]
    BY <2>3
  <2>5. ASSUME NEW a \in F(i+1), NEW b \in F(i+1), f[a] = f[b] PROVE a = b
    <3>1. cut(a) = cut(b) /\ a[i+1] = b[i+1]
      BY <2>5
    <3>2. \A j \in 0..i : a[j] = b[j]
      <4> SUFFICES ASSUME NEW j \in 0..i PROVE a[j] = b[j]
        OBVIOUS
      <4>1. cut(a)[j] = a[j] /\ cut(b)[j] = b[j]
        OBVIOUS
      <4> QED
        BY <3>1, <4>1
    <3>3. \A j \in 0..(i+1) : j \in 0..i \/ j = i+1
      OBVIOUS
    <3> QED
      BY <3>1, <3>2, <3>3
  <2>6. f \in Injection(F(i+1), G)
    <3> HIDE DEF f, G
    <3> QED
      BY <2>4, <2>5 DEF Injection, IsInjective
  <2>7. IsFiniteSet(F(i+1))
    <3> HIDE DEF f, G
    <3> QED
      BY <2>1, <2>6, FS_Injection
  <2> QED
    BY <2>7
<1>3. n \in S
  <2> HIDE DEF S
  <2> QED
    BY <1>1, <1>2, SetInduction
<1> QED
  BY <1>3, FS_Subset DEF Walks
================================================================================
