---------------------------- MODULE ScanCallsProofs ----------------------------
(****************************************************************************)
(* Proofs about the calls of ScanCalls, for any persons, messages, jobs and *)
(* limits: first the walk over the friends, which KnowsTraversal specifies  *)
(* and several other queries share, then the types of a call, that it       *)
(* implements the heap of TopN over the rows asked for, and what it returns.*)
(****************************************************************************)
EXTENDS ScanCalls, KnowsGraphProofs, FiniteSetTheorems

------------------------------------------------------------------------------
(****************************************************************************)
(* The walk over the friends.  It calls for the persons a helper names, and *)
(* once for each, for every set of persons, finite or not, every graph and  *)
(* every order of its edges.                                                *)
(****************************************************************************)

(****************************************************************************)
(* Distances of one and two.                                                *)
(****************************************************************************)
LEMMA WalkOne ==
  ASSUME NEW E, NEW u \in Person, NEW v \in Person
  PROVE  Connected(E, 1, u, v) <=> v \in Neighbours(E, u)
<1>1. ASSUME NEW w \in Walks(E, 1, u, v) PROVE v \in Neighbours(E, u)
  <2>1. 0 \in 0..(1-1) /\ w[0] = u /\ w[0+1] = v
    BY DEF Walks
  <2> QED
    BY <2>1 DEF Walks
<1>2. ASSUME v \in Neighbours(E, u) PROVE Connected(E, 1, u, v)
  <2>1. Connected(E, 0+1, u, v)
    BY <1>2, WalkZero, WalkExtend
  <2> QED
    BY <2>1
<1> QED
  BY <1>1, <1>2 DEF Connected

LEMMA WalkTwo ==
  ASSUME NEW E, NEW u \in Person, NEW v \in Person
  PROVE  Connected(E, 2, u, v) <=> \E x \in Neighbours(E, u) : v \in Neighbours(E, x)
<1>1. ASSUME NEW w \in Walks(E, 2, u, v)
      PROVE  \E x \in Neighbours(E, u) : v \in Neighbours(E, x)
  <2>1. 0..(2-1) = {0, 1} /\ w[0] = u /\ w[2] = v
    BY DEF Walks
  <2>2. w[0+1] \in Neighbours(E, w[0]) /\ w[1+1] \in Neighbours(E, w[1])
    BY <2>1 DEF Walks
  <2> QED
    BY <2>1, <2>2
<1>2. ASSUME NEW x \in Neighbours(E, u), v \in Neighbours(E, x) PROVE Connected(E, 2, u, v)
  <2>1. x \in Person /\ Connected(E, 1, u, x)
    BY NeighboursType, WalkOne
  <2>2. Connected(E, 1+1, u, v)
    BY <1>2, <2>1, WalkExtend
  <2> QED
    BY <2>2
<1> QED
  BY <1>1, <1>2 DEF Connected

(* Whom a person reaches in one and in two steps.                           *)
Friends == Neighbours(knows, root)

FriendsOfFriends == UNION {Neighbours(knows, u) : u \in Friends}

LEMMA NearPersons ==
  ASSUME TypeOK
  PROVE  /\ Friends \subseteq Person /\ FriendsOfFriends \subseteq Person
         /\ \A v \in Person : IsDistance(knows, 1, root, v) <=> v \in Friends \ {root}
         /\ \A v \in Person : IsDistance(knows, 2, root, v) <=>
                               v \in FriendsOfFriends \ (Friends \cup {root})
<1>1. root \in Person /\ Friends \subseteq Person
  BY NeighboursType DEF TypeOK, Friends
<1>2. FriendsOfFriends \subseteq Person
  BY <1>1, NeighboursType DEF FriendsOfFriends
<1>3. 0..(1-1) = {0} /\ 0..(2-1) = {0, 1}
  OBVIOUS
<1>4. ASSUME NEW v \in Person
      PROVE  IsDistance(knows, 1, root, v) <=> v \in Friends \ {root}
  BY <1>1, <1>3, WalkZero, WalkOne DEF IsDistance, Friends
<1>5. ASSUME NEW v \in Person
      PROVE  IsDistance(knows, 2, root, v) <=> v \in FriendsOfFriends \ (Friends \cup {root})
  BY <1>1, <1>3, WalkZero, WalkOne, WalkTwo DEF IsDistance, Friends, FriendsOfFriends
<1> QED
  BY <1>1, <1>2, <1>4, <1>5

(* The persons each helper has to call for.                                 *)
LEMMA WantedSet ==
  ASSUME TypeOK
  PROVE  Wanted = CASE helper = "neighbor" -> Friends \ {root}
                    [] helper = "2d" -> FriendsOfFriends \ (Friends \cup {root})
                    [] OTHER -> (Friends \cup FriendsOfFriends) \ {root}
<1>1. CASE helper = "neighbor"
  BY <1>1, NearPersons DEF Wanted, Within
<1>2. CASE helper = "2d"
  BY <1>2, NearPersons DEF Wanted, Within
<1>3. CASE helper \notin {"neighbor", "2d"}
  BY <1>3, NearPersons DEF Wanted, Within
<1> QED
  BY <1>1, <1>2, <1>3

------------------------------------------------------------------------------
(****************************************************************************)
(* The inductive invariant.  While the root's edges are looked at, what was *)
(* collected are the ends of the edges taken; in the second hop every       *)
(* friend of a friend has been seen, is among the edges in hand, or belongs *)
(* to a friend still to be expanded; and a callback was called, once, for   *)
(* exactly those who were seen without being known from the start.          *)
(****************************************************************************)
Targets(S) == {e[2] : e \in S}

Visited == EdgesOf(root) \ todo

Base == IF helper = "1d_2d" THEN {root} ELSE {root} \cup Friends

FirstInv ==
  /\ todo \subseteq EdgesOf(root)
  /\ helper = "neighbor" =>
       /\ \A v \in Person : calls[v] > 0 <=> v \in Targets(Visited)
       /\ Simple(knows) => \A v \in Person : calls[v] <= 1
  /\ helper # "neighbor" =>
       /\ hop1 \subseteq EdgesOf(root)
       /\ Targets(hop1) \cup {root} = Targets(Visited) \cup {root}
       /\ seen = IF helper = "1d_2d" THEN {root} ELSE {root} \cup Targets(Visited)
       /\ calls = [v \in Person |-> 0]

SecondInv ==
  /\ helper # "neighbor"
  /\ Targets(hop1) \subseteq Friends
  /\ Targets(todo) \subseteq FriendsOfFriends
  /\ Base \subseteq seen
  /\ seen \subseteq {root} \cup Friends \cup FriendsOfFriends
  /\ \A u \in Friends \ {root} : u \in Targets(hop1) \/ u \in seen
  /\ \A u \in Friends \ {root} : \A v \in Neighbours(knows, u) :
        u \in Targets(hop1) \/ v \in seen \/ v \in Targets(todo)
  /\ calls = [v \in Person |-> IF helper # "mark" /\ v \in seen \ Base THEN 1 ELSE 0]

DoneInv ==
  /\ helper = "neighbor" =>
       /\ \A v \in Person : calls[v] > 0 <=> v \in Friends
       /\ Simple(knows) => \A v \in Person : calls[v] <= 1
  /\ helper # "neighbor" =>
       calls = [v \in Person |-> IF helper # "mark" /\ v \in (Friends \cup FriendsOfFriends) \ Base
                                 THEN 1 ELSE 0]
  /\ helper = "mark" => seen = (Friends \cup FriendsOfFriends) \ {root}

WalkInv ==
  /\ TypeOK
  /\ pc = "first" => FirstInv
  /\ pc = "second" => SecondInv
  /\ pc = "done" => DoneInv

------------------------------------------------------------------------------
LEMMA EdgesFacts ==
  ASSUME NEW x \in Person
  PROVE  /\ EdgesOf(x) \subseteq Entry
         /\ Targets(EdgesOf(x)) = Neighbours(knows, x)
<1>1. EdgesOf(x) \subseteq Entry
  BY DEF EdgesOf, Entry, InEdges, OutEdges
<1>2. ASSUME NEW y \in Neighbours(knows, x) PROVE y \in Targets(EdgesOf(x))
  <2>1. CASE y \in InEdges(knows, x)
    <3>1. <<"in", y>> \in EdgesOf(x) /\ <<"in", y>>[2] = y
      BY <2>1 DEF EdgesOf
    <3> QED
      BY <3>1 DEF Targets
  <2>2. CASE y \in OutEdges(knows, x)
    <3>1. <<"out", y>> \in EdgesOf(x) /\ <<"out", y>>[2] = y
      BY <2>2 DEF EdgesOf
    <3> QED
      BY <3>1 DEF Targets
  <2> QED
    BY <1>2, <2>1, <2>2 DEF Neighbours
<1>3. ASSUME NEW e \in EdgesOf(x) PROVE e[2] \in Neighbours(knows, x)
  BY DEF EdgesOf, Neighbours
<1> QED
  BY <1>1, <1>2, <1>3 DEF Targets

(* Where a friendship is stored once, no two edges of the root end at the   *)
(* same person, and none at the root itself.                                *)
LEMMA SimpleEdges ==
  ASSUME TypeOK, Simple(knows)
  PROVE  /\ \A e, f \in EdgesOf(root) : e[2] = f[2] => e = f
         /\ root \notin Friends
<1>1. \A y : ~ (<<root, y>> \in knows /\ <<y, root>> \in knows)
  <2> SUFFICES ASSUME NEW y, <<root, y>> \in knows, <<y, root>> \in knows PROVE FALSE
    OBVIOUS
  <2>1. <<root, y>>[1] = root /\ <<root, y>>[2] = y
    OBVIOUS
  <2> QED
    BY <2>1 DEF Simple
<1>2. ASSUME NEW e \in EdgesOf(root), NEW f \in EdgesOf(root), e[2] = f[2] PROVE e = f
  BY <1>1, <1>2 DEF EdgesOf, InEdges, OutEdges
<1>3. root \notin Friends
  BY <1>1 DEF Friends, Neighbours, InEdges, OutEdges
<1> QED
  BY <1>2, <1>3

(* Taking an edge moves its end from the edges in hand to those visited.    *)
LEMMA TakeFacts ==
  ASSUME TypeOK, NEW e \in Entry, Take(e), root' = root, knows' = knows
  PROVE  /\ e[2] \in Person /\ todo' \subseteq todo /\ todo' \subseteq Entry
         /\ \A v : v \in Targets(todo) => v = e[2] \/ v \in Targets(todo')
         /\ Targets(todo') \subseteq Targets(todo)
         /\ e[2] \in Targets(todo)
         /\ todo \subseteq EdgesOf(root) =>
              /\ Visited' = Visited \cup {e}
              /\ Targets(Visited') = Targets(Visited) \cup {e[2]}
<1>1. e[2] \in Person
  BY DEF Entry
<1>2. todo' = todo \ {e} /\ e \in todo
  BY DEF Take
<1>3. ASSUME todo \subseteq EdgesOf(root) PROVE Visited' = Visited \cup {e}
  BY <1>2, <1>3 DEF Visited, EdgesOf
<1> QED
  BY <1>1, <1>2, <1>3 DEF Targets, TypeOK

LEMMA TypeStep ==
  ASSUME TypeOK, [Next]_vars
  PROVE  TypeOK'
<1>1. ASSUME NEW e \in Entry, CallFriend(e) PROVE TypeOK'
  <2>1. EdgesOf(root)' = EdgesOf(root)
    BY <1>1 DEF CallFriend, EdgesOf
  <2> QED
    BY <1>1, <2>1, TakeFacts DEF CallFriend, TypeOK, Call
<1>2. ASSUME NEW e \in Entry, FirstHop(e) PROVE TypeOK'
  <2>1. EdgesOf(root)' = EdgesOf(root)
    BY <1>2 DEF FirstHop, EdgesOf
  <2>2. e \in EdgesOf(root) /\ e[2] \in Person
    BY <1>2 DEF FirstHop, Take, TypeOK, Entry
  <2> QED
    BY <1>2, <2>1, <2>2, TakeFacts DEF FirstHop, TypeOK
<1>3. ASSUME NEW e \in Entry, Expand(e) PROVE TypeOK'
  <2>1. e[2] \in Person
    BY DEF Entry
  <2>2. calls' \in [Person -> Nat]
    BY <1>3 DEF Expand, Call, TypeOK
  <2>3. seen' \subseteq Person
    BY <1>3, <2>1 DEF Expand, TypeOK
  <2>4. EdgesOf(root)' = EdgesOf(root)
    BY <1>3 DEF Expand, EdgesOf
  <2> QED
    BY <1>3, <2>1, <2>2, <2>3, <2>4, EdgesFacts DEF Expand, TypeOK
<1>4. ASSUME NEW e \in Entry, SecondHop(e) PROVE TypeOK'
  <2>1. e[2] \in Person /\ todo' \subseteq Entry
    BY <1>4, TakeFacts DEF SecondHop
  <2>2. calls' \in [Person -> Nat]
    BY <1>4 DEF SecondHop, Call, TypeOK
  <2>3. EdgesOf(root)' = EdgesOf(root)
    BY <1>4 DEF SecondHop, EdgesOf
  <2> QED
    BY <1>4, <2>1, <2>2, <2>3 DEF SecondHop, TypeOK
<1>5. ASSUME EndOfFirstHop PROVE TypeOK'
  BY <1>5 DEF EndOfFirstHop, TypeOK, EdgesOf
<1>6. ASSUME EndOfSecondHop PROVE TypeOK'
  BY <1>6 DEF EndOfSecondHop, TypeOK, EdgesOf
<1>7. ASSUME UNCHANGED vars PROVE TypeOK'
  BY <1>7 DEF vars, TypeOK, EdgesOf
<1> QED
  BY <1>1, <1>2, <1>3, <1>4, <1>5, <1>6, <1>7 DEF Next

LEMMA InitInv == Init => WalkInv
<1> SUFFICES ASSUME Init PROVE WalkInv
  OBVIOUS
<1>1. /\ EdgesOf(root) \subseteq Entry
      /\ Targets(EdgesOf(root)) = Neighbours(knows, root)
  BY EdgesFacts DEF Init
<1>2. TypeOK
  BY <1>1, GraphsAssumption DEF Init, TypeOK, Graph
<1>3. Visited = {} /\ Targets(Visited) = {} /\ Targets(hop1) = {}
  BY DEF Init, Visited, Targets
<1>4. FirstInv
  BY <1>2, <1>3 DEF Init, FirstInv
<1> QED
  BY <1>2, <1>4 DEF WalkInv, Init

LEMMA CallFriendStep ==
  ASSUME WalkInv, NEW e \in Entry, CallFriend(e)
  PROVE  FirstInv'
<1>1. TypeOK /\ FirstInv /\ helper = "neighbor"
  BY DEF WalkInv, CallFriend
<1>2. /\ e \in todo /\ todo' = todo \ {e} /\ e \in EdgesOf(root) /\ e \notin Visited
      /\ Targets(Visited') = Targets(Visited) \cup {e[2]}
      /\ EdgesOf(root)' = EdgesOf(root)
  BY <1>1, TakeFacts DEF CallFriend, FirstInv, Take, EdgesOf, Visited
<1>3. calls' = [calls EXCEPT ![e[2]] = @ + 1] /\ e[2] \in Person
  BY DEF CallFriend, Call, Entry
<1>4. ASSUME NEW v \in Person PROVE calls'[v] > 0 <=> v \in Targets(Visited')
  BY <1>1, <1>2, <1>3 DEF FirstInv, TypeOK
<1>5. ASSUME Simple(knows), NEW v \in Person PROVE calls'[v] <= 1
  <2>1. e[2] \notin Targets(Visited)
    BY <1>1, <1>2, <1>5, SimpleEdges DEF Targets, Visited
  <2>2. calls[e[2]] = 0
    BY <1>1, <1>3, <2>1 DEF FirstInv, TypeOK
  <2> QED
    BY <1>1, <1>3, <1>5, <2>2 DEF FirstInv, TypeOK
<1>6. todo' \subseteq EdgesOf(root)' /\ helper' = helper /\ knows' = knows
  BY <1>1, <1>2 DEF FirstInv, CallFriend
<1> QED
  BY <1>1, <1>4, <1>5, <1>6 DEF FirstInv

LEMMA FirstHopStep ==
  ASSUME WalkInv, NEW e \in Entry, FirstHop(e)
  PROVE  FirstInv'
<1>1. TypeOK /\ FirstInv /\ helper # "neighbor"
  BY DEF WalkInv, FirstHop
<1>2. /\ e \in todo /\ todo' = todo \ {e} /\ e \in EdgesOf(root) /\ e[2] \in Person
      /\ Targets(Visited') = Targets(Visited) \cup {e[2]}
      /\ EdgesOf(root)' = EdgesOf(root)
  BY <1>1, TakeFacts DEF FirstHop, FirstInv, Take, EdgesOf
<1>3. hop1' \subseteq EdgesOf(root)'
  BY <1>1, <1>2 DEF FirstHop, FirstInv
<1>4. Targets(hop1 \cup {e}) = Targets(hop1) \cup {e[2]}
  BY DEF Targets
<1>5. Targets(hop1') \cup {root'} = Targets(Visited') \cup {root'}
  <2>1. CASE helper = "2d" /\ e[1] = "out" /\ e[2] \in seen
    BY <1>1, <1>2, <2>1 DEF FirstHop, FirstInv
  <2>2. CASE ~ (helper = "2d" /\ e[1] = "out" /\ e[2] \in seen)
    BY <1>1, <1>2, <1>4, <2>2 DEF FirstHop, FirstInv
  <2> QED
    BY <2>1, <2>2
<1>6. seen' = IF helper' = "1d_2d" THEN {root'} ELSE {root'} \cup Targets(Visited')
  BY <1>1, <1>2 DEF FirstHop, FirstInv
<1> QED
  BY <1>1, <1>2, <1>3, <1>5, <1>6 DEF FirstInv, FirstHop

LEMMA EndOfFirstHopStep ==
  ASSUME WalkInv, EndOfFirstHop
  PROVE  WalkInv'
<1>1. TypeOK /\ FirstInv /\ Visited = EdgesOf(root) /\ root \in Person
  BY DEF WalkInv, EndOfFirstHop, Visited, TypeOK
<1>2. Targets(Visited) = Friends
  BY <1>1, EdgesFacts DEF Friends
<1>3. TypeOK'
  BY <1>1, TypeStep DEF Next
<1>4. Friends' = Friends /\ FriendsOfFriends' = FriendsOfFriends /\ Base' = Base
      /\ \A u : Neighbours(knows', u) = Neighbours(knows, u)
  BY DEF EndOfFirstHop, Friends, FriendsOfFriends, Base
<1>5. CASE helper = "neighbor"
  BY <1>1, <1>2, <1>3, <1>4, <1>5 DEF WalkInv, FirstInv, DoneInv, EndOfFirstHop
<1>6. CASE helper # "neighbor"
  <2>1. Targets(hop1) \cup {root} = Friends \cup {root}
    BY <1>1, <1>2, <1>6 DEF FirstInv
  <2>2. Targets(hop1) \subseteq Friends
    BY <1>1, <1>2, <1>6, EdgesFacts DEF FirstInv, Targets, Friends
  <2>3. seen = Base /\ Base \subseteq {root} \cup Friends
    BY <1>1, <1>2, <1>6 DEF FirstInv, Base
  <2>4. Targets(todo) = {} /\ calls = [v \in Person |-> 0]
    BY <1>1, <1>6 DEF EndOfFirstHop, Targets, FirstInv
  <2>5. SecondInv
    BY <1>6, <2>1, <2>2, <2>3, <2>4 DEF SecondInv
  <2>6. SecondInv' /\ pc' = "second"
    BY <1>6, <2>5 DEF EndOfFirstHop, SecondInv, Base, Friends, FriendsOfFriends, Targets
  <2> QED
    BY <1>3, <2>6 DEF WalkInv
<1> QED
  BY <1>5, <1>6

(* Who is seen next, and not yet, is called for the first time.             *)
LEMMA CallOnce ==
  ASSUME TypeOK, Base \subseteq seen, Base' = Base, helper' = helper,
         calls = [v \in Person |-> IF helper # "mark" /\ v \in seen \ Base THEN 1 ELSE 0],
         NEW u \in Person, seen' = seen \cup {u},
         IF helper # "mark" /\ u \notin seen THEN Call(u) ELSE UNCHANGED calls
  PROVE  calls' = [v \in Person |-> IF helper' # "mark" /\ v \in seen' \ Base' THEN 1 ELSE 0]
<1>1. CASE helper # "mark" /\ u \notin seen
  <2>1. calls' = [calls EXCEPT ![u] = calls[u] + 1] /\ calls[u] = 0
    BY <1>1 DEF Call
  <2>2. calls' = [v \in Person |-> IF v = u THEN 1 ELSE calls[v]]
    BY <2>1, calls \in [Person -> Nat] DEF TypeOK
  <2> QED
    BY <1>1, <2>2
<1>2. CASE ~ (helper # "mark" /\ u \notin seen)
  BY <1>2
<1> QED
  BY <1>1, <1>2

LEMMA ExpandStep ==
  ASSUME WalkInv, NEW e \in Entry, Expand(e)
  PROVE  SecondInv'
<1> DEFINE u == e[2]
<1>1. TypeOK /\ SecondInv /\ todo = {} /\ Targets(todo) = {} /\ helper' = helper
  BY DEF WalkInv, Expand, Targets
<1>2. /\ u \in Person /\ u \in Targets(hop1) /\ u \in Friends
      /\ Targets(hop1') \subseteq Targets(hop1)
      /\ \A v : v \in Targets(hop1) => v = u \/ v \in Targets(hop1')
  BY <1>1 DEF Expand, Entry, Targets, SecondInv
<1>3. /\ Friends' = Friends /\ FriendsOfFriends' = FriendsOfFriends /\ Base' = Base
      /\ root' = root /\ knows' = knows
  BY DEF Expand, Friends, FriendsOfFriends, Base
<1>4. Targets(todo') = Neighbours(knows, u)
  BY <1>2, EdgesFacts DEF Expand, Targets
<1>5. Targets(todo') \subseteq FriendsOfFriends
  BY <1>2, <1>4 DEF FriendsOfFriends
<1>6. /\ seen \subseteq seen' /\ seen' \subseteq seen \cup {u}
      /\ helper = "1d_2d" => seen' = seen \cup {u}
  <2>1. CASE helper = "1d_2d" /\ u \notin seen
    BY <2>1 DEF Expand
  <2>2. CASE ~ (helper = "1d_2d" /\ u \notin seen)
    BY <2>2 DEF Expand
  <2> QED
    BY <2>1, <2>2
<1>7. \A w \in Friends \ {root} : w \in Targets(hop1') \/ w \in seen'
  <2>1. CASE helper = "1d_2d"
    BY <1>1, <1>2, <1>6, <2>1 DEF SecondInv
  <2>2. CASE helper # "1d_2d"
    BY <1>1, <1>6, <2>2 DEF SecondInv, Base
  <2> QED
    BY <2>1, <2>2
<1>8. ASSUME NEW w \in Friends \ {root}, NEW v \in Neighbours(knows, w)
      PROVE  w \in Targets(hop1') \/ v \in seen' \/ v \in Targets(todo')
  <2>1. CASE w = u
    BY <1>4, <1>8, <2>1
  <2>2. CASE w # u
    BY <1>1, <1>2, <1>6, <1>8, <2>2 DEF SecondInv
  <2> QED
    BY <2>1, <2>2
<1>9. calls' = [v \in Person |-> IF helper' # "mark" /\ v \in seen' \ Base' THEN 1 ELSE 0]
  <2>1. CASE helper = "1d_2d"
    <3>1. IF helper # "mark" /\ u \notin seen THEN Call(u) ELSE UNCHANGED calls
      BY <2>1 DEF Expand
    <3> QED
      BY <1>1, <1>2, <1>3, <1>6, <2>1, <3>1, CallOnce DEF SecondInv
  <2>2. CASE helper # "1d_2d"
    BY <1>1, <1>3, <2>2 DEF SecondInv, Expand
  <2> QED
    BY <2>1, <2>2
<1>10. /\ helper' # "neighbor"
       /\ Targets(hop1') \subseteq Friends'
       /\ Base' \subseteq seen'
       /\ seen' \subseteq {root'} \cup Friends' \cup FriendsOfFriends'
  BY <1>1, <1>2, <1>3, <1>6 DEF SecondInv
<1>11. \A w \in Friends' \ {root'} : \A v \in Neighbours(knows', w) :
          w \in Targets(hop1)' \/ v \in seen' \/ v \in Targets(todo)'
  BY <1>3, <1>8 DEF Targets
<1>12. \A w \in Friends' \ {root'} : w \in Targets(hop1)' \/ w \in seen'
  BY <1>3, <1>7 DEF Targets
<1> QED
  BY <1>3, <1>5, <1>9, <1>10, <1>11, <1>12 DEF SecondInv, Targets

LEMMA SecondHopStep ==
  ASSUME WalkInv, NEW e \in Entry, SecondHop(e)
  PROVE  SecondInv'
<1> DEFINE u == e[2]
<1>1. TypeOK /\ SecondInv /\ hop1' = hop1 /\ seen' = seen \cup {u} /\ helper' = helper
  BY DEF WalkInv, SecondHop
<1>2. /\ Friends' = Friends /\ FriendsOfFriends' = FriendsOfFriends /\ Base' = Base
      /\ root' = root /\ knows' = knows
  BY DEF SecondHop, Friends, FriendsOfFriends, Base
<1>3. /\ u \in Person /\ u \in Targets(todo) /\ Targets(todo') \subseteq Targets(todo)
      /\ \A v : v \in Targets(todo) => v = u \/ v \in Targets(todo')
  BY <1>1, <1>2, TakeFacts DEF SecondHop
<1>4. calls' = [v \in Person |-> IF helper' # "mark" /\ v \in seen' \ Base' THEN 1 ELSE 0]
  BY <1>1, <1>2, <1>3, CallOnce DEF SecondInv, SecondHop
<1>5. \A w \in Friends \ {root} : \A v \in Neighbours(knows, w) :
         w \in Targets(hop1) \/ v \in seen' \/ v \in Targets(todo')
  BY <1>1, <1>3 DEF SecondInv
<1>6. /\ seen' \subseteq {root} \cup Friends \cup FriendsOfFriends
      /\ Base \subseteq seen'
      /\ Targets(todo') \subseteq FriendsOfFriends
      /\ \A w \in Friends \ {root} : w \in Targets(hop1) \/ w \in seen'
  BY <1>1, <1>3 DEF SecondInv
<1>7. Targets(todo)' = Targets(todo') /\ Targets(hop1)' = Targets(hop1)
  BY <1>1 DEF Targets
<1> QED
  BY <1>1, <1>2, <1>4, <1>5, <1>6, <1>7 DEF SecondInv

LEMMA EndOfSecondHopStep ==
  ASSUME WalkInv, EndOfSecondHop
  PROVE  DoneInv'
<1>1. /\ TypeOK /\ SecondInv /\ Targets(hop1) = {} /\ Targets(todo) = {}
      /\ helper' = helper /\ calls' = calls
      /\ Friends' = Friends /\ FriendsOfFriends' = FriendsOfFriends /\ Base' = Base
      /\ root' = root /\ knows' = knows
  BY DEF WalkInv, EndOfSecondHop, Targets, Friends, FriendsOfFriends, Base
<1>2. Friends \subseteq seen \cup {root}
  BY <1>1 DEF SecondInv
<1>3. FriendsOfFriends \subseteq seen \cup {root} \cup Friends
  BY <1>1 DEF SecondInv, FriendsOfFriends, Friends
<1>4. root \in seen
  BY <1>1 DEF SecondInv, Base
<1>5. seen = {root} \cup Friends \cup FriendsOfFriends
  BY <1>1, <1>2, <1>3, <1>4 DEF SecondInv
<1>6. seen \ Base = (Friends \cup FriendsOfFriends) \ Base
  BY <1>5 DEF Base
<1>7. helper = "mark" => seen' = (Friends \cup FriendsOfFriends) \ {root}
  BY <1>5 DEF EndOfSecondHop
<1> QED
  BY <1>1, <1>6, <1>7 DEF DoneInv, SecondInv

LEMMA InvStep == WalkInv /\ [Next]_vars => WalkInv'
<1> SUFFICES ASSUME WalkInv, [Next]_vars PROVE WalkInv'
  OBVIOUS
<1>1. TypeOK'
  BY TypeStep DEF WalkInv
<1>2. ASSUME NEW e \in Entry, CallFriend(e) PROVE WalkInv'
  BY <1>1, <1>2, CallFriendStep DEF WalkInv, CallFriend
<1>3. ASSUME NEW e \in Entry, FirstHop(e) PROVE WalkInv'
  BY <1>1, <1>3, FirstHopStep DEF WalkInv, FirstHop
<1>4. ASSUME NEW e \in Entry, Expand(e) PROVE WalkInv'
  BY <1>1, <1>4, ExpandStep DEF WalkInv, Expand
<1>5. ASSUME NEW e \in Entry, SecondHop(e) PROVE WalkInv'
  BY <1>1, <1>5, SecondHopStep DEF WalkInv, SecondHop
<1>6. ASSUME EndOfFirstHop PROVE WalkInv'
  BY <1>6, EndOfFirstHopStep
<1>7. ASSUME EndOfSecondHop PROVE WalkInv'
  BY <1>1, <1>7, EndOfSecondHopStep DEF WalkInv, EndOfSecondHop
<1>8. ASSUME UNCHANGED vars PROVE WalkInv'
  <2>1. FirstInv => FirstInv'
    BY <1>8 DEF vars, FirstInv, Visited, Targets, EdgesOf
  <2>2. SecondInv => SecondInv'
    BY <1>8 DEF vars, SecondInv, Targets, Friends, FriendsOfFriends, Base
  <2>3. DoneInv => DoneInv'
    BY <1>8 DEF vars, DoneInv, Friends, FriendsOfFriends, Base
  <2> QED
    BY <1>1, <1>8, <2>1, <2>2, <2>3 DEF WalkInv, vars
<1> QED
  BY <1>2, <1>3, <1>4, <1>5, <1>6, <1>7, <1>8 DEF Next

------------------------------------------------------------------------------
(* What WalkInv says of the marks, lists and callbacks of each hop is       *)
(* true in every state of a helper of include/ldbc_common.h.                *)
THEOREM WalkInvariance == Spec => []WalkInv
  BY InitInv, InvStep, PTL DEF Spec

(* Every value the code keeps stays of its type: above all, no call is ever *)
(* counted for anybody who is not a person of the graph.                    *)
THEOREM WalkTypes == Spec => []TypeOK
<1>1. WalkInv => TypeOK
  BY DEF WalkInv
<1> QED
  BY <1>1, WalkInvariance, PTL

LEMMA DoneFinds == WalkInv => FindsTheWanted
<1> SUFFICES ASSUME WalkInv, pc = "done" PROVE FindsTheWanted
  BY DEF FindsTheWanted
<1>1. TypeOK /\ DoneInv /\ root \in Person
  BY DEF WalkInv, TypeOK
<1>2. Friends \subseteq Person /\ FriendsOfFriends \subseteq Person
  BY <1>1, NearPersons
<1>3. CASE helper = "neighbor"
  BY <1>1, <1>2, <1>3, WantedSet DEF FindsTheWanted, DoneInv
<1>4. CASE helper = "mark"
  BY <1>1, <1>4, WantedSet DEF FindsTheWanted, DoneInv
<1>5. CASE helper \notin {"neighbor", "mark"}
  <2>1. {v \in Person : calls[v] > 0} = (Friends \cup FriendsOfFriends) \ Base
    BY <1>1, <1>2, <1>5 DEF DoneInv
  <2>2. Wanted = (Friends \cup FriendsOfFriends) \ Base
    BY <1>1, <1>5, WantedSet DEF Base, TypeOK, Helper
  <2> QED
    BY <1>5, <2>1, <2>2 DEF FindsTheWanted
<1> QED
  BY <1>3, <1>4, <1>5

LEMMA InvCalledOnce == WalkInv => CalledOnce
<1> SUFFICES ASSUME WalkInv, helper # "neighbor" \/ Simple(knows)
             PROVE  calls[root] = 0 /\ \A v \in Person : calls[v] <= 1
  BY DEF CalledOnce
<1>1. TypeOK /\ root \in Person
  BY DEF WalkInv, TypeOK
<1>2. CASE pc = "first" /\ helper = "neighbor"
  <2>1. FirstInv /\ root \notin Targets(Visited)
    BY <1>1, <1>2, SimpleEdges, EdgesFacts DEF WalkInv, Targets, Visited, Friends
  <2> QED
    BY <1>1, <1>2, <2>1 DEF FirstInv, TypeOK
<1>3. CASE pc = "first" /\ helper # "neighbor"
  BY <1>1, <1>3 DEF WalkInv, FirstInv
<1>4. CASE pc = "second"
  BY <1>1, <1>4 DEF WalkInv, SecondInv, Base
<1>5. CASE pc = "done" /\ helper = "neighbor"
  BY <1>1, <1>5, SimpleEdges DEF WalkInv, DoneInv, TypeOK
<1>6. CASE pc = "done" /\ helper # "neighbor"
  BY <1>1, <1>6 DEF WalkInv, DoneInv, Base
<1> QED
  BY <1>1, <1>2, <1>3, <1>4, <1>5, <1>6 DEF TypeOK

(* When a helper of include/ldbc_common.h returns, it has called back for   *)
(* exactly the persons at the distances it is named after, or marked them.  *)
THEOREM FindsWanted == Spec => []FindsTheWanted
  BY WalkInvariance, DoneFinds, PTL

(* The callback is called at most once for a person and never for the root, *)
(* in whatever order and direction the friendships are stored; for friends  *)
(* alone, where every friendship is stored once.                            *)
THEOREM CallsOnce == Spec => []CalledOnce
  BY WalkInvariance, InvCalledOnce, PTL

------------------------------------------------------------------------------
(****************************************************************************)
(* How often the callback was called for a person.  The helper for friends  *)
(* calls once for every edge of the root, whichever its direction.          *)
(****************************************************************************)
Times(S, v) == (IF <<"out", v>> \in S THEN 1 ELSE 0) + (IF <<"in", v>> \in S THEN 1 ELSE 0)

TimesInv ==
  helper = "neighbor" =>
    /\ todo \subseteq EdgesOf(root)
    /\ pc # "first" => todo = {}
    /\ \A v \in Person : calls[v] = Times(Visited, v)

LEMMA InitTimes == Init => TimesInv
BY DEF Init, TimesInv, Visited, Times

LEMMA CallTimes ==
  ASSUME WalkInv, TimesInv, NEW e \in Entry, CallFriend(e)
  PROVE  TimesInv'
<1>1. TypeOK /\ helper = "neighbor" /\ pc = "first" /\ todo \subseteq EdgesOf(root)
  BY DEF WalkInv, CallFriend, TimesInv
<1>2. /\ e \in todo /\ todo' = todo \ {e} /\ e \in EdgesOf(root) /\ e \notin Visited
      /\ Visited' = Visited \cup {e}
      /\ EdgesOf(root)' = EdgesOf(root)
  BY <1>1, TakeFacts DEF CallFriend, Take, EdgesOf, Visited
<1>3. calls' = [calls EXCEPT ![e[2]] = @ + 1] /\ e[2] \in Person /\ e[1] \in {"in", "out"}
      /\ e = <<e[1], e[2]>>
  BY DEF CallFriend, Call, Entry
<1>4. ASSUME NEW v \in Person PROVE calls'[v] = Times(Visited', v)
  <2>1. calls[v] = Times(Visited, v) /\ calls \in [Person -> Nat]
    BY <1>1 DEF TimesInv, TypeOK
  <2>2. CASE v # e[2]
    <3>1. <<"out", v>> # e /\ <<"in", v>> # e
      BY <1>3, <2>2
    <3>2. Times(Visited', v) = Times(Visited, v)
      BY <1>2, <3>1 DEF Times
    <3> QED
      BY <1>3, <2>1, <2>2, <3>2
  <2>3. CASE v = e[2] /\ e[1] = "out"
    <3>1. e = <<"out", v>> /\ e # <<"in", v>>
      BY <1>3, <2>3
    <3>2. Times(Visited', v) = Times(Visited, v) + 1
      BY <1>2, <3>1 DEF Times
    <3> QED
      BY <1>3, <2>1, <2>3, <3>2
  <2>4. CASE v = e[2] /\ e[1] = "in"
    <3>1. e = <<"in", v>> /\ e # <<"out", v>>
      BY <1>3, <2>4
    <3>2. Times(Visited', v) = Times(Visited, v) + 1
      BY <1>2, <3>1 DEF Times
    <3> QED
      BY <1>3, <2>1, <2>4, <3>2
  <2> QED
    BY <1>3, <2>2, <2>3, <2>4
<1>5. todo' \subseteq EdgesOf(root)' /\ pc' = "first"
  BY <1>1, <1>2 DEF CallFriend
<1> QED
  BY <1>4, <1>5 DEF TimesInv

LEMMA TimesStep ==
  ASSUME WalkInv, TimesInv, [Next]_vars
  PROVE  TimesInv'
<1> SUFFICES ASSUME helper' = "neighbor" PROVE TimesInv'
  BY DEF TimesInv
<1>1. ASSUME NEW e \in Entry, CallFriend(e) PROVE TimesInv'
  BY <1>1, CallTimes
<1>2. ASSUME NEW e \in Entry, FirstHop(e) PROVE FALSE
  BY <1>2 DEF FirstHop
<1>3. pc = "second" => helper # "neighbor" /\ helper' = helper
  BY DEF WalkInv, SecondInv, Next, CallFriend, FirstHop, Expand,
         SecondHop, EndOfFirstHop, EndOfSecondHop, vars
<1>4. pc # "second"
  BY <1>3
<1>5. ASSUME EndOfFirstHop PROVE TimesInv'
  <2>1. helper = "neighbor" /\ todo = {} /\ todo' = {} /\ Visited' = Visited /\ calls' = calls
    BY <1>5 DEF EndOfFirstHop, Visited, EdgesOf
  <2> QED
    BY <2>1 DEF TimesInv
<1>6. ASSUME UNCHANGED vars PROVE TimesInv'
  <2>1. Visited' = Visited /\ EdgesOf(root)' = EdgesOf(root)
    BY <1>6 DEF vars, Visited, EdgesOf
  <2> QED
    BY <1>6, <2>1 DEF vars, TimesInv
<1>7. ASSUME NEW e \in Entry, Expand(e) \/ SecondHop(e) PROVE FALSE
  BY <1>4, <1>7 DEF Expand, SecondHop
<1>8. ASSUME EndOfSecondHop PROVE FALSE
  BY <1>4, <1>8 DEF EndOfSecondHop
<1> QED
  BY <1>1, <1>2, <1>5, <1>6, <1>7, <1>8 DEF Next

(* IC2 is to meet the messages of a friend as often as he is stored.        *)
LEMMA TimesOfFriend ==
  ASSUME NEW v \in Person, root \in Person
  PROVE  /\ TimesFriend(v) = Times(EdgesOf(root), v)
         /\ TimesFriend(v) \in 0..2
<1> DEFINE o == <<root, v, "out">>
           i == <<v, root, "in">>
           S == {e \in {o, i} : <<e[1], e[2]>> \in knows}
<1>1. o # i /\ o[1] = root /\ o[2] = v /\ i[1] = v /\ i[2] = root
  OBVIOUS
<1>2. /\ <<"out", v>> \in EdgesOf(root) <=> <<root, v>> \in knows
      /\ <<"in", v>> \in EdgesOf(root) <=> <<v, root>> \in knows
  BY DEF EdgesOf, InEdges, OutEdges
<1> HIDE DEF o, i
<1>3. S = {e \in {o} : <<root, v>> \in knows} \cup {e \in {i} : <<v, root>> \in knows}
  BY <1>1
<1>4. TimesFriend(v) = Cardinality(S)
  BY DEF TimesFriend, o, i
<1> HIDE DEF S
<1>5. CASE <<root, v>> \in knows /\ <<v, root>> \in knows
  <2>1. S = {o, i}
    BY <1>3, <1>5
  <2>2. IsFiniteSet({o}) /\ Cardinality({o}) = 1
    BY FS_Singleton
  <2>3. {o, i} = {o} \cup {i} /\ i \notin {o}
    BY <1>1
  <2>4. Cardinality(S) = 2
    BY <2>1, <2>2, <2>3, FS_AddElement
  <2> QED
    BY <1>2, <1>4, <1>5, <2>4 DEF Times
<1>6. CASE <<root, v>> \in knows /\ <<v, root>> \notin knows
  <2>1. S = {o}
    BY <1>3, <1>6
  <2>2. Cardinality(S) = 1
    BY <2>1, FS_Singleton
  <2> QED
    BY <1>2, <1>4, <1>6, <2>2 DEF Times
<1>7. CASE <<root, v>> \notin knows /\ <<v, root>> \in knows
  <2>1. S = {i}
    BY <1>3, <1>7
  <2>2. Cardinality(S) = 1
    BY <2>1, FS_Singleton
  <2> QED
    BY <1>2, <1>4, <1>7, <2>2 DEF Times
<1>8. CASE <<root, v>> \notin knows /\ <<v, root>> \notin knows
  <2>1. S = {}
    BY <1>3, <1>8
  <2> QED
    BY <1>2, <1>4, <1>8, <2>1, FS_EmptySet DEF Times
<1> QED
  BY <1>5, <1>6, <1>7, <1>8

(* Whom the walk called for, at any time and at its end.                    *)
LEMMA NearIs ==
  ASSUME TypeOK
  PROVE  Near = (Friends \cup FriendsOfFriends) \ {root}
<1>1. 1..2 = {1, 2}
  OBVIOUS
<1> QED
  BY <1>1, NearPersons DEF Near

LEMMA CalledFor ==
  ASSUME WalkInv, TimesInv, NEW v \in Person
  PROVE  /\ helper = "neighbor" =>
              /\ calls[v] \in Nat /\ calls[v] <= TimesFriend(v) /\ TimesFriend(v) \in 0..2
              /\ pc = "done" => calls[v] = TimesFriend(v)
         /\ helper = "1d_2d" =>
              /\ calls[v] \in {0, 1}
              /\ calls[v] = 1 => v \in Near
              /\ pc = "done" /\ v \in Near => calls[v] = 1
         /\ helper = "mark" => calls[v] = 0
<1>1. TypeOK /\ root \in Person /\ calls[v] \in Nat
  BY DEF WalkInv, TypeOK
<1>2. CASE helper = "neighbor"
  <2>1. calls[v] = Times(Visited, v) /\ Visited \subseteq EdgesOf(root)
        /\ (pc = "done" => Visited = EdgesOf(root))
    BY <1>2 DEF TimesInv, Visited
  <2>2. Times(Visited, v) <= Times(EdgesOf(root), v)
    BY <2>1 DEF Times
  <2> QED
    BY <1>1, <1>2, <2>1, <2>2, TimesOfFriend
<1>3. CASE helper # "neighbor"
  <2>1. CASE pc = "first"
    BY <1>1, <1>3, <2>1 DEF WalkInv, FirstInv
  <2>2. CASE pc = "second"
    BY <1>1, <1>3, <2>2, NearIs DEF WalkInv, SecondInv, Base
  <2>3. CASE pc = "done"
    BY <1>1, <1>3, <2>3, NearIs DEF WalkInv, DoneInv, Base
  <2> QED
    BY <1>1, <2>1, <2>2, <2>3 DEF TypeOK
<1> QED
  BY <1>2, <1>3

------------------------------------------------------------------------------
(****************************************************************************)
(* Types.  Which walk a call is on, which lists it may have to open, and    *)
(* what the heap holds.                                                     *)
(****************************************************************************)
WalkOf ==
  /\ call = "ic2" => helper = "neighbor"
  /\ call = "ic9" => helper = "1d_2d"
  /\ call = "ic11" => helper = "mark"
  /\ call \in {"is2", "ic8"} => pc = "done"
  /\ call \in {"ic2", "ic9", "ic11"} => limit \in Limits

(* Only who was called for is scanned, and IC11 scans when all are marked.  *)
ListsOf ==
  /\ call \in {"ic2", "ic9"} => lists \subseteq MessageList \X {v \in Person : calls[v] > 0}
  /\ call = "is2" => lists \subseteq MessageList \X {root}
  /\ call = "ic8" => lists \subseteq UNION {{k} \X MessagesOf(k, root) : k \in MessageList}
  /\ call = "ic11" => /\ lists \subseteq {"company"} \X world.companies
                      /\ lists # {} \/ unread # {} => pc = "done"

ScanTypes ==
  /\ CallTypeOK
  /\ WalkInv
  /\ TimesInv
  /\ WalkOf
  /\ ListsOf
  /\ IsFiniteSet(heap)

LEMMA SameCount ==
  ASSUME NEW S
  PROVE  /\ Heap!Cardinality(S) = Cardinality(S)
         /\ Sorted!Cardinality(S) = Cardinality(S)
BY DEF Cardinality, Heap!Cardinality, Sorted!Cardinality

LEMMA WorldFacts ==
  ASSUME CallTypeOK
  PROVE  /\ world.author \in [Message -> Person]
         /\ world.date \in [Message -> Nat]
         /\ world.replyOf \in [Comment -> Message \cup {none}]
         /\ world.companies \subseteq Company
         /\ world.jobs \subseteq Person \X Company \X Nat
         /\ root \in Person
         /\ \A m \in Message, k \in 0..2 : <<world.date[m], m, k>> \in Row
         /\ \A j \in world.jobs : <<j[3], j[1], j[2]>> \in Row
<1>1. world \in World /\ world \in Worlds
  BY WorldsAssumption DEF CallTypeOK
<1>2. root \in Person
  BY DEF CallTypeOK, TypeOK
<1>3. ASSUME NEW m \in Message, NEW k \in 0..2 PROVE <<world.date[m], m, k>> \in Row
  BY <1>1, RowsAssumption
<1>4. ASSUME NEW j \in world.jobs PROVE <<j[3], j[1], j[2]>> \in Row
  BY <1>1, RowsAssumption
<1> QED
  BY <1>1, <1>2, <1>3, <1>4 DEF World

LEMMA MessagesOfType ==
  ASSUME NEW k, NEW v
  PROVE  MessagesOf(k, v) \subseteq Message
BY DEF MessagesOf, Message

(* The rows of each list, query by query.                                   *)
LEMMA RowsOfEach ==
  ASSUME NEW l
  PROVE  /\ call \in {"ic2", "ic9"} =>
              RowsOf(l) = {<<world.date[m], m, calls[l[2]]>> :
                             m \in {n \in MessagesOf(l[1], l[2]) : InWindow(n)}}
         /\ call = "is2" =>
              RowsOf(l) = {<<world.date[m], m, 0>> : m \in MessagesOf(l[1], l[2])}
         /\ call = "ic8" =>
              RowsOf(l) = {<<world.date[c], c, 0>> :
                             c \in {d \in Comment : world.replyOf[d] = l[2]}}
         /\ call = "ic11" =>
              RowsOf(l) = {<<j[3], j[1], l[2]>> :
                             j \in {k \in world.jobs : k[2] = l[2] /\ k[3] < limit /\ k[1] \in seen}}
BY DEF RowsOf

LEMMA RowsTyped ==
  ASSUME ScanTypes, NEW l \in lists
  PROVE  RowsOf(l) \subseteq Row
<1>1. CallTypeOK /\ WalkOf /\ ListsOf /\ WalkInv /\ TimesInv
  BY DEF ScanTypes
<1>2. 0 \in 0..2
  OBVIOUS
<1>3. CASE call \in {"ic2", "ic9"}
  <2>1. l[2] \in Person
    BY <1>1, <1>3 DEF ListsOf
  <2>2. calls[l[2]] \in 0..2
    BY <1>1, <1>3, <2>1, CalledFor DEF WalkOf
  <2>3. \A m \in MessagesOf(l[1], l[2]) : <<world.date[m], m, calls[l[2]]>> \in Row
    BY <1>1, <2>2, WorldFacts, MessagesOfType
  <2> QED
    BY <1>3, <2>3, RowsOfEach
<1>4. CASE call = "is2"
  <2>1. \A m \in MessagesOf(l[1], l[2]) : <<world.date[m], m, 0>> \in Row
    BY <1>1, <1>2, WorldFacts, MessagesOfType
  <2> QED
    BY <1>4, <2>1, RowsOfEach
<1>5. CASE call = "ic8"
  <2>1. \A m \in Comment : <<world.date[m], m, 0>> \in Row
    BY <1>1, <1>2, WorldFacts DEF Message
  <2> QED
    BY <1>5, <2>1, RowsOfEach
<1>6. CASE call = "ic11"
  <2>1. \A j \in world.jobs : j[2] = l[2] => <<j[3], j[1], l[2]>> \in Row
    BY <1>1, WorldFacts
  <2> QED
    BY <1>6, <2>1, RowsOfEach
<1> QED
  BY <1>1, <1>3, <1>4, <1>5, <1>6 DEF CallTypeOK

LEMMA NoWalkInv ==
  ASSUME NoWalk, root \in Person
  PROVE  WalkInv /\ TimesInv
<1>1. TypeOK
  BY DEF NoWalk, TypeOK, Graph, Helper, Entry
<1>2. Friends = {} /\ EdgesOf(root) = {} /\ Visited = {}
  BY DEF EdgesOf, NoWalk, Friends, Neighbours, InEdges, OutEdges, Visited
<1>3. DoneInv
  BY <1>2 DEF NoWalk, DoneInv
<1>4. TimesInv
  BY <1>2 DEF NoWalk, TimesInv, Times
<1> QED
  BY <1>1, <1>3, <1>4 DEF WalkInv, NoWalk

LEMMA InitTypes == CallInit => ScanTypes
<1> SUFFICES ASSUME CallInit PROVE ScanTypes
  OBVIOUS
<1>1. root \in Person /\ world \in World
  BY RootsAssumption, WorldsAssumption DEF CallInit
<1>2. WalkInv /\ TimesInv
  BY <1>1, NoWalkInv, InitInv, InitTimes DEF CallInit
<1>3. WalkOf
  BY DEF CallInit, Begin, WalkOf, NoWalk
<1>4. ListsOf
  BY DEF CallInit, Begin, ListsOf
<1>5. query \in Queries
  BY HeapAssumption DEF CallInit, Begin
<1>6. lists \subseteq MessageList \X (Person \cup Message)
  BY <1>1, MessagesOfType DEF CallInit, Begin
<1>7. call \in {"ic2", "ic8", "ic9", "ic11", "is2"} /\ limit \in Limits \cup {none}
  BY DEF CallInit, Begin
<1>8. IsFiniteSet(heap) /\ Cardinality(heap) <= kTopN
  BY FS_EmptySet, HeapAssumption DEF CallInit
<1>9. results \in Seq(Row) /\ floor \in Nat /\ heap \subseteq Row /\ unread \subseteq Row
  BY DEF CallInit
<1>10. CallTypeOK
  BY <1>2, <1>5, <1>6, <1>7, <1>8, <1>9 DEF CallInit, CallTypeOK, WalkInv
<1> QED
  BY <1>2, <1>3, <1>4, <1>8, <1>10 DEF ScanTypes

(* A step of the walk calls for somebody once more, or for nobody.          *)
LEMMA WalkCalls ==
  ASSUME TypeOK, Next
  PROVE  /\ pc # "done"
         /\ helper' = helper /\ root' = root /\ knows' = knows
         /\ \A v \in Person : calls'[v] \in {calls[v], calls[v] + 1} /\ calls'[v] \in Nat
<1>1. calls \in [Person -> Nat]
  BY DEF TypeOK
<1>2. ASSUME NEW e \in Entry, CallFriend(e) \/ Expand(e) \/ SecondHop(e)
      PROVE  calls' = calls \/ calls' = [calls EXCEPT ![e[2]] = @ + 1]
  BY <1>2 DEF CallFriend, Expand, SecondHop, Call
<1>3. ASSUME NEW e \in Entry, NEW v \in Person, calls' = [calls EXCEPT ![e[2]] = @ + 1]
      PROVE  calls'[v] \in {calls[v], calls[v] + 1}
  BY <1>1, <1>3
<1>4. ASSUME NEW v \in Person PROVE calls'[v] \in {calls[v], calls[v] + 1}
  BY <1>2, <1>3 DEF Next, FirstHop, EndOfFirstHop, EndOfSecondHop
<1>5. /\ pc # "done"
      /\ helper' = helper /\ root' = root /\ knows' = knows
  BY DEF Next, CallFriend, FirstHop, Expand, SecondHop,
         EndOfFirstHop, EndOfSecondHop
<1> QED
  BY <1>1, <1>4, <1>5

(* Nothing but the walk changes what is known of it.                        *)
LEMMA WalkStands ==
  ASSUME ScanTypes, UNCHANGED <<OfCall, OfWalk>>
  PROVE  WalkInv' /\ TimesInv' /\ WalkOf'
<1>1. UNCHANGED vars
  BY DEF OfWalk, vars
<1>2. WalkInv' /\ TimesInv'
  BY <1>1, InvStep, TimesStep DEF ScanTypes
<1>3. WalkOf'
  BY DEF ScanTypes, WalkOf, OfCall, OfWalk
<1> QED
  BY <1>2, <1>3

LEMMA WalkOnTypes ==
  ASSUME ScanTypes, WalkOn
  PROVE  ScanTypes'
<1>1. /\ CallTypeOK /\ TypeOK /\ WalkInv /\ TimesInv /\ WalkOf /\ ListsOf
      /\ Next /\ UNCHANGED OfCall /\ unread = {} /\ unread' = {}
  BY DEF ScanTypes, WalkOn, CallTypeOK
<1>2. WalkInv' /\ TimesInv' /\ TypeOK'
  BY <1>1, InvStep, TimesStep DEF WalkInv
<1>3. pc # "done" /\ helper' = helper /\ root' = root
      /\ \A v \in Person : calls'[v] \in Nat /\ calls[v] \in Nat
  BY <1>1, WalkCalls DEF TypeOK
<1>4. WalkOf'
  BY <1>1, <1>3 DEF WalkOf, OfCall
<1>5. ASSUME call = "ic11"
      PROVE  ListsOf' /\ lists' \subseteq (MessageList \X (Person \cup Message)) \cup ({"company"} \X Company)
  <2>1. lists' = {l \in {"company"} \X world.companies : pc' = "done"}
    BY <1>5 DEF WalkOn
  <2>2. lists' \subseteq {"company"} \X Company
    BY <1>1, <2>1, WorldFacts
  <2>3. ListsOf'
    BY <1>1, <1>5, <2>1 DEF ListsOf, OfCall
  <2> QED
    BY <2>2, <2>3
<1>6. ASSUME call \in {"ic2", "ic9"}
      PROVE  ListsOf' /\ lists' \subseteq (MessageList \X (Person \cup Message)) \cup ({"company"} \X Company)
  <2>1. lists' = MessageList \X {v \in Person : calls'[v] > calls[v]}
    BY <1>6 DEF WalkOn
  <2>2. lists' \subseteq MessageList \X {v \in Person : calls'[v] > 0}
    BY <1>3, <2>1
  <2>3. ListsOf'
    BY <1>1, <1>6, <2>2 DEF ListsOf, OfCall
  <2> QED
    BY <2>1, <2>3
<1>7. ListsOf' /\ lists' \subseteq (MessageList \X (Person \cup Message)) \cup ({"company"} \X Company)
  BY <1>1, <1>3, <1>5, <1>6 DEF CallTypeOK, WalkOf
<1>8. CallTypeOK'
  BY <1>1, <1>2, <1>7 DEF CallTypeOK, WalkOn, OfCall
<1>9. IsFiniteSet(heap')
  BY DEF ScanTypes, WalkOn
<1> QED
  BY <1>2, <1>4, <1>7, <1>8, <1>9 DEF ScanTypes

LEMMA OpenTypes ==
  ASSUME ScanTypes, NEW l \in lists, OpenList(l)
  PROVE  ScanTypes'
<1>1. /\ CallTypeOK /\ ListsOf /\ lists' = lists \ {l} /\ unread' = RowsOf(l)
      /\ UNCHANGED OfCall /\ UNCHANGED OfWalk
  BY DEF ScanTypes, OpenList
<1>2. WalkInv' /\ TimesInv' /\ WalkOf'
  BY <1>1, WalkStands
<1>3. unread' \subseteq Row
  BY <1>1, RowsTyped
<1>4. CallTypeOK'
  BY <1>1, <1>2, <1>3 DEF CallTypeOK, OpenList, OfCall, OfWalk, WalkInv
<1>5. \A k : MessagesOf(k, root)' = MessagesOf(k, root)
  BY <1>1 DEF MessagesOf, OfCall, OfWalk
<1>6. ListsOf'
  BY <1>1, <1>5 DEF ListsOf, OfCall, OfWalk
<1>7. IsFiniteSet(heap')
  BY DEF ScanTypes, OpenList
<1> QED
  BY <1>2, <1>4, <1>6, <1>7 DEF ScanTypes

(* While the heap is worked on no list is opened, and no row is added.      *)
LEMMA ListsStand ==
  ASSUME ScanTypes, UNCHANGED <<OfCall, OfWalk, lists>>, unread' \subseteq unread
  PROVE  ListsOf'
<1>1. \A k : MessagesOf(k, root)' = MessagesOf(k, root)
  BY DEF MessagesOf, OfCall, OfWalk
<1> QED
  BY <1>1 DEF ScanTypes, ListsOf, OfCall, OfWalk

LEMMA HeapSteps ==
  ASSUME ScanTypes, UNCHANGED <<OfCall, OfWalk, lists>>, unread' \subseteq unread,
         query' = query, heap' \subseteq Row, IsFiniteSet(heap'), Cardinality(heap') <= kTopN,
         floor' \in Nat, results' \in Seq(Row), phase' \in {"find", "scan", "done"}
  PROVE  ScanTypes'
<1>1. WalkInv' /\ TimesInv' /\ WalkOf' /\ ListsOf'
  BY WalkStands, ListsStand
<1>2. CallTypeOK'
  BY <1>1 DEF ScanTypes, CallTypeOK, OfCall, OfWalk, WalkInv
<1> QED
  BY <1>1, <1>2 DEF ScanTypes

LEMMA OneMore ==
  ASSUME NEW H, NEW r, IsFiniteSet(H)
  PROVE  /\ IsFiniteSet(H \cup {r})
         /\ Cardinality(H) \in Nat /\ Cardinality(H \cup {r}) \in Nat
         /\ Cardinality(H \cup {r}) <= Cardinality(H) + 1
<1>1. /\ IsFiniteSet(H \cup {r})
      /\ Cardinality(H \cup {r}) = IF r \in H THEN Cardinality(H) ELSE Cardinality(H) + 1
  BY FS_AddElement
<1>2. Cardinality(H) \in Nat
  BY FS_CardinalityType
<1> QED
  BY <1>1, <1>2

LEMMA OfferTypes ==
  ASSUME ScanTypes, NEW r \in unread, Offer(r)
  PROVE  ScanTypes'
<1>1. CallTypeOK /\ r \in Row /\ IsFiniteSet(heap) /\ Cardinality(heap) \in Nat /\ heap \subseteq Row
  BY FS_CardinalityType DEF ScanTypes, CallTypeOK
<1>2. kTopN \in Nat
  BY HeapAssumption
<1>3. /\ UNCHANGED <<OfCall, OfWalk, lists>> /\ query' = query /\ results' = results /\ phase' = phase
      /\ unread' = unread \ {r}
  BY DEF Offer, Heap!Push, Heap!Replace, Heap!Drop
<1>4. /\ heap' \subseteq Row /\ IsFiniteSet(heap') /\ Cardinality(heap') <= kTopN
  <2>1. CASE Heap!Push(r)
    <3>1. heap' = heap \cup {r} /\ Cardinality(heap) < kTopN
      BY <2>1, SameCount DEF Heap!Push
    <3>2. /\ IsFiniteSet(heap') /\ Cardinality(heap') \in Nat
          /\ Cardinality(heap') <= Cardinality(heap) + 1
      BY ONLY <1>1, <3>1, OneMore
    <3> QED
      BY <1>1, <1>2, <3>1, <3>2
  <2>2. ASSUME NEW w \in heap, Heap!Replace(r, w)
        PROVE  heap' \subseteq Row /\ IsFiniteSet(heap') /\ Cardinality(heap') <= kTopN
    <3>1. heap' = (heap \ {w}) \cup {r} /\ Cardinality(heap) = kTopN
      BY <2>2, SameCount DEF Heap!Replace, Heap!Full
    <3>2. IsFiniteSet(heap \ {w}) /\ Cardinality(heap \ {w}) = Cardinality(heap) - 1
      BY <1>1, FS_RemoveElement
    <3>3. /\ IsFiniteSet(heap') /\ Cardinality(heap') \in Nat
          /\ Cardinality(heap') <= Cardinality(heap \ {w}) + 1
      BY ONLY <3>1, <3>2, OneMore
    <3> QED
      BY <1>1, <1>2, <3>1, <3>2, <3>3
  <2>3. ASSUME NEW w \in heap, Heap!Drop(r, w)
        PROVE  heap' \subseteq Row /\ IsFiniteSet(heap') /\ Cardinality(heap') <= kTopN
    BY <1>1, <2>3 DEF Heap!Drop, ScanTypes, CallTypeOK
  <2> QED
    BY <2>1, <2>2, <2>3 DEF Offer
<1>5. floor' \in Nat
  <2>1. floor \in Nat
    BY <1>1 DEF CallTypeOK
  <2>2. ASSUME NEW w \in Heap!LastOf(heap') PROVE w[1] \in Nat
    BY <1>4, <2>2, RowsAssumption DEF Heap!LastOf
  <2>3. Heap!CopyFloor => floor' \in Nat
    BY <2>1, <2>2 DEF Heap!CopyFloor
  <2> QED
    BY <2>1, <2>3 DEF Offer, Heap!Push, Heap!Replace, Heap!Drop
<1> QED
  BY <1>1, <1>3, <1>4, <1>5, HeapSteps DEF CallTypeOK

LEMMA OutputTypes ==
  ASSUME ScanTypes, NEW w \in heap, Output(w)
  PROVE  ScanTypes'
<1>1. /\ CallTypeOK /\ IsFiniteSet(heap) /\ w \in Row /\ Cardinality(heap) <= kTopN
      /\ Cardinality(heap) \in Nat /\ kTopN \in Nat
  BY FS_CardinalityType, HeapAssumption DEF ScanTypes, CallTypeOK
<1>2. /\ UNCHANGED <<OfCall, OfWalk, lists>> /\ query' = query /\ floor' = floor /\ phase' = phase
      /\ heap' = heap \ {w} /\ results' = <<w>> \o results /\ unread' = unread
  BY DEF Output, Heap!Output
<1>3. IsFiniteSet(heap') /\ Cardinality(heap') = Cardinality(heap) - 1
  BY <1>1, <1>2, FS_RemoveElement
<1>4. results' \in Seq(Row)
  BY <1>1, <1>2 DEF CallTypeOK
<1> QED
  BY <1>1, <1>2, <1>3, <1>4, HeapSteps DEF CallTypeOK

LEMMA TypesStep == ScanTypes /\ [CallNext]_callVars => ScanTypes'
<1> SUFFICES ASSUME ScanTypes, [CallNext]_callVars PROVE ScanTypes'
  OBVIOUS
<1>1. CallTypeOK /\ IsFiniteSet(heap)
  BY DEF ScanTypes
<1>2. ASSUME Find \/ Return \/ UNCHANGED callVars PROVE ScanTypes'
  <2>1. /\ UNCHANGED <<OfCall, OfWalk, lists>> /\ query' = query /\ floor' = floor /\ heap' = heap
        /\ results' = results /\ unread' = unread /\ phase' \in {"find", "scan", "done"}
    BY <1>1, <1>2 DEF Find, Return, callVars, CallTypeOK
  <2> QED
    BY <1>1, <2>1, HeapSteps DEF CallTypeOK
<1> QED
  BY <1>2, WalkOnTypes, OpenTypes, OfferTypes, OutputTypes DEF CallNext

(* The variables of a call keep their types, whatever the maxDate: no row   *)
(* is offered that has no room, no list opened but of messages, replies or  *)
(* jobs, and no heap ever holds more than the limit.                        *)
THEOREM CallTypes == CallSpec => []CallTypeOK
<1>1. ScanTypes => CallTypeOK
  BY DEF ScanTypes
<1> QED
  BY <1>1, InitTypes, TypesStep, PTL DEF CallSpec

------------------------------------------------------------------------------
(****************************************************************************)
(* The call implements the heap of TopN over the rows it is asked for.      *)
(* INT64_MAX is excepted: there the bound of the scan wraps, see the run    *)
(* ScanCalls_maxDate.                                                       *)
(****************************************************************************)
BelowMaximum == MaxDate \notin Limits

(* Whether a row is in a list that waits or is yet to wait.                 *)
Ahead(r) ==
  \/ \E l \in lists : r \in RowsOf(l)
  \/ call \in {"ic2", "ic9"} /\ r[3] > calls[world.author[r[2]]]
  \/ call = "ic11" /\ pc # "done"

(* The rows of the open list are asked for, and come up nowhere else.       *)
RowInv == unread \subseteq WantedRows /\ \A r \in unread : ~ Ahead(r)

LEMMA RemainingIs == Remaining = {r \in WantedRows : r \in unread \/ Ahead(r)}
BY DEF Remaining, Ahead

(* The number of the calls in which a message of v is to be met, by IC2 and *)
(* by IC9.                                                                  *)
Asked(v) ==
  IF call = "ic2" THEN {k \in {1, 2} : k <= TimesFriend(v)} ELSE {k \in {1} : v \in Near}

MessageRows(l, k) ==
  {<<world.date[m], m, k>> : m \in {n \in MessagesOf(l[1], l[2]) : InWindow(n)}}

LEMMA AskedFacts ==
  ASSUME ScanTypes, call \in {"ic2", "ic9"}, NEW v \in Person
  PROVE  /\ calls[v] \in Nat /\ Asked(v) \subseteq {1, 2}
         /\ calls[v] > 0 => calls[v] \in Asked(v)
         /\ pc = "done" => \A k \in Asked(v) : k <= calls[v]
<1>1. /\ WalkInv /\ TimesInv
      /\ call = "ic2" => helper = "neighbor"
      /\ call = "ic9" => helper = "1d_2d"
  BY DEF ScanTypes, WalkOf
<1>2. CASE call = "ic2"
  <2>1. /\ calls[v] \in Nat /\ calls[v] <= TimesFriend(v) /\ TimesFriend(v) \in 0..2
        /\ pc = "done" => calls[v] = TimesFriend(v)
    BY <1>1, <1>2, CalledFor
  <2> QED
    BY <1>2, <2>1 DEF Asked
<1>3. CASE call = "ic9"
  <2>1. /\ calls[v] \in {0, 1}
        /\ calls[v] = 1 => v \in Near
        /\ pc = "done" /\ v \in Near => calls[v] = 1
    BY <1>1, <1>3, CalledFor
  <2> QED
    BY <1>3, <2>1 DEF Asked
<1> QED
  BY <1>2, <1>3

LEMMA WindowIs ==
  ASSUME BelowMaximum, ScanTypes, call \in {"ic2", "ic9"}, NEW m \in Message
  PROVE  InWindow(m) <=> world.date[m] <= limit
<1>1. limit \in Limits /\ world.date[m] \in Nat
  BY WorldFacts DEF ScanTypes, WalkOf
<1>2. limit \in Nat /\ Threshold = limit + 1
  BY <1>1, LimitsAssumption DEF BelowMaximum, Threshold
<1> QED
  BY <1>1, <1>2 DEF InWindow

(* What IC2 and IC9 are asked for.                                          *)
LEMMA WantedMessages ==
  ASSUME BelowMaximum, ScanTypes, call \in {"ic2", "ic9"}
  PROVE  /\ \A r \in WantedRows : \E m \in Message : \E k \in Asked(world.author[m]) :
                                InWindow(m) /\ r = <<world.date[m], m, k>>
         /\ \A m \in Message : \A k \in Asked(world.author[m]) :
              InWindow(m) => <<world.date[m], m, k>> \in WantedRows
<1> DEFINE upTo == {m \in Message : world.date[m] <= limit}
<1>1. \A m \in Message : m \in upTo <=> InWindow(m)
  BY WindowIs
<1> HIDE DEF upTo
<1>2. CASE call = "ic2"
  <2>1. WantedRows = {r \in {<<world.date[m], m, k>> : m \in upTo, k \in {1, 2}} :
                    r[3] <= TimesFriend(world.author[r[2]])}
    BY <1>2 DEF WantedRows, Rows, upTo
  <2>2. upTo \subseteq Message
    BY DEF upTo
  <2>3. ASSUME NEW r \in WantedRows
        PROVE  \E m \in Message : \E k \in Asked(world.author[m]) :
                 InWindow(m) /\ r = <<world.date[m], m, k>>
    <3>1. PICK m \in upTo, k \in {1, 2} : r = <<world.date[m], m, k>>
      BY <2>1, <2>3
    <3>2. k <= TimesFriend(world.author[m])
      BY <2>1, <2>3, <3>1
    <3> QED
      BY <1>1, <1>2, <2>2, <3>1, <3>2 DEF Asked
  <2>4. ASSUME NEW m \in Message, NEW k \in Asked(world.author[m]), InWindow(m)
        PROVE  <<world.date[m], m, k>> \in WantedRows
    BY <1>1, <1>2, <2>1, <2>4 DEF Asked
  <2> QED
    BY <2>3, <2>4
<1>3. CASE call = "ic9"
  <2>1. WantedRows = {<<world.date[m], m, k>> : m \in {n \in upTo : world.author[n] \in Near}, k \in {1}}
    BY <1>3 DEF WantedRows, Rows, upTo
  <2>2. upTo \subseteq Message
    BY DEF upTo
  <2>3. ASSUME NEW r \in WantedRows
        PROVE  \E m \in Message : \E k \in Asked(world.author[m]) :
                 InWindow(m) /\ r = <<world.date[m], m, k>>
    BY <1>1, <1>3, <2>1, <2>2, <2>3 DEF Asked
  <2>4. ASSUME NEW m \in Message, NEW k \in Asked(world.author[m]), InWindow(m)
        PROVE  <<world.date[m], m, k>> \in WantedRows
    BY <1>1, <1>3, <2>1, <2>4 DEF Asked
  <2> QED
    BY <2>3, <2>4
<1> QED
  BY <1>2, <1>3

LEMMA WantedOthers ==
  /\ call = "is2" =>
       WantedRows = {<<world.date[m], m, 0>> : m \in {n \in Message : world.author[n] = root}}
  /\ call = "ic8" =>
       WantedRows = {<<world.date[c], c, 0>> :
                   c \in {d \in Comment : \E m \in Message : /\ world.replyOf[d] = m
                                                             /\ world.author[m] = root}}
  /\ call = "ic11" =>
       WantedRows = {<<j[3], j[1], j[2]>> :
                   j \in {k \in world.jobs : /\ k[1] \in Near
                                             /\ k[2] \in world.companies
                                             /\ k[3] < limit}}
<1>1. ASSUME NEW M PROVE Rows(M, {0}) = {<<world.date[m], m, 0>> : m \in M}
  BY DEF Rows
<1>2. CASE call = "is2"
  BY <1>1, <1>2 DEF WantedRows
<1>3. CASE call = "ic8"
  BY <1>1, <1>3 DEF WantedRows
<1>4. CASE call = "ic11"
  BY <1>4 DEF WantedRows
<1> QED
  BY <1>2, <1>3, <1>4

LEMMA MarkedAreNear ==
  ASSUME WalkInv, helper = "mark", pc = "done"
  PROVE  seen = Near
BY NearIs DEF WalkInv, DoneInv

(* Nothing is offered that is not asked for.                                *)
LEMMA ListWanted ==
  ASSUME BelowMaximum, ScanTypes, NEW l \in lists
  PROVE  RowsOf(l) \subseteq WantedRows
<1>1. CallTypeOK /\ WalkOf /\ ListsOf /\ WalkInv
  BY DEF ScanTypes
<1>2. CASE call \in {"ic2", "ic9"}
  <2>1. l[2] \in Person /\ calls[l[2]] > 0
    BY <1>1, <1>2 DEF ListsOf
  <2>2. calls[l[2]] \in Asked(l[2])
    BY <1>2, <2>1, AskedFacts
  <2>3. \A m \in MessagesOf(l[1], l[2]) : m \in Message /\ world.author[m] = l[2]
    BY DEF MessagesOf, Message
  <2> QED
    BY <1>2, <2>2, <2>3, RowsOfEach, WantedMessages
<1>3. CASE call = "is2"
  <2>1. l[2] = root
    BY <1>1, <1>3 DEF ListsOf
  <2>2. \A m \in MessagesOf(l[1], root) : m \in {n \in Message : world.author[n] = root}
    BY DEF MessagesOf, Message
  <2> QED
    BY <1>3, <2>1, <2>2, RowsOfEach, WantedOthers
<1>4. CASE call = "ic8"
  <2>1. l[2] \in Message /\ world.author[l[2]] = root
    BY <1>1, <1>4 DEF ListsOf, MessagesOf, Message
  <2> QED
    BY <1>4, <2>1, RowsOfEach, WantedOthers
<1>5. CASE call = "ic11"
  <2>1. l[2] \in world.companies /\ pc = "done"
    BY <1>1, <1>5 DEF ListsOf
  <2>2. seen = Near
    BY <1>1, <1>5, <2>1, MarkedAreNear DEF WalkOf
  <2> QED
    BY <1>5, <2>1, <2>2, RowsOfEach, WantedOthers
<1> QED
  BY <1>1, <1>2, <1>3, <1>4, <1>5 DEF CallTypeOK

(* No row is in two lists.                                                  *)
LEMMA ListsApart ==
  ASSUME ScanTypes, NEW l \in lists, NEW k \in lists, NEW r \in RowsOf(l), r \in RowsOf(k)
  PROVE  l = k
<1>1. CallTypeOK /\ ListsOf
  BY DEF ScanTypes
<1>2. \A m \in Message : \A a, b : \A u, v :
        m \in MessagesOf(a, u) /\ m \in MessagesOf(b, v)
        /\ a \in MessageList /\ b \in MessageList => a = b /\ u = v
  BY NumbersAssumption DEF MessagesOf, MessageList
<1>3. CASE call \in {"ic2", "ic9", "is2"}
  <2>1. l = <<l[1], l[2]>> /\ k = <<k[1], k[2]>> /\ l[1] \in MessageList /\ k[1] \in MessageList
    BY <1>1, <1>3 DEF ListsOf
  <2>2. r[2] \in MessagesOf(l[1], l[2]) /\ r[2] \in MessagesOf(k[1], k[2])
    BY <1>3, RowsOfEach
  <2> QED
    BY <1>2, <2>1, <2>2, MessagesOfType
<1>4. CASE call = "ic8"
  <2>1. l = <<l[1], l[2]>> /\ k = <<k[1], k[2]>> /\ l[1] \in MessageList /\ k[1] \in MessageList
        /\ l[2] \in MessagesOf(l[1], root) /\ k[2] \in MessagesOf(k[1], root)
    BY <1>1, <1>4 DEF ListsOf
  <2>2. l[2] = world.replyOf[r[2]] /\ k[2] = world.replyOf[r[2]]
    BY <1>4, RowsOfEach
  <2> QED
    BY <1>2, <2>1, <2>2, MessagesOfType
<1>5. CASE call = "ic11"
  <2>1. l = <<l[1], l[2]>> /\ k = <<k[1], k[2]>> /\ l[1] = k[1]
    BY <1>1, <1>5 DEF ListsOf
  <2>2. l[2] = r[3] /\ k[2] = r[3]
    BY <1>5, RowsOfEach
  <2> QED
    BY <2>1, <2>2
<1> QED
  BY <1>1, <1>3, <1>4, <1>5 DEF CallTypeOK

(* A row of a list that waits is not met again in a later call.             *)
LEMMA ListedNow ==
  ASSUME ScanTypes, NEW l \in lists, NEW r \in RowsOf(l)
  PROVE  /\ call \in {"ic2", "ic9"} => ~ r[3] > calls[world.author[r[2]]]
         /\ call = "ic11" => pc = "done"
<1>1. CallTypeOK /\ ListsOf
  BY DEF ScanTypes
<1>2. CASE call \in {"ic2", "ic9"}
  <2>1. l[2] \in Person /\ calls[l[2]] \in Nat
    BY <1>1, <1>2 DEF ListsOf, CallTypeOK, TypeOK
  <2>2. r[3] = calls[l[2]] /\ r[2] \in MessagesOf(l[1], l[2])
    BY <1>2, RowsOfEach
  <2>3. world.author[r[2]] = l[2]
    BY <2>2 DEF MessagesOf
  <2> QED
    BY <1>2, <2>1, <2>2, <2>3
<1>3. CASE call = "ic11"
  BY <1>1, <1>3 DEF ListsOf
<1> QED
  BY <1>2, <1>3

LEMMA WantedTyped ==
  ASSUME BelowMaximum, ScanTypes
  PROVE  WantedRows \subseteq Row
<1>1. CallTypeOK
  BY DEF ScanTypes
<1>2. 0 \in 0..2 /\ {1, 2} \subseteq 0..2
  OBVIOUS
<1>3. CASE call \in {"ic2", "ic9"}
  <2>1. ASSUME NEW m \in Message, NEW k \in Asked(world.author[m])
        PROVE  <<world.date[m], m, k>> \in Row
    <3>1. world.author[m] \in Person
      BY <1>1, WorldFacts
    <3>2. k \in 0..2
      BY <1>2, <1>3, <3>1, AskedFacts
    <3> QED
      BY <1>1, <3>2, WorldFacts
  <2> QED
    BY <1>3, <2>1, WantedMessages
<1>4. CASE call \in {"is2", "ic8"}
  <2>1. \A m \in Message : <<world.date[m], m, 0>> \in Row
    BY <1>1, <1>2, WorldFacts
  <2> QED
    BY <1>4, <2>1, WantedOthers DEF Message
<1>5. CASE call = "ic11"
  <2>1. \A j \in world.jobs : <<j[3], j[1], j[2]>> \in Row
    BY <1>1, WorldFacts
  <2> QED
    BY <1>5, <2>1, WantedOthers
<1> QED
  BY <1>1, <1>3, <1>4, <1>5 DEF CallTypeOK

(* When the call begins all the rows are still to come.                     *)
LEMMA InitRemaining ==
  ASSUME BelowMaximum, ScanTypes, CallInit
  PROVE  /\ RowInv
         /\ Remaining = WantedRows
<1>1. CallTypeOK /\ unread = {}
  BY DEF ScanTypes, CallInit
<1>2. ASSUME NEW r \in WantedRows PROVE Ahead(r)
  <2>1. CASE call \in {"ic2", "ic9"}
    <3>1. \A v \in Person : calls[v] = 0
      BY <2>1 DEF CallInit, Begin, Init
    <3>2. PICK m \in Message : \E k \in Asked(world.author[m]) : r = <<world.date[m], m, k>>
      BY <2>1, WantedMessages
    <3>3. world.author[m] \in Person
      BY <1>1, WorldFacts
    <3>4. r[2] = m /\ r[3] \in {1, 2}
      BY <2>1, <3>2, <3>3, AskedFacts
    <3> QED
      BY <2>1, <3>1, <3>3, <3>4 DEF Ahead
  <2>2. CASE call = "is2"
    <3>1. PICK m \in Message : world.author[m] = root /\ r = <<world.date[m], m, 0>>
      BY <2>2, WantedOthers
    <3>2. PICK k \in MessageList : m \in MessagesOf(k, root)
      BY <3>1 DEF MessageList, MessagesOf, Message
    <3>3. <<k, root>> \in lists /\ <<k, root>>[1] = k /\ <<k, root>>[2] = root
      BY <2>2, <3>2 DEF CallInit, Begin
    <3>4. r \in RowsOf(<<k, root>>)
      BY <2>2, <3>1, <3>2, <3>3, RowsOfEach
    <3> QED
      BY <3>3, <3>4 DEF Ahead
  <2>3. CASE call = "ic8"
    <3>1. PICK c \in Comment : /\ \E m \in Message : world.replyOf[c] = m /\ world.author[m] = root
                               /\ r = <<world.date[c], c, 0>>
      BY <2>3, WantedOthers
    <3>2. PICK m \in Message : world.replyOf[c] = m /\ world.author[m] = root
      BY <3>1
    <3>3. PICK k \in MessageList : m \in MessagesOf(k, root)
      BY <3>2 DEF MessageList, MessagesOf, Message
    <3>4. <<k, m>> \in lists /\ <<k, m>>[2] = m
      BY <2>3, <3>3 DEF CallInit, Begin
    <3>5. r \in RowsOf(<<k, m>>)
      BY <2>3, <3>1, <3>2, <3>4, RowsOfEach
    <3> QED
      BY <3>4, <3>5 DEF Ahead
  <2>4. CASE call = "ic11"
    BY <2>4 DEF CallInit, Begin, Init, Ahead
  <2> QED
    BY <1>1, <2>1, <2>2, <2>3, <2>4 DEF CallTypeOK
<1> QED
  BY <1>1, <1>2, RemainingIs DEF RowInv

LEMMA SameWanted ==
  ASSUME UNCHANGED <<call, world, limit, knows, root>>
  PROVE  WantedRows' = WantedRows
BY DEF WantedRows, Rows, Near, TimesFriend

LEMMA SameRows ==
  ASSUME UNCHANGED <<OfCall, OfWalk>>
  PROVE  /\ \A l : RowsOf(l)' = RowsOf(l)
         /\ WantedRows' = WantedRows
<1>1. UNCHANGED <<call, world, limit, knows, root, calls, seen>>
  BY DEF OfCall, OfWalk
<1>2. \A l : RowsOf(l)' = RowsOf(l)
  BY <1>1 DEF RowsOf, MessagesOf, InWindow, Threshold
<1> QED
  BY <1>1, <1>2, SameWanted

(* While the walk goes on, whoever it calls for moves from the persons to   *)
(* be called for to the lists.                                              *)
LEMMA WalkOnRows ==
  ASSUME BelowMaximum, ScanTypes, WalkOn, ScanTypes'
  PROVE  /\ RowInv'
         /\ Remaining' = Remaining /\ WantedRows' = WantedRows
<1>1. /\ CallTypeOK /\ TypeOK /\ WalkInv /\ WalkOf /\ Next /\ UNCHANGED OfCall
      /\ lists = {} /\ unread = {} /\ unread' = {}
  BY DEF ScanTypes, WalkOn, CallTypeOK
<1>2. /\ pc # "done" /\ helper' = helper /\ root' = root /\ knows' = knows
      /\ \A v \in Person : calls'[v] \in {calls[v], calls[v] + 1} /\ calls[v] \in Nat
  BY <1>1, WalkCalls DEF TypeOK
<1>3. /\ WantedRows' = WantedRows /\ Near' = Near
      /\ UNCHANGED <<call, world, limit>>
  BY <1>1, <1>2, SameWanted DEF OfCall, Near
<1>4. ASSUME NEW r \in WantedRows PROVE Ahead(r) <=> Ahead(r)'
  <2>1. CASE call \in {"ic2", "ic9"}
    <3>0. PICK m \in Message : \E k \in Asked(world.author[m]) :
                                InWindow(m) /\ r = <<world.date[m], m, k>>
      BY <2>1, WantedMessages
    <3>1. PICK k \in Asked(world.author[m]) : InWindow(m) /\ r = <<world.date[m], m, k>>
      BY <3>0
    <3> DEFINE v == world.author[m]
    <3>2. v \in Person /\ r[2] = m /\ r[3] = k
      BY <1>1, <3>1, WorldFacts
    <3>3. k \in Nat /\ calls[v] \in Nat /\ calls'[v] \in {calls[v], calls[v] + 1}
      BY <1>2, <2>1, <3>2, AskedFacts
    <3>4. lists' = MessageList \X {u \in Person : calls'[u] > calls[u]}
      BY <2>1 DEF WalkOn
    <3>5. ASSUME NEW l
          PROVE  RowsOf(l)' = MessageRows(l, calls'[l[2]])
      BY <1>3, <2>1 DEF RowsOf, MessageRows, MessagesOf, InWindow, Threshold
    <3>6. ASSUME NEW l \in lists', r \in RowsOf(l)'
          PROVE  k > calls[v]
      <4>1. l[2] \in Person /\ calls'[l[2]] > calls[l[2]]
        BY <3>4
      <4>2. m \in MessagesOf(l[1], l[2]) /\ k = calls'[l[2]]
        BY <3>1, <3>5, <3>6 DEF MessageRows
      <4>3. v = l[2]
        BY <4>2 DEF MessagesOf
      <4> QED
        BY <4>1, <4>2, <4>3
    <3>7. ASSUME k > calls[v], ~ k > calls'[v]
          PROVE  \E l \in lists' : r \in RowsOf(l)'
      <4>1. calls'[v] > calls[v] /\ k = calls'[v]
        BY <3>3, <3>7
      <4>2. PICK b \in MessageList : m \in MessagesOf(b, v)
        BY DEF MessageList, MessagesOf, Message
      <4>3. <<b, v>> \in lists' /\ <<b, v>>[1] = b /\ <<b, v>>[2] = v
        BY <3>2, <3>4, <4>1
      <4>4. r \in MessageRows(<<b, v>>, calls'[v])
        BY <3>1, <4>1, <4>2, <4>3 DEF MessageRows
      <4> QED
        BY <3>5, <4>3, <4>4
    <3>8. Ahead(r) <=> k > calls[v]
      BY <1>1, <2>1, <3>2 DEF Ahead
    <3>9. Ahead(r)' <=> (\E l \in lists' : r \in RowsOf(l)') \/ k > calls'[v]
      BY <1>3, <2>1, <3>2 DEF Ahead
    <3>10. k > calls'[v] => k > calls[v]
      BY <3>3
    <3> QED
      BY <3>6, <3>7, <3>8, <3>9, <3>10
  <2>2. CASE call = "ic11"
    <3>1. Ahead(r)
      BY <1>2, <2>2 DEF Ahead
    <3>2. CASE pc' # "done"
      BY <1>3, <2>2, <3>1, <3>2 DEF Ahead
    <3>3. CASE pc' = "done"
      <4>1. PICK j \in world.jobs : /\ j[1] \in Near /\ j[2] \in world.companies /\ j[3] < limit
                                    /\ r = <<j[3], j[1], j[2]>>
        BY <2>2, WantedOthers
      <4>2. seen' = Near'
        <5>1. helper' = "mark" /\ WalkInv'
          BY <1>1, <1>2, <2>2 DEF WalkOf, ScanTypes
        <5>2. TypeOK' /\ DoneInv'
          BY <3>3, <5>1 DEF WalkInv
        <5>3. seen' = (Friends' \cup FriendsOfFriends') \ {root'}
          BY <5>1, <5>2 DEF DoneInv
        <5>4. Friends' = Friends /\ FriendsOfFriends' = FriendsOfFriends
          BY <1>2 DEF Friends, FriendsOfFriends
        <5> QED
          BY <1>1, <1>2, <1>3, <5>3, <5>4, NearIs
      <4>3. lists' = {l \in {"company"} \X world.companies : pc' = "done"}
        BY <2>2 DEF WalkOn
      <4>4. <<"company", j[2]>> \in lists' /\ <<"company", j[2]>>[2] = j[2]
        BY <3>3, <4>1, <4>3
      <4>5. RowsOf(<<"company", j[2]>>)' =
              {<<i[3], i[1], j[2]>> :
                 i \in {k \in world.jobs : k[2] = j[2] /\ k[3] < limit /\ k[1] \in seen'}}
        BY <1>3, <2>2, <4>4 DEF RowsOf
      <4>6. r \in RowsOf(<<"company", j[2]>>)'
        BY <1>3, <4>1, <4>2, <4>5
      <4>7. Ahead(r)'
        BY <4>4, <4>6 DEF Ahead
      <4> QED
        BY <3>1, <4>7
    <3> QED
      BY <3>1, <3>2, <3>3
  <2> QED
    BY <1>1, <1>2, <2>1, <2>2 DEF CallTypeOK, WalkOf
<1>5. Remaining = {r \in WantedRows : Ahead(r)}
  BY <1>1, RemainingIs
<1>6. Remaining' = {r \in WantedRows' : Ahead(r)'}
  BY <1>1 DEF Remaining, Ahead
<1>7. RowInv'
  BY <1>1 DEF RowInv
<1> QED
  BY <1>3, <1>4, <1>5, <1>6, <1>7

LEMMA OpenRows ==
  ASSUME BelowMaximum, ScanTypes, NEW l \in lists, OpenList(l)
  PROVE  /\ RowInv'
         /\ Remaining' = Remaining /\ WantedRows' = WantedRows
<1>1. /\ unread = {} /\ lists' = lists \ {l} /\ unread' = RowsOf(l)
      /\ UNCHANGED <<OfCall, OfWalk>>
  BY DEF OpenList
<1>2. /\ \A k : RowsOf(k)' = RowsOf(k)
      /\ WantedRows' = WantedRows
  BY <1>1, SameRows
<1>3. UNCHANGED <<call, calls, world, pc>>
  BY <1>1 DEF OfCall, OfWalk
<1>4. ASSUME NEW r PROVE r \in RowsOf(l) \/ Ahead(r)' <=> Ahead(r)
  BY <1>1, <1>2, <1>3 DEF Ahead
<1>5. Remaining' = Remaining
  <2>1. Remaining' = {r \in WantedRows' : r \in unread' \/ Ahead(r)'}
    BY DEF Remaining, Ahead
  <2> QED
    BY <1>1, <1>2, <1>4, <2>1, RemainingIs
<1>6. ASSUME NEW r \in RowsOf(l) PROVE ~ Ahead(r)'
  <2>1. \A k \in lists' : r \notin RowsOf(k)'
    BY <1>1, <1>2, ListsApart
  <2>2. /\ call \in {"ic2", "ic9"} => ~ r[3] > calls[world.author[r[2]]]
        /\ call = "ic11" => pc = "done"
    BY ListedNow
  <2> QED
    BY <1>3, <2>1, <2>2 DEF Ahead
<1>7. RowInv'
  BY <1>1, <1>2, <1>6, ListWanted DEF RowInv
<1> QED
  BY <1>2, <1>5, <1>7

(* Whatever is done to the heap, the rows that wait are the same.           *)
LEMMA HeapRows ==
  ASSUME RowInv, UNCHANGED <<OfCall, OfWalk, lists>>, unread' \subseteq unread
  PROVE  /\ RowInv'
         /\ WantedRows' = WantedRows
         /\ Remaining' = Remaining \ (unread \ unread')
<1>1. /\ \A k : RowsOf(k)' = RowsOf(k)
      /\ WantedRows' = WantedRows
  BY SameRows
<1>2. UNCHANGED <<call, calls, world, pc>>
  BY DEF OfCall, OfWalk
<1>3. ASSUME NEW r PROVE Ahead(r)' <=> Ahead(r)
  BY <1>1, <1>2 DEF Ahead
<1>4. RowInv'
  BY <1>1, <1>3 DEF RowInv
<1>5. Remaining' = {r \in WantedRows' : r \in unread' \/ Ahead(r)'}
  BY DEF Remaining, Ahead
<1>6. Remaining' = Remaining \ (unread \ unread')
  BY <1>1, <1>3, <1>5, RemainingIs DEF RowInv
<1> QED
  BY <1>1, <1>4, <1>6

(* The two instances of TopN are of the same orders.                        *)
LEMMA SameHeap ==
  /\ \A H : Heap!LastOf(H) = Sorted!LastOf(H)
  /\ \A r, w : Heap!Admits(r, w) <=> Sorted!Admits(r, w)
  /\ Heap!Full <=> Sorted!Full
  /\ Heap!CopyFloor <=> Sorted!CopyFloor
  /\ \A w : Heap!IsTop(w) <=> Sorted!IsTop(w)
<1>1. ASSUME NEW o, NEW r, NEW t PROVE Heap!Precedes(o, r, t) <=> Sorted!Precedes(o, r, t)
  BY DEF Heap!Precedes, Sorted!Precedes, Heap!Less, Sorted!Less
<1>2. ASSUME NEW H PROVE Heap!LastOf(H) = Sorted!LastOf(H)
  BY <1>1 DEF Heap!LastOf, Sorted!LastOf
<1>3. ASSUME NEW r, NEW w PROVE Heap!Admits(r, w) <=> Sorted!Admits(r, w)
  BY <1>1 DEF Heap!Admits, Sorted!Admits
<1>4. Heap!Full <=> Sorted!Full
  BY SameCount DEF Heap!Full, Sorted!Full
<1>5. Heap!CopyFloor <=> Sorted!CopyFloor
  BY <1>2, SameCount DEF Heap!CopyFloor, Sorted!CopyFloor
<1>6. ASSUME NEW w PROVE Heap!IsTop(w) <=> Sorted!IsTop(w)
  BY <1>2 DEF Heap!IsTop, Sorted!IsTop
<1> QED
  BY <1>2, <1>3, <1>4, <1>5, <1>6

LEMMA OfferRows ==
  ASSUME BelowMaximum, ScanTypes, RowInv, NEW r \in unread, Offer(r)
  PROVE  RowInv' /\ Sorted!Next
<1>1. /\ UNCHANGED <<OfCall, OfWalk, lists>> /\ query' = query /\ results' = results
      /\ unread' = unread \ {r}
  BY DEF Offer, Heap!Push, Heap!Replace, Heap!Drop
<1>2. /\ RowInv' /\ WantedRows' = WantedRows
      /\ Remaining' = Remaining \ {r}
  BY <1>1, HeapRows
<1>3. r \in Remaining /\ r \in Row /\ heap \subseteq Row
  BY RemainingIs DEF RowInv, ScanTypes, CallTypeOK
<1>4. CASE Heap!Push(r)
  <2>1. Sorted!Push(r)
    BY <1>1, <1>2, <1>3, <1>4, SameHeap, SameCount DEF Heap!Push, Sorted!Push
  <2> QED
    BY <1>2, <1>3, <2>1 DEF Sorted!Next
<1>5. ASSUME NEW w \in heap, Heap!Replace(r, w) PROVE Sorted!Next
  <2>1. Sorted!Replace(r, w)
    BY <1>1, <1>2, <1>3, <1>5, SameHeap DEF Heap!Replace, Sorted!Replace
  <2> QED
    BY <1>3, <2>1 DEF Sorted!Next
<1>6. ASSUME NEW w \in heap, Heap!Drop(r, w) PROVE Sorted!Next
  <2>1. Sorted!Drop(r, w)
    BY <1>1, <1>2, <1>3, <1>6, SameHeap DEF Heap!Drop, Sorted!Drop
  <2> QED
    BY <1>3, <2>1 DEF Sorted!Next
<1> QED
  BY <1>2, <1>4, <1>5, <1>6 DEF Offer

(* The output does not begin before every row was offered.                  *)
LEMMA ScannedAll ==
  ASSUME BelowMaximum, ScanTypes, Scanned
  PROVE  Remaining = {}
<1>1. CallTypeOK /\ pc = "done" /\ unread = {} /\ lists = {}
  BY DEF ScanTypes, Scanned
<1>2. ASSUME NEW r \in WantedRows, Ahead(r) PROVE FALSE
  <2>1. call \in {"ic2", "ic9"} /\ r[3] > calls[world.author[r[2]]]
    BY <1>1, <1>2 DEF Ahead
  <2>2. PICK m \in Message : \E k \in Asked(world.author[m]) : r = <<world.date[m], m, k>>
    BY <2>1, WantedMessages
  <2>3. world.author[m] \in Person
    BY <1>1, WorldFacts
  <2>4. /\ calls[world.author[m]] \in Nat /\ Asked(world.author[m]) \subseteq {1, 2}
        /\ \A k \in Asked(world.author[m]) : k <= calls[world.author[m]]
    BY <1>1, <2>1, <2>3, AskedFacts
  <2> QED
    BY <2>1, <2>2, <2>4
<1> QED
  BY <1>1, <1>2, RemainingIs

LEMMA OutputRows ==
  ASSUME BelowMaximum, ScanTypes, RowInv, NEW w \in heap, Output(w)
  PROVE  RowInv' /\ Sorted!Next
<1>1. /\ UNCHANGED <<OfCall, OfWalk, lists>> /\ unread' = unread /\ query' = query /\ floor' = floor
      /\ Heap!Output(w) /\ Scanned
  BY DEF Output, Heap!Output
<1>2. RowInv' /\ WantedRows' = WantedRows /\ Remaining' = Remaining
  BY <1>1, HeapRows
<1>3. Remaining = {} /\ w \in Row
  BY <1>1, ScannedAll DEF ScanTypes, CallTypeOK
<1>4. Sorted!Output(w)
  BY <1>1, <1>2, <1>3, SameHeap DEF Heap!Output, Sorted!Output
<1> QED
  BY <1>2, <1>3, <1>4 DEF Sorted!Next

(* Every step of a call is a step of the heap over the rows asked for, or   *)
(* changes nothing of it.                                                   *)
LEMMA StepRefines ==
  ASSUME BelowMaximum, ScanTypes, RowInv, [CallNext]_callVars, ScanTypes'
  PROVE  RowInv' /\ [Sorted!Next]_(Sorted!vars)
<1>1. ASSUME UNCHANGED <<query, heap, floor, results>>, WantedRows' = WantedRows, Remaining' = Remaining
      PROVE  UNCHANGED Sorted!vars
  BY <1>1 DEF Sorted!vars
<1>2. ASSUME Find \/ Return \/ UNCHANGED callVars PROVE RowInv' /\ UNCHANGED Sorted!vars
  <2>1. UNCHANGED <<OfCall, OfWalk, lists, unread, query, heap, floor, results>>
    BY <1>2 DEF Find, Return, callVars
  <2> QED
    BY <1>1, <2>1, HeapRows
<1>3. ASSUME WalkOn PROVE RowInv' /\ UNCHANGED Sorted!vars
  <2>1. UNCHANGED <<query, heap, floor, results>>
    BY <1>3 DEF WalkOn
  <2> QED
    BY <1>1, <1>3, <2>1, WalkOnRows
<1>4. ASSUME NEW l \in lists, OpenList(l) PROVE RowInv' /\ UNCHANGED Sorted!vars
  <2>1. UNCHANGED <<query, heap, floor, results>>
    BY <1>4 DEF OpenList
  <2> QED
    BY <1>1, <1>4, <2>1, OpenRows
<1> QED
  BY <1>2, <1>3, <1>4, OfferRows, OutputRows DEF CallNext

LEMMA InitRefines ==
  ASSUME BelowMaximum, CallInit
  PROVE  RowInv /\ Sorted!Init
<1>1. ScanTypes
  BY InitTypes
<1>2. RowInv /\ Remaining = WantedRows /\ WantedRows \subseteq Row
  BY <1>1, InitRemaining, WantedTyped
<1>3. query \in Queries
  BY <1>1 DEF ScanTypes, CallTypeOK
<1> QED
  BY <1>2, <1>3 DEF CallInit, Sorted!Init

(* Whatever the walk does and in whatever order the lists are stored, the   *)
(* heap of the call is offered every row the query asks for, and each once, *)
(* before it is emptied: a call is a run of TopN over these rows.           *)
THEOREM OffersWanted ==
  ASSUME BelowMaximum
  PROVE  CallSpec => OffersTheWanted
<1>1. CallInit => ScanTypes /\ RowInv /\ Sorted!Init
  BY InitTypes, InitRefines
<1>2. ScanTypes /\ RowInv /\ [CallNext]_callVars => ScanTypes' /\ RowInv' /\ [Sorted!Next]_(Sorted!vars)
  BY TypesStep, StepRefines
<1> QED
  BY <1>1, <1>2, PTL DEF CallSpec, OffersTheWanted, Sorted!Spec

------------------------------------------------------------------------------
(****************************************************************************)
(* What a call returns: by the proofs about TopN, taken with the rows it is *)
(* asked for.                                                               *)
(****************************************************************************)
Ranked == INSTANCE TopNProofs WITH rows <- WantedRows, rest <- Remaining

(* The assumptions of TopN are true of this instance.                       *)
LEMMA HeapData ==
  /\ Row \subseteq Nat \X Nat \X Nat
  /\ kTopN \in Nat \ {0}
  /\ Queries \subseteq {Ranked!IC2, Ranked!IC3, Ranked!IC4, Ranked!IC6, Ranked!IC7, Ranked!IC8,
                        Ranked!IC9, Ranked!IC10, Ranked!IC11, Ranked!IC12, Ranked!IS2}
<1>1. /\ Heap!IC2 = Ranked!IC2 /\ Heap!IC8 = Ranked!IC8 /\ Heap!IC9 = Ranked!IC9
      /\ Heap!IC11 = Ranked!IC11 /\ Heap!IS2 = Ranked!IS2
  BY DEF Heap!IC2, Ranked!IC2, Heap!IC8, Ranked!IC8, Heap!IC9, Ranked!IC9, Heap!IC11, Ranked!IC11,
         Heap!IS2, Ranked!IS2, Heap!Heap, Ranked!Heap, Heap!ByKeyThenId, Ranked!ByKeyThenId
<1> QED
  BY <1>1, HeapAssumption, RowsAssumption

(* Three of the five queries admit a row as their comparer orders it.       *)
LEMMA SoundCalls == {Heap!IC2, Heap!IC9, Heap!IC11} \subseteq Ranked!Sound
BY HeapAssumption
   DEF Ranked!Sound, Heap!IC2, Heap!IC9, Heap!IC11, Heap!Heap, Heap!ByKeyThenId, Ranked!ByKeyThenId

LEMMA SameSteps ==
  ASSUME [Sorted!Next]_(Sorted!vars)
  PROVE  [Ranked!Next]_(Ranked!vars)
<1>1. ASSUME NEW o, NEW r, NEW t PROVE Sorted!Precedes(o, r, t) <=> Ranked!Precedes(o, r, t)
  BY DEF Sorted!Precedes, Ranked!Precedes, Sorted!Less, Ranked!Less
<1>2. ASSUME NEW H PROVE Sorted!LastOf(H) = Ranked!LastOf(H)
  BY <1>1 DEF Sorted!LastOf, Ranked!LastOf
<1>3. ASSUME NEW r, NEW w PROVE Sorted!Admits(r, w) <=> Ranked!Admits(r, w)
  BY <1>1 DEF Sorted!Admits, Ranked!Admits
<1>4. ASSUME NEW H PROVE Sorted!Cardinality(H) = Ranked!Cardinality(H)
  BY DEF Sorted!Cardinality, Ranked!Cardinality
<1>5. Sorted!CopyFloor <=> Ranked!CopyFloor
  BY <1>2, <1>4 DEF Sorted!CopyFloor, Ranked!CopyFloor
<1>6. ASSUME NEW w PROVE Sorted!IsTop(w) <=> Ranked!IsTop(w)
  BY <1>2 DEF Sorted!IsTop, Ranked!IsTop
<1>7. Sorted!Full <=> Ranked!Full
  BY <1>4 DEF Sorted!Full, Ranked!Full
<1>8. ASSUME NEW r, Sorted!Push(r) PROVE Ranked!Push(r)
  BY <1>4, <1>5, <1>8 DEF Sorted!Push, Ranked!Push
<1>9. ASSUME NEW r, NEW w, Sorted!Replace(r, w) PROVE Ranked!Replace(r, w)
  BY <1>3, <1>5, <1>6, <1>7, <1>9 DEF Sorted!Replace, Ranked!Replace
<1>10. ASSUME NEW r, NEW w, Sorted!Drop(r, w) PROVE Ranked!Drop(r, w)
  BY <1>3, <1>6, <1>7, <1>10 DEF Sorted!Drop, Ranked!Drop
<1>11. ASSUME NEW w, Sorted!Output(w) PROVE Ranked!Output(w)
  BY <1>6, <1>11 DEF Sorted!Output, Ranked!Output
<1>12. UNCHANGED Sorted!vars => UNCHANGED Ranked!vars
  BY DEF Sorted!vars, Ranked!vars
<1> QED
  BY <1>8, <1>9, <1>10, <1>11, <1>12 DEF Sorted!Next, Ranked!Next

QueryOf ==
  /\ call = "ic2" => query = Heap!IC2
  /\ call = "ic9" => query = Heap!IC9
  /\ call = "ic11" => query = Heap!IC11

Returned == phase = "done" /\ known => Scanned /\ heap = {}

RankInv ==
  /\ QueryOf
  /\ Returned
  /\ query \in Ranked!Sound => Ranked!IInv

LEMMA InitRanks ==
  ASSUME CallInit, Sorted!Init
  PROVE  RankInv
<1>1. QueryOf /\ Returned
  BY DEF CallInit, Begin, QueryOf, Returned
<1>2. Ranked!Init
  BY DEF Sorted!Init, Ranked!Init
<1> QED
  BY <1>1, <1>2, HeapData, Ranked!InitIInv DEF RankInv

LEMMA RanksStep ==
  ASSUME RankInv, [CallNext]_callVars, [Sorted!Next]_(Sorted!vars)
  PROVE  RankInv'
<1>1. query' = query /\ call' = call /\ known' = known
  BY DEF CallNext, Find, WalkOn, OpenList, Offer, Output, Return, callVars, OfCall,
         Heap!Push, Heap!Replace, Heap!Drop, Heap!Output
<1>2. QueryOf'
  BY <1>1 DEF RankInv, QueryOf
<1>3. Returned'
  <2>1. CASE Find
    BY <2>1 DEF Find, Returned, OfCall
  <2>2. CASE Return
    BY <2>2 DEF Return, Returned, Scanned, OfWalk
  <2>3. CASE UNCHANGED callVars
    BY <2>3 DEF callVars, OfCall, OfWalk, RankInv, Returned, Scanned
  <2>4. CASE WalkOn \/ (\E l \in lists : OpenList(l)) \/ (\E r \in unread : Offer(r))
             \/ (\E w \in heap : Output(w))
    <3>1. phase' = "scan"
      BY <2>4 DEF WalkOn, OpenList, Offer, Output
    <3> QED
      BY <3>1 DEF Returned
  <2> QED
    BY <2>1, <2>2, <2>3, <2>4 DEF CallNext
<1>4. [Ranked!Next]_(Ranked!vars)
  BY SameSteps
<1>5. query \in Ranked!Sound => Ranked!IInv'
  BY <1>4, HeapData, Ranked!NextIInv DEF RankInv
<1> QED
  BY <1>1, <1>2, <1>3, <1>5 DEF RankInv

LEMMA RanksShow ==
  ASSUME BelowMaximum, ScanTypes, RankInv
  PROVE  ReturnsTheFirst
<1> SUFFICES ASSUME phase = "done", known, call \in {"ic2", "ic9", "ic11"}
             PROVE  /\ Sorted!AreFirst({results[i] : i \in DOMAIN results}, WantedRows)
                    /\ \A i, j \in DOMAIN results :
                         i < j => ~ Sorted!Precedes(query.comparer, results[j], results[i])
  BY DEF ReturnsTheFirst
<1>1. Remaining = {} /\ heap = {} /\ Ranked!IInv
  BY ScannedAll, SoundCalls DEF RankInv, Returned, QueryOf
<1>2. Ranked!Kept = {results[i] : i \in DOMAIN results} /\ Ranked!Offered = WantedRows
  BY <1>1 DEF Ranked!Kept, Ranked!Returned, Ranked!Offered
<1>3. ASSUME NEW o, NEW r, NEW t PROVE Sorted!Precedes(o, r, t) <=> Ranked!Precedes(o, r, t)
  BY DEF Sorted!Precedes, Ranked!Precedes, Sorted!Less, Ranked!Less
<1>4. ASSUME NEW H PROVE Sorted!Cardinality(H) = Ranked!Cardinality(H)
  BY DEF Sorted!Cardinality, Ranked!Cardinality
<1>5. Ranked!AreFirst({results[i] : i \in DOMAIN results}, WantedRows)
  BY <1>1, <1>2 DEF Ranked!IInv
<1>6. Sorted!AreFirst({results[i] : i \in DOMAIN results}, WantedRows)
  BY <1>3, <1>4, <1>5 DEF Sorted!AreFirst, Ranked!AreFirst
<1> QED
  BY <1>1, <1>3, <1>6 DEF Ranked!IInv

(* IC2, IC9 and IC11 return the first kTopN of the messages, or jobs, they  *)
(* are asked for, in the order of their comparers: whatever the graph, the  *)
(* order of its edges and that of the lists.                                *)
THEOREM FirstReturned ==
  ASSUME BelowMaximum
  PROVE  CallSpec => []ReturnsTheFirst
<1>1. CallInit => ScanTypes /\ RowInv /\ RankInv
  BY InitTypes, InitRefines, InitRanks
<1>2. ScanTypes /\ RowInv /\ RankInv /\ [CallNext]_callVars => ScanTypes' /\ RowInv' /\ RankInv'
  BY TypesStep, StepRefines, RanksStep
<1>3. ScanTypes /\ RankInv => ReturnsTheFirst
  BY RanksShow
<1> QED
  BY <1>1, <1>2, <1>3, PTL DEF CallSpec
===============================================================================
