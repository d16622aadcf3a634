---------------------------- MODULE KnowsTraversal ----------------------------
(****************************************************************************)
(* The four helpers of include/ldbc_common.h with which nine of the queries *)
(* walk over the friends of a person, or over the friends of those too:     *)
(*   neighbor  foreach_knows_neighbor        a callback for every friend    *)
(*   2d        foreach_knows_2d_neighbor     for those two steps away       *)
(*   1d_2d     foreach_knows_1d_2d_neighbor  for those one or two away      *)
(*   mark      mark_knows_1d_2d_neighbors    a mark for those               *)
(* They start with the edges of the root, then expand the persons of hop1.  *)
(* hop1 is a list in the code and may name a person once for each direction *)
(* in which he is stored as a friend, so an entry is an edge.               *)
(****************************************************************************)
EXTENDS KnowsGraph

CONSTANT Graphs          \* the KNOWS relations to run on

ASSUME GraphsAssumption == Graphs \subseteq Graph

Helper == {"neighbor", "2d", "1d_2d", "mark"}

Entry == {"in", "out"} \X Person

VARIABLES
  knows, root,
  helper,      \* the helper that is called
  todo,        \* the edges still to be looked at
  hop1,        \* the entries of the first hop still to be expanded
  seen,        \* seen, visited or friends
  calls,       \* how often the callback was called for each person
  pc

vars == <<knows, root, helper, todo, hop1, seen, calls, pc>>

EdgesOf(x) == ({"in"} \X InEdges(knows, x)) \cup ({"out"} \X OutEdges(knows, x))

(* hop1 never names anybody but friends of the root: what the second loop   *)
(* finds is not put on the list it walks along.                             *)
TypeOK ==
  /\ knows \in Graph
  /\ root \in Person
  /\ helper \in Helper
  /\ todo \subseteq Entry
  /\ pc = "first" => todo \subseteq EdgesOf(root)
  /\ hop1 \subseteq EdgesOf(root)
  /\ seen \subseteq Person
  /\ calls \in [Person -> Nat]
  /\ pc \in {"first", "second", "done"}

Init ==
  /\ knows \in Graphs
  /\ root \in Person
  /\ helper \in Helper
  /\ todo = EdgesOf(root)
  /\ hop1 = {}
  /\ seen = IF helper = "neighbor" THEN {} ELSE {root}
  /\ calls = [v \in Person |-> 0]
  /\ pc = "first"

Call(v) == calls' = [calls EXCEPT ![v] = @ + 1]

(* The edges of one direction are taken before those of the other: outgoing *)
(* first by foreach_knows_neighbor, incoming first by the others.           *)
Later == IF helper = "neighbor" THEN "in" ELSE "out"

Take(e) ==
  /\ e \in todo
  /\ e[1] = Later => \A f \in todo : f[1] = Later
  /\ todo' = todo \ {e}

CallFriend(e) ==
  /\ pc = "first"
  /\ helper = "neighbor"
  /\ Take(e)
  /\ Call(e[2])
  /\ UNCHANGED <<knows, root, helper, hop1, seen, pc>>

(* Only the two-step helper asks whether an outgoing edge repeats one.      *)
FirstHop(e) ==
  /\ pc = "first"
  /\ helper # "neighbor"
  /\ Take(e)
  /\ hop1' = IF helper = "2d" /\ e[1] = "out" /\ e[2] \in seen
             THEN hop1 ELSE hop1 \cup {e}
  /\ seen' = IF helper = "1d_2d" THEN seen ELSE seen \cup {e[2]}
  /\ UNCHANGED <<knows, root, helper, calls, pc>>

EndOfFirstHop ==
  /\ pc = "first"
  /\ todo = {}
  /\ pc' = IF helper = "neighbor" THEN "done" ELSE "second"
  /\ UNCHANGED <<knows, root, helper, todo, hop1, seen, calls>>

(* Flawed on purpose: nobody asks whether the friend was called for.        *)
ExpandUnseen(e) ==
  LET first == helper = "1d_2d" IN
  /\ pc = "second"
  /\ todo = {}
  /\ e \in hop1
  /\ hop1' = hop1 \ {e}
  /\ seen' = IF first THEN seen \cup {e[2]} ELSE seen
  /\ IF first THEN Call(e[2]) ELSE UNCHANGED calls
  /\ todo' = EdgesOf(e[2])
  /\ UNCHANGED <<knows, root, helper, pc>>

(* The next person of the first hop: the helper for both distances calls    *)
(* back for him before it looks at his edges.                               *)
Expand(e) ==
  LET first == helper = "1d_2d" /\ e[2] \notin seen IN
  /\ pc = "second"
  /\ todo = {}
  /\ e \in hop1
  /\ hop1' = hop1 \ {e}
  /\ seen' = IF first THEN seen \cup {e[2]} ELSE seen
  /\ IF first THEN Call(e[2]) ELSE UNCHANGED calls
  /\ todo' = EdgesOf(e[2])
  /\ UNCHANGED <<knows, root, helper, pc>>

(* Flawed on purpose: the body of the first loop, which lists, is repeated. *)
SecondHopListed(e) ==
  /\ pc = "second"
  /\ Take(e)
  /\ seen' = seen \cup {e[2]}
  /\ hop1' = IF e[2] \notin seen THEN hop1 \cup {e} ELSE hop1
  /\ IF helper # "mark" /\ e[2] \notin seen THEN Call(e[2]) ELSE UNCHANGED calls
  /\ UNCHANGED <<knows, root, helper, pc>>

SecondHop(e) ==
  /\ pc = "second"
  /\ Take(e)
  /\ seen' = seen \cup {e[2]}
  /\ IF helper # "mark" /\ e[2] \notin seen THEN Call(e[2]) ELSE UNCHANGED calls
  /\ UNCHANGED <<knows, root, helper, hop1, pc>>

(* Flawed on purpose: the root keeps its mark.                              *)
EndOfSecondHopWithRoot ==
  /\ pc = "second"
  /\ todo = {}
  /\ hop1 = {}
  /\ pc' = "done"
  /\ UNCHANGED <<knows, root, helper, todo, hop1, seen, calls>>

EndOfSecondHop ==
  /\ pc = "second"
  /\ todo = {}
  /\ hop1 = {}
  /\ seen' = IF helper = "mark" THEN seen \ {root} ELSE seen
  /\ pc' = "done"
  /\ UNCHANGED <<knows, root, helper, todo, hop1, calls>>

Next ==
  \/ \E e \in Entry : CallFriend(e) \/ FirstHop(e) \/ Expand(e) \/ SecondHop(e)
  \/ EndOfFirstHop \/ EndOfSecondHop

Spec == Init /\ [][Next]_vars

------------------------------------------------------------------------------
(****************************************************************************)
(* Properties.                                                              *)
(****************************************************************************)

(* The persons the helper is meant to find, by their distance from root.    *)
Within ==
  CASE helper = "neighbor" -> {1}
    [] helper = "2d" -> {2}
    [] OTHER -> {1, 2}

Wanted == {v \in Person : \E n \in Within : IsDistance(knows, n, root, v)}

(* The helper that marks finds whom the one that calls back finds.          *)
FindsTheWanted ==
  pc = "done" =>
    Wanted = CASE helper = "mark" -> seen
               [] helper = "neighbor" -> {v \in Person : calls[v] > 0} \ {root}
               [] OTHER -> {v \in Person : calls[v] > 0}

(* The callback counts, sums and pushes: it is never called twice for one   *)
(* person, nor for the root, however the friendships are stored.  The       *)
(* helper for friends has no set to ask, and only keeps to this where a     *)
(* friendship is stored once.                                               *)
CalledOnce ==
  helper # "neighbor" \/ Simple(knows) =>
    /\ calls[root] = 0
    /\ \A v \in Person : calls[v] <= 1
===============================================================================
