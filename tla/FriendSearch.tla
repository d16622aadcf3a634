----------------------------- MODULE FriendSearch -----------------------------
(****************************************************************************)
(* IC1, the persons with a given first name within three KNOWS steps        *)
(* (collect_friends and try_enqueue_friend of src/ic1.cc).  The search goes *)
(* layer by layer and keeps at most kTopN of the persons it meets, the      *)
(* nearest, then the first by last name and identifier.  It stops after a   *)
(* layer that leaves the heap full; a row offered to a full heap is only    *)
(* compared with a top of its own layer.                                    *)
(*                                                                          *)
(* Persons are numbers and stand for their identifiers.                     *)
(****************************************************************************)
EXTENDS KnowsGraph, Sequences

CONSTANTS Graphs,        \* the KNOWS relations to run on
          Roots,         \* the persons to start from
          NameSets,      \* the sets of persons with the wanted first name
          lastName,      \* the last names, as numbers
          kTopN

Farthest == 3

Edge == {"in", "out"} \X Person

VARIABLES
  knows, root,
  named,       \* the persons with the wanted first name
  layer,       \* the distance of the layer being collected
  todo,        \* the edges of the layer before, still to be looked at
  next,        \* d1_friends, d2_friends: the persons of the layer
  accessed,
  heap,        \* pq: a row is a distance and a person, and the edge he was
               \* met by, which tells two equal rows apart
  results, pc

vars == <<knows, root, named, layer, todo, next, accessed, heap, results, pc>>

RowType == (1..Farthest) \X Person \X {"in", "out"}

TypeOK ==
  /\ knows \in Graph
  /\ root \in Person
  /\ named \subseteq Person
  /\ layer \in 1..Farthest
  /\ todo \subseteq Person \X Edge
  /\ next \subseteq Person
  /\ accessed \subseteq Person
  /\ heap \subseteq RowType
  /\ results \in Seq((1..Farthest) \X Person)
  /\ pc \in {"collect", "output", "done"}

EdgesOf(S) ==
  UNION {{x} \X (({"in"} \X InEdges(knows, x)) \cup ({"out"} \X OutEdges(knows, x)))
           : x \in S}

Init ==
  /\ knows \in Graphs
  /\ root \in Roots
  /\ named \in NameSets
  /\ layer = 1
  /\ todo = EdgesOf({root})
  /\ next = {}
  /\ accessed = {root}
  /\ heap = {}
  /\ results = << >>
  /\ pc = "collect"

(* PersonResultComparer.                                                    *)
Precedes(r, t) ==
  \/ r[1] < t[1]
  \/ r[1] = t[1] /\ lastName[r[2]] < lastName[t[2]]
  \/ r[1] = t[1] /\ lastName[r[2]] = lastName[t[2]] /\ r[2] < t[2]

IsTop(w) == w \in heap /\ \A r \in heap : ~ Precedes(w, r)

Full == Cardinality(heap) = kTopN

(* Flawed on purpose: equal last names are not told apart.                  *)
AdmitsNameOnly(r, w) == r[1] = w[1] /\ lastName[r[2]] < lastName[w[2]]

(* try_enqueue_friend: a row of another distance than the top's is never    *)
(* admitted to a full heap.                                                 *)
Admits(r, w) ==
  /\ r[1] = w[1]
  /\ \/ lastName[r[2]] < lastName[w[2]]
     \/ lastName[r[2]] = lastName[w[2]] /\ r[2] < w[2]

TryEnqueue(r) ==
  \/ /\ ~ Full
     /\ heap' = heap \cup {r}
  \/ /\ Full
     /\ \E w \in heap : /\ IsTop(w)
                        /\ heap' = IF Admits(r, w) THEN (heap \ {w}) \cup {r} ELSE heap

(* Flawed on purpose: the person is not recorded as met.                    *)
MeetUnrecorded(e) ==
  LET v == e[2][2] IN
  /\ pc = "collect"
  /\ e \in todo
  /\ layer = 1 \/ v \notin accessed
  /\ todo' = todo \ {e}
  /\ next' = IF layer < Farthest THEN next \cup {v} ELSE next
  /\ IF v \in named THEN TryEnqueue(<<layer, v, e[2][1]>>) ELSE heap' = heap
  /\ UNCHANGED <<knows, root, named, layer, accessed, results, pc>>

(* Direct friends are collected without a look at accessed.                 *)
Meet(e) ==
  LET v == e[2][2] IN
  /\ pc = "collect"
  /\ e \in todo
  /\ layer = 1 \/ v \notin accessed
  /\ todo' = todo \ {e}
  /\ next' = IF layer < Farthest THEN next \cup {v} ELSE next
  /\ accessed' = accessed \cup {v}
  /\ IF v \in named THEN TryEnqueue(<<layer, v, e[2][1]>>) ELSE heap' = heap
  /\ UNCHANGED <<knows, root, named, layer, results, pc>>

Skip(e) ==
  /\ pc = "collect"
  /\ e \in todo
  /\ layer > 1
  /\ e[2][2] \in accessed
  /\ todo' = todo \ {e}
  /\ UNCHANGED <<knows, root, named, layer, next, accessed, heap, results, pc>>

(* Flawed on purpose: there is no last layer.                               *)
NextLayerEndless ==
  /\ pc = "collect"
  /\ todo = {}
  /\ ~ Full
  /\ layer' = layer + 1
  /\ todo' = EdgesOf(next)
  /\ next' = {}
  /\ UNCHANGED <<knows, root, named, accessed, heap, results, pc>>

NextLayer ==
  /\ pc = "collect"
  /\ todo = {}
  /\ layer < Farthest
  /\ ~ Full
  /\ layer' = layer + 1
  /\ todo' = EdgesOf(next)
  /\ next' = {}
  /\ UNCHANGED <<knows, root, named, accessed, heap, results, pc>>

Stop ==
  /\ pc = "collect"
  /\ todo = {}
  /\ layer = Farthest \/ Full
  /\ pc' = "output"
  /\ UNCHANGED <<knows, root, named, layer, todo, next, accessed, heap, results>>

(* The heap is emptied from the top, and the rows output in reverse.        *)
Output(w) ==
  /\ pc = "output"
  /\ IsTop(w)
  /\ heap' = heap \ {w}
  /\ results' = <<<<w[1], w[2]>>>> \o results
  /\ UNCHANGED <<knows, root, named, layer, todo, next, accessed, pc>>

Return ==
  /\ pc = "output"
  /\ heap = {}
  /\ pc' = "done"
  /\ UNCHANGED <<knows, root, named, layer, todo, next, accessed, heap, results>>

Next ==
  \/ \E e \in todo : Meet(e) \/ Skip(e)
  \/ NextLayer \/ Stop
  \/ \E w \in heap : Output(w)
  \/ Return

Spec == Init /\ [][Next]_vars

------------------------------------------------------------------------------
(****************************************************************************)
(* Properties.                                                              *)
(****************************************************************************)

Friends ==
  {t \in (1..Farthest) \X Person : t[2] \in named /\ IsDistance(knows, t[1], root, t[2])}

(* The call returns the first kTopN of the persons within three steps that  *)
(* have the name, each once and with his distance, in order: neither the    *)
(* stop after a layer nor the short comparison loses one.                   *)
ReturnsTheNearest ==
  pc = "done" /\ Simple(knows) =>
    LET found == {results[i] : i \in DOMAIN results} IN
    /\ found \subseteq Friends
    /\ Len(results) = Cardinality(found)
    /\ Len(results) < kTopN => found = Friends
    /\ \A r \in found, t \in Friends \ found : Precedes(r, t)
    /\ \A i, j \in DOMAIN results : i < j => Precedes(results[i], results[j])

(* No person is met in a layer farther than his distance: accessed is       *)
(* complete for the layers before, in every order of the edges.             *)
MetAtDistance ==
  Simple(knows) => \A r \in heap : IsDistance(knows, r[1], root, r[2])
===============================================================================
