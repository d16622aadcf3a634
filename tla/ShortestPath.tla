----------------------------- MODULE ShortestPath -----------------------------
(****************************************************************************)
(* IC13, the length of a shortest KNOWS path between two persons            *)
(* (src/ic13.cc): a breadth-first search from both ends that shares one     *)
(* array of signed labels.  A person the search from the source labels has  *)
(* dist > 0 (one more than the steps from src), a person the search from    *)
(* the destination labels has dist < 0, and 0 is a person not seen.  The    *)
(* smaller of the two queues is expanded, a whole level at a time; the      *)
(* first edge that joins the two sides ends the search in the middle of a   *)
(* level.                                                                   *)
(*                                                                          *)
(* The two branches of the loop in the code differ only in the sign, so     *)
(* q1 and q2 are queue[1] and queue[-1] and one action stands for both.  A  *)
(* queue is a set: every order in which the engine may list the edges of a  *)
(* person, and so every order in which a level is taken, is explored.       *)
(****************************************************************************)
EXTENDS KnowsGraph

CONSTANTS Graphs,        \* the KNOWS relations to run on
          kInvalidVid    \* StorageReadInterface::kInvalidVid

ASSUME GraphsAssumption == Graphs \subseteq Graph
ASSUME InvalidVidAssumption == kInvalidVid \notin Person

Side == {1, -1}          \* 1: from the source, -1: from the destination

VARIABLES
  knows,       \* the graph; no step changes it
  src, dst,    \* the two persons as looked up
  dist,        \* the signed labels
  queue,       \* queue[1] is q1, queue[-1] is q2
  tmp,         \* the next level of the side being expanded
  side,        \* the side being expanded
  x,           \* the person being expanded, kInvalidVid between two persons
  oe, ie,      \* its edges not yet looked at
  pc,          \* where exec stands
  result       \* what it returns

vars == <<knows, src, dst, dist, queue, tmp, side, x, oe, ie, pc, result>>

NotFound == -1
Pending  == -2

Unlabelled == [v \in Person |-> 0]

Root(s) == IF s = 1 THEN src ELSE dst

(* How deep the search of side s has v: positive exactly when s labelled v. *)
Depth(s, v) == IF s = 1 THEN dist[v] ELSE 0 - dist[v]

Label(s, n) == IF s = 1 THEN n ELSE 0 - n

TypeOK ==
  /\ knows \in Graph
  /\ src \in Person \cup {kInvalidVid}
  /\ dst \in Person \cup {kInvalidVid}
  /\ dist \in [Person -> Int]
  /\ queue \in [Side -> SUBSET Person]
  /\ tmp \subseteq Person
  /\ side \in Side
  /\ x \in Person \cup {kInvalidVid}
  /\ oe \subseteq Person
  /\ ie \subseteq Person
  /\ pc \in {"lookup", "choose", "level", "edges", "done"}
  /\ result \in Int
  /\ pc = "edges" => x \in Person

Init ==
  /\ knows \in Graphs
  /\ src \in Person \cup {kInvalidVid}
  /\ dst \in Person \cup {kInvalidVid}
  /\ dist = Unlabelled
  /\ queue = [s \in Side |-> {}]
  /\ tmp = {}
  /\ side = 1
  /\ x = kInvalidVid
  /\ oe = {}
  /\ ie = {}
  /\ pc = "lookup"
  /\ result = Pending

Return(n) ==
  /\ pc' = "done"
  /\ result' = n

(****************************************************************************)
(* exec: the two lookups, and the start of shortest_path_length.            *)
(****************************************************************************)
Reject ==
  /\ pc = "lookup"
  /\ kInvalidVid \in {src, dst}
  /\ Return(NotFound)
  /\ UNCHANGED <<knows, src, dst, dist, queue, tmp, side, x, oe, ie>>

SamePerson ==
  /\ pc = "lookup"
  /\ src \in Person
  /\ src = dst
  /\ Return(0)
  /\ UNCHANGED <<knows, src, dst, dist, queue, tmp, side, x, oe, ie>>

Begin ==
  /\ pc = "lookup"
  /\ src \in Person
  /\ dst \in Person
  /\ src # dst
  /\ dist' = [Unlabelled EXCEPT ![src] = 1, ![dst] = -1]
  /\ queue' = [s \in Side |-> {Root(s)}]
  /\ pc' = "choose"
  /\ UNCHANGED <<knows, src, dst, tmp, side, x, oe, ie, result>>

(****************************************************************************)
(* The loop.  The side with the shorter queue is taken, the source's on a   *)
(* tie, even when that queue is empty: then the loop ends.                  *)
(****************************************************************************)
SmallerSide ==
  IF Cardinality(queue[1]) <= Cardinality(queue[-1]) THEN 1 ELSE -1

ChooseSide ==
  /\ pc = "choose"
  /\ queue[SmallerSide] # {}
  /\ side' = SmallerSide
  /\ pc' = "level"
  /\ UNCHANGED <<knows, src, dst, dist, queue, tmp, x, oe, ie, result>>

(* Flawed on purpose: the loop goes on until both queues are empty.         *)
GiveUpBothEmpty ==
  /\ pc = "choose"
  /\ queue[1] \cup queue[-1] = {}
  /\ Return(NotFound)
  /\ UNCHANGED <<knows, src, dst, dist, queue, tmp, side, x, oe, ie>>

GiveUp ==
  /\ pc = "choose"
  /\ queue[SmallerSide] = {}
  /\ Return(NotFound)
  /\ UNCHANGED <<knows, src, dst, dist, queue, tmp, side, x, oe, ie>>

Dequeue(v) ==
  /\ pc = "level"
  /\ v \in queue[side]
  /\ queue' = [queue EXCEPT ![side] = @ \ {v}]
  /\ x' = v
  /\ oe' = OutEdges(knows, v)
  /\ ie' = InEdges(knows, v)
  /\ pc' = "edges"
  /\ UNCHANGED <<knows, src, dst, dist, tmp, side, result>>

(* The outgoing edges are taken before the incoming ones.                   *)
NextEdge(v) ==
  /\ pc = "edges"
  /\ v \in (IF oe # {} THEN oe ELSE ie)
  /\ IF oe # {} THEN oe' = oe \ {v} /\ ie' = ie
                ELSE ie' = ie \ {v} /\ oe' = oe

(* Flawed on purpose: the depth is not counted up.                          *)
LabelNeighbourSameDepth(v) ==
  /\ NextEdge(v)
  /\ dist[v] = 0
  /\ dist' = [dist EXCEPT ![v] = Label(side, Depth(side, x))]
  /\ tmp' = tmp \cup {v}
  /\ UNCHANGED <<knows, src, dst, queue, side, x, pc, result>>

(* Flawed on purpose: a person of the same side is labelled again.          *)
LabelNeighbourAgain(v) ==
  /\ NextEdge(v)
  /\ Depth(side, v) >= 0
  /\ dist' = [dist EXCEPT ![v] = Label(side, Depth(side, x) + 1)]
  /\ tmp' = tmp \cup {v}
  /\ UNCHANGED <<knows, src, dst, queue, side, x, pc, result>>

LabelNeighbour(v) ==
  /\ NextEdge(v)
  /\ dist[v] = 0
  /\ dist' = [dist EXCEPT ![v] = Label(side, Depth(side, x) + 1)]
  /\ tmp' = tmp \cup {v}
  /\ UNCHANGED <<knows, src, dst, queue, side, x, pc, result>>

SkipNeighbour(v) ==
  /\ NextEdge(v)
  /\ Depth(side, v) > 0
  /\ UNCHANGED <<knows, src, dst, dist, queue, tmp, side, x, pc, result>>

(* Flawed on purpose: both ends are counted.                                *)
MeetOneMore(v) ==
  /\ NextEdge(v)
  /\ Depth(side, v) < 0
  /\ Return(Depth(side, x) - Depth(side, v))
  /\ UNCHANGED <<knows, src, dst, dist, queue, tmp, side, x>>

Meet(v) ==
  /\ NextEdge(v)
  /\ Depth(side, v) < 0
  /\ Return(Depth(side, x) - Depth(side, v) - 1)
  /\ UNCHANGED <<knows, src, dst, dist, queue, tmp, side, x>>

EndOfEdges ==
  /\ pc = "edges"
  /\ oe = {}
  /\ ie = {}
  /\ x' = kInvalidVid
  /\ pc' = "level"
  /\ UNCHANGED <<knows, src, dst, dist, queue, tmp, side, oe, ie, result>>

(* Flawed on purpose: the level is not emptied.                             *)
SwapQueuesKeepsTmp ==
  /\ pc = "level"
  /\ queue[side] = {}
  /\ queue' = [queue EXCEPT ![side] = tmp]
  /\ pc' = "choose"
  /\ UNCHANGED <<knows, src, dst, dist, tmp, side, x, oe, ie, result>>

SwapQueues ==
  /\ pc = "level"
  /\ queue[side] = {}
  /\ queue' = [queue EXCEPT ![side] = tmp]
  /\ tmp' = {}
  /\ pc' = "choose"
  /\ UNCHANGED <<knows, src, dst, dist, side, x, oe, ie, result>>

Next ==
  \/ Reject \/ SamePerson \/ Begin
  \/ ChooseSide \/ GiveUp
  \/ \E v \in Person : \/ Dequeue(v)
                       \/ LabelNeighbour(v) \/ SkipNeighbour(v) \/ Meet(v)
  \/ EndOfEdges \/ SwapQueues

Spec == Init /\ [][Next]_vars

(* A call runs on one thread and does not block: it goes on until exec      *)
(* returns.                                                                 *)
FairSpec == Spec /\ WF_vars(Next)

------------------------------------------------------------------------------
(****************************************************************************)
(* Properties.                                                              *)
(****************************************************************************)

(* The answer exec returns is the distance of the two persons, and -1 only  *)
(* when one is unknown or no chain of friends joins them: stopping in the   *)
(* middle of a level, at the first edge that joins the two sides, never     *)
(* returns a longer path than the level still holds.                        *)
Query == INSTANCE DistanceQuery WITH answer <- result

AnswersTheQuery == Query!Spec

(* Every label is the exact distance from the side that set it, whatever    *)
(* order the levels of the two sides were interleaved in.                   *)
LabelsAreDistances ==
  \A v \in Person, s \in Side :
    Depth(s, v) > 0 => IsDistance(knows, Depth(s, v) - 1, Root(s), v)

(* A label is set once: the side that reaches a person first keeps it, and  *)
(* a later, longer way never replaces its depth.                            *)
LabelsAreFinal ==
  [][pc # "lookup" =>
       \A v \in Person : dist[v] # 0 => dist'[v] = dist[v]]_vars

(* Every call returns.                                                      *)
Termination == <>(pc = "done")

------------------------------------------------------------------------------
(****************************************************************************)
(* The inductive invariant.  A person a side has labelled is open while its *)
(* edges may still lead somewhere new, and closed after that.               *)
(****************************************************************************)
Open(s) ==
  queue[s] \cup (IF s = side THEN tmp \cup ({x} \cap Person) ELSE {})

Closed(s, v) == Depth(s, v) > 0 /\ v \notin Open(s)

Started == dist # Unlabelled

(* w is a friend that the expansion of v, on side s, has dealt with.        *)
Covered(s, v, w) == Depth(s, w) > 0 /\ Depth(s, w) <= Depth(s, v) + 1

Control ==
  /\ src \in Person /\ dst \in Person
  /\ dist[src] = 1 /\ dist[dst] = -1
  /\ pc # "lookup"
  /\ pc = "choose" => tmp = {}
  /\ pc \in {"choose", "level"} => x = kInvalidVid
  /\ pc = "edges" => oe \cup ie \subseteq Neighbours(knows, x)

(* The open persons of a side stand on one level, or on two while the level *)
(* is being expanded; the closed ones on that level or before it.           *)
Levels ==
  \A s \in Side :
    /\ \A u \in Open(s) : Depth(s, u) > 0
    /\ \A u, v \in queue[s] : Depth(s, u) = Depth(s, v)
    /\ s = side =>
         /\ \A u, v \in tmp : Depth(s, u) = Depth(s, v)
         /\ \A u \in queue[s], v \in tmp : Depth(s, v) = Depth(s, u) + 1
         /\ x \in Person => /\ \A u \in queue[s] : Depth(s, u) = Depth(s, x)
                           /\ \A u \in tmp : Depth(s, u) = Depth(s, x) + 1
    /\ \A u \in Open(s), v \in Person :
         Closed(s, v) => Depth(s, v) <= Depth(s, u)

(* No friendship leaves the closed persons of a side but to the same side.  *)
Frontier ==
  /\ \A s \in Side, v \in Person :
       Closed(s, v) => \A w \in Neighbours(knows, v) : Covered(s, v, w)
  /\ pc = "edges" =>
       \A w \in Neighbours(knows, x) \ (oe \cup ie) : Covered(side, x, w)

Reached ==
  \A s \in Side, v \in Person :
    Depth(s, v) > 0 => Connected(knows, Depth(s, v) - 1, Root(s), v)

Outcome ==
  IF pc = "done" THEN Query!IsAnswer(result) ELSE result = Pending

SearchInv == Started => Control /\ Levels /\ Frontier /\ Reached

NotStarted == ~ Started => pc \in {"lookup", "done"} /\ x = kInvalidVid /\ tmp = {}

(* What every state of the search satisfies, and every step preserves.      *)
IInv == TypeOK /\ SearchInv /\ NotStarted /\ Outcome
===============================================================================
