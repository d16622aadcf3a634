------------------------------ MODULE PathSearch ------------------------------
(****************************************************************************)
(* IC14, the enumeration of all shortest KNOWS paths between two persons    *)
(* (exec, bfs_layer and dfs_paths of src/ic14.cc), up to the scoring, which *)
(* PathScore models.  Three phases share the depth arrays:                  *)
(*   - search: a breadth-first search from both ends expands the shorter    *)
(*     queue, whole levels at a time, until a level touches persons the     *)
(*     other side has reached (the meet points);                            *)
(*   - mark: going back from the meet points, persons on a shortest path    *)
(*     are marked, and those of the destination's side have their depth     *)
(*     from the source written over the one that stood there;               *)
(*   - walk: a depth-first search from the source follows the marked        *)
(*     persons in the order of that depth.                                  *)
(* Depths are int8_t in the code.                                           *)
(****************************************************************************)
EXTENDS KnowsGraph, Sequences, Bags

CONSTANTS Graphs,        \* the KNOWS relations to run on
          Calls,         \* the pairs of looked-up persons to run with
          kInvalidVid,   \* StorageReadInterface::kInvalidVid
          HalfRange      \* an int8_t is in -HalfRange..(HalfRange-1): 128

ASSUME GraphsAssumption == Graphs \subseteq Graph
ASSUME InvalidVidAssumption == kInvalidVid \notin Person
ASSUME CallsAssumption ==
  Calls \subseteq (Person \cup {kInvalidVid}) \X (Person \cup {kInvalidVid})
ASSUME HalfRangeAssumption == HalfRange \in Nat \ {0, 1}

Side == {1, -1}          \* 1: from the source, -1: from the destination

Int8(n) == ((n + HalfRange) % (2 * HalfRange)) - HalfRange

VARIABLES
  knows, src, dst,
  dist,        \* dist[1] is dist_from_src, dist[-1] is dist_from_dst
  queue,       \* q1 and q2
  depth,       \* src_depth and dst_depth
  onPath,      \* the persons marked on_path
  frontier,    \* those whose edges are still to be marked
  path,        \* the path dfs_paths is on
  todo,        \* todo[i]: the edges it has still to follow from path[i]
  paths,       \* the paths found, a bag: their order is decided by the scores
  pc

vars == <<knows, src, dst, dist, queue, depth, onPath, frontier, path, todo, paths, pc>>

Unseen == -1

TypeOK ==
  /\ knows \in Graph
  /\ <<src, dst>> \in Calls
  /\ dist \in [Side -> [Person -> (-HalfRange)..(HalfRange - 1)]]
  /\ queue \in [Side -> SUBSET Person]
  /\ depth \in [Side -> (-HalfRange)..(HalfRange - 1)]
  /\ onPath \subseteq Person
  /\ frontier \subseteq onPath
  /\ path \in Seq(Person)
  /\ todo \in Seq(SUBSET ({"out", "in"} \X Person))
  /\ Len(todo) = Len(path)
  /\ IsABag(paths)
  /\ pc \in {"lookup", "search", "mark", "walk", "done"}

Init ==
  /\ knows \in Graphs
  /\ \E c \in Calls : src = c[1] /\ dst = c[2]
  /\ dist = [s \in Side |-> [v \in Person |-> Unseen]]
  /\ queue = [s \in Side |-> {}]
  /\ depth = [s \in Side |-> 0]
  /\ onPath = {}
  /\ frontier = {}
  /\ path = <<>>
  /\ todo = <<>>
  /\ paths = EmptyBag
  /\ pc = "lookup"

Reject ==
  /\ pc = "lookup"
  /\ kInvalidVid \in {src, dst}
  /\ pc' = "done"
  /\ UNCHANGED <<knows, src, dst, dist, queue, depth, onPath, frontier, path, todo, paths>>

Begin ==
  /\ pc = "lookup"
  /\ kInvalidVid \notin {src, dst}
  /\ dist' = [dist EXCEPT ![1][src] = 0, ![-1][dst] = 0]
  /\ queue' = [queue EXCEPT ![1] = {src}, ![-1] = {dst}]
  /\ pc' = "search"
  /\ UNCHANGED <<knows, src, dst, depth, onPath, frontier, path, todo, paths>>

(****************************************************************************)
(* Search.  Both queues hold someone when a level is chosen, so the third   *)
(* branch of the loop is never taken.  A level does not depend on the order *)
(* in which its persons and their edges are taken.                          *)
(****************************************************************************)
SmallerSide ==
  IF Cardinality(queue[1]) <= Cardinality(queue[-1]) THEN 1 ELSE -1

(* Flawed on purpose: the incoming edges are not followed.                  *)
ReachedOutOnly(s) ==
  {v \in UNION {OutEdges(knows, x) : x \in queue[s]} : dist[s][v] = Unseen}

(* bfs_layer: the persons the next level of side s reaches.                 *)
Reached(s) ==
  {v \in UNION {Neighbours(knows, x) : x \in queue[s]} : dist[s][v] = Unseen}

LabelLayer(s) ==
  /\ depth' = [depth EXCEPT ![s] = Int8(@ + 1)]
  /\ dist' = [dist EXCEPT ![s] =
                [v \in Person |-> IF v \in Reached(s) THEN depth'[s] ELSE @[v]]]

MeetPoints(s) == {v \in Reached(s) : dist[-s][v] # Unseen}

ExpandLayer ==
  LET s == SmallerSide IN
  /\ pc = "search"
  /\ MeetPoints(s) = {}
  /\ LabelLayer(s)
  /\ queue' = [queue EXCEPT ![s] = Reached(s)]
  /\ pc' = IF {} \in {queue'[1], queue'[-1]} THEN "done" ELSE "search"
  /\ UNCHANGED <<knows, src, dst, onPath, frontier, path, todo, paths>>

Meet ==
  LET s == SmallerSide IN
  /\ pc = "search"
  /\ MeetPoints(s) # {}
  /\ LabelLayer(s)
  /\ queue' = [queue EXCEPT ![s] = {}]
  /\ onPath' = MeetPoints(s)
  /\ frontier' = MeetPoints(s)
  /\ pc' = "mark"
  /\ UNCHANGED <<knows, src, dst, path, todo, paths>>

(****************************************************************************)
(* Mark.  An unmarked friend one step nearer to the source is marked; one   *)
(* nearer to the destination is marked and has its depth from the source    *)
(* rewritten.                                                               *)
(****************************************************************************)

(* Flawed on purpose: any labelled friend counts as nearer.                 *)
NearerAnyDepth(s, v) == {u \in Neighbours(knows, v) \ onPath : dist[s][u] # Unseen}

Nearer(s, v) ==
  {u \in Neighbours(knows, v) \ onPath :
     dist[s][u] # Unseen /\ dist[s][u] + 1 = dist[s][v]}

(* Flawed on purpose: the depth from the source is not written.             *)
MarkWithoutRewrite(v) ==
  /\ pc = "mark"
  /\ v \in frontier
  /\ onPath' = onPath \cup Nearer(1, v) \cup Nearer(-1, v)
  /\ frontier' = (frontier \ {v}) \cup Nearer(1, v) \cup Nearer(-1, v)
  /\ UNCHANGED <<knows, src, dst, dist, queue, depth, path, todo, paths, pc>>

(* Flawed on purpose: the flag is not set on the source's side.             *)
MarkDestinationSideOnly(v) ==
  /\ pc = "mark"
  /\ v \in frontier
  /\ onPath' = onPath \cup Nearer(-1, v)
  /\ frontier' = (frontier \ {v}) \cup Nearer(1, v) \cup Nearer(-1, v)
  /\ dist' = [dist EXCEPT ![1] =
                [u \in Person |-> IF u \in Nearer(-1, v) THEN Int8(@[v] + 1) ELSE @[u]]]
  /\ UNCHANGED <<knows, src, dst, queue, depth, path, todo, paths, pc>>

Mark(v) ==
  /\ pc = "mark"
  /\ v \in frontier
  /\ onPath' = onPath \cup Nearer(1, v) \cup Nearer(-1, v)
  /\ frontier' = (frontier \ {v}) \cup Nearer(1, v) \cup Nearer(-1, v)
  /\ dist' = [dist EXCEPT ![1] =
                [u \in Person |-> IF u \in Nearer(-1, v) THEN Int8(@[v] + 1) ELSE @[u]]]
  /\ UNCHANGED <<knows, src, dst, queue, depth, path, todo, paths, pc>>

(****************************************************************************)
(* Walk: dfs_paths.  The recursion is the pair of stacks path and todo; a   *)
(* frame holds the edges that will pass the test of the two loops.          *)
(****************************************************************************)
Ahead(x) == {v \in onPath : dist[1][v] = dist[1][x] + 1}

(* Flawed on purpose: each view lists the edges of both directions.         *)
EdgesBothWays(x) == {"out", "in"} \X (Neighbours(knows, x) \cap Ahead(x))

Edges(x) ==
  ({"out"} \X (OutEdges(knows, x) \cap Ahead(x)))
    \cup ({"in"} \X (InEdges(knows, x) \cap Ahead(x)))

Enter(x) ==
  /\ path' = Append(path, x)
  /\ todo' = Append(todo, IF x = dst THEN {} ELSE Edges(x))
  /\ paths' = IF x = dst THEN paths (+) SetToBag({path'}) ELSE paths

StartWalk ==
  /\ pc = "mark"
  /\ frontier = {}
  /\ Enter(src)
  /\ pc' = "walk"
  /\ UNCHANGED <<knows, src, dst, dist, queue, depth, onPath, frontier>>

Top == Len(path)

Follow(e) ==
  /\ pc = "walk"
  /\ path # <<>>
  /\ e \in todo[Top]
  /\ path' = Append(path, e[2])
  /\ todo' = Append([todo EXCEPT ![Top] = @ \ {e}],
                    IF e[2] = dst THEN {} ELSE Edges(e[2]))
  /\ paths' = IF e[2] = dst THEN paths (+) SetToBag({path'}) ELSE paths
  /\ UNCHANGED <<knows, src, dst, dist, queue, depth, onPath, frontier, pc>>

Leave ==
  /\ pc = "walk"
  /\ path # <<>>
  /\ todo[Top] = {}
  /\ path' = SubSeq(path, 1, Top - 1)
  /\ todo' = SubSeq(todo, 1, Top - 1)
  /\ pc' = IF Top = 1 THEN "done" ELSE "walk"
  /\ UNCHANGED <<knows, src, dst, dist, queue, depth, onPath, frontier, paths>>

Next ==
  \/ Reject \/ Begin
  \/ ExpandLayer \/ Meet
  \/ \E v \in Person : Mark(v)
  \/ StartWalk
  \/ \E d \in {"out", "in"}, v \in Person : Follow(<<d, v>>)
  \/ Leave

Spec == Init /\ [][Next]_vars

------------------------------------------------------------------------------
(****************************************************************************)
(* Properties.                                                              *)
(****************************************************************************)

AsWalk(p) == [i \in 0..(Len(p) - 1) |-> p[i+1]]

IsShortest(p) ==
  /\ Len(p) > 0
  /\ IsDistance(knows, Len(p) - 1, src, dst)
  /\ AsWalk(p) \in Walks(knows, Len(p) - 1, src, dst)

(* The common length of the paths IC14 returns, and -1 when it returns none. *)
Length ==
  IF pc # "done" THEN -2
  ELSE IF paths = EmptyBag THEN -1
  ELSE Len(CHOOSE p \in BagToSet(paths) : TRUE) - 1

Query == INSTANCE DistanceQuery WITH answer <- Length

(* IC14 and IC13 answer the same question about two different persons: the  *)
(* length of the paths of the one is the answer of the other, -1 included.  *)
(* About one person and himself they do not: IC13 answers 0 before any      *)
(* search, and IC14 searches, so that somebody without friends gets no path.*)
AgreesWithIC13 ==
  (src # dst => Query!Init) /\ [][src # dst => Query!Answer]_(Query!vars)

(* Every path returned is a shortest one, from a person to himself too, and *)
(* between two different persons none is missing, whatever the mark phase   *)
(* wrote over the depths.                                                   *)
AllShortestPaths ==
  pc = "done" =>
    /\ \A p \in BagToSet(paths) : IsShortest(p)
    /\ src # dst /\ kInvalidVid \notin {src, dst} =>
         \A n \in 1..(Cardinality(Person) - 1) :
           IsDistance(knows, n, src, dst) =>
             Cardinality(BagToSet(paths)) = Cardinality(Walks(knows, n, src, dst))

(* Where a friendship is stored once, no path is returned twice.            *)
EachPathOnce ==
  Simple(knows) => \A p \in BagToSet(paths) : paths[p] = 1

(* When marking is over, the marked persons are exactly those on a shortest *)
(* path, and dist_from_src holds their distance from the source on both     *)
(* sides of the meet points, where it was never computed by the search.     *)
OnShortestPath(v) ==
  \E n, m \in 0..(Cardinality(Person) - 1) :
    /\ IsDistance(knows, n, src, v)
    /\ IsDistance(knows, m, v, dst)
    /\ IsDistance(knows, n + m, src, dst)

MarkedExactly ==
  pc = "walk" /\ path = <<src>> /\ src # dst =>
    /\ onPath = {v \in Person : OnShortestPath(v)}
    /\ \A v \in onPath : IsDistance(knows, dist[1][v], src, v)

(* Two known persons whom a chain of friends joins get at least one path,   *)
(* as the persons of the test graph do and as ic13 says of them.  The depth *)
(* is an int8_t, so that this is only true of chains of fewer than          *)
(* HalfRange friendships.                                                   *)
Reachable ==
  LET R[n \in 0..Cardinality(Person)] ==
        IF n = 0 THEN {src}
        ELSE LET near == R[n-1]
             IN near \cup UNION {Neighbours(knows, v) : v \in near}
  IN R[Cardinality(Person)]

ConnectedHavePaths ==
  pc = "done" /\ src # dst /\ kInvalidVid \notin {src, dst} =>
    (paths = EmptyBag => dst \notin Reachable)
===============================================================================
