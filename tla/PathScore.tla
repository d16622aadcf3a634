------------------------------- MODULE PathScore -------------------------------
(****************************************************************************)
(* IC14, the weights of the shortest paths (score_paths and IC14Scorer of   *)
(* src/ic14.cc).  The weight of two neighbours on a path is what they wrote *)
(* in answer to each other: 2 for a comment on a post, 1 for a comment on a *)
(* comment; a path weighs the sum over its steps (the query halves it).     *)
(*                                                                          *)
(* A single path is scored pair by pair.  Several paths share most of their *)
(* pairs, and each pair is scored once: of the persons that have pairs left *)
(* the one with most is taken, the messages he wrote are read once for all  *)
(* of his pairs, with one counter per person, and his pairs are dropped.    *)
(****************************************************************************)
EXTENDS Integers, Sequences, FiniteSetsExt

CONSTANTS Person,      \* vids: numbers
          Post, Comment,
          Worlds,      \* records [paths, creator, replyOf] to run on
          none         \* StorageReadInterface::kInvalidVid: no reply target

Message == Post \cup Comment

Pair == {p \in SUBSET Person : Cardinality(p) = 2}

(* Nobody knows himself on a shortest path: it never stays where it is.     *)
Path == {p \in Seq(Person) : \A i \in 1..(Len(p) - 1) : p[i] # p[i+1]}

World ==
  [paths   : SUBSET Path,
   creator : [Message -> Person],                      \* HASCREATOR
   replyOf : [Comment -> Message \cup {none}]]         \* REPLYOF

ASSUME PersonAssumption == Person \subseteq Nat
ASSUME WorldsAssumption == Worlds \subseteq World
ASSUME MessageAssumption == Post \cap Comment = {} /\ none \notin Message
ASSUME FiniteAssumption == IsFiniteSet(Person) /\ IsFiniteSet(Message)

VARIABLES
  world,
  pairs,       \* person_pairs: the pairs still to be scored, {} for no entry
  counts,      \* the counters
  cache,       \* score_cache, from pairs to scores
  root,        \* the person whose pairs are being scored
  todo,        \* the messages of root still to be read
  pc,
  scores       \* the weight of every path

vars == <<world, pairs, counts, cache, root, todo, pc, scores>>

Zero == [v \in Person |-> 0]
NoPairs == [v \in Person |-> {}]

StepsOf(p) == {{p[i], p[i+1]} : i \in 1..(Len(p) - 1)}

PathPairs == UNION {StepsOf(p) : p \in world.paths}

TypeOK ==
  /\ world \in Worlds
  /\ pairs \in [Person -> SUBSET Person]
  /\ counts \in [Person -> Nat]
  /\ DOMAIN cache \subseteq Pair
  /\ \A p \in DOMAIN cache : cache[p] \in Nat
  /\ root \in Person \cup {none}
  /\ todo \subseteq Message
  /\ pc \in {"start", "pick", "accumulate", "harvest", "done"}
  /\ DOMAIN scores \subseteq world.paths

------------------------------------------------------------------------------
(****************************************************************************)
(* What the messages of a person say of another.                            *)
(****************************************************************************)
CommentsOf(x) == {c \in Comment : world.creator[c] = x}
MessagesOf(x) == {m \in Message : world.creator[m] = x}

Answers(c, y) == world.replyOf[c] # none /\ world.creator[world.replyOf[c]] = y

(* What a comment adds for the author of the message it answers.            *)
Gain(c) == IF world.replyOf[c] \in Post THEN 2 ELSE 1

AnswersTo(x, y) ==
  SumFunction([c \in {d \in CommentsOf(x) : Answers(d, y)} |-> Gain(c)])

(* Flawed on purpose: only one of the two is read.                          *)
PairScoreOneWay(x, y) == AnswersTo(x, y)

PairScore(x, y) == AnswersTo(x, y) + AnswersTo(y, x)

RepliesBy(v, m) == {c \in CommentsOf(v) : world.replyOf[c] = m}

(* What reading a message m gives author v: for the message m answers, and  *)
(* for the answers to m.                                                    *)
MessageGain(m, v) ==
  (IF m \in Comment /\ Answers(m, v) THEN Gain(m) ELSE 0)
    + (IF m \in Post THEN 2 ELSE 1) * Cardinality(RepliesBy(v, m))

(* The messages of the one of the two who wrote fewer are read.             *)
PairScoreOne(r, other) ==
  LET swap == Cardinality(MessagesOf(r)) > Cardinality(MessagesOf(other))
      u == IF swap THEN other ELSE r
      v == IF swap THEN r ELSE other
  IN SumFunction([m \in MessagesOf(u) |-> MessageGain(m, v)])

------------------------------------------------------------------------------
Init ==
  /\ world \in Worlds
  /\ pairs = NoPairs
  /\ counts = Zero
  /\ cache = << >>
  /\ root = none
  /\ todo = {}
  /\ pc = "start"
  /\ scores = << >>

(* The weight of a path, given the scores of pairs of persons.              *)
PathWeight(p, score) ==
  SumFunction([i \in 1..(Len(p) - 1) |-> score[<<p[i], p[i+1]>>]])

SinglePath ==
  /\ pc = "start"
  /\ Cardinality(world.paths) = 1
  /\ LET score == [e \in Person \X Person |-> PairScore(e[1], e[2])]
     IN scores' = [p \in world.paths |-> PathWeight(p, score)]
  /\ pc' = "done"
  /\ UNCHANGED <<world, pairs, counts, cache, root, todo>>

BuildPairs ==
  /\ pc = "start"
  /\ Cardinality(world.paths) # 1
  /\ pairs' = [v \in Person |-> {w \in Person : {v, w} \in PathPairs}]
  /\ pc' = "pick"
  /\ UNCHANGED <<world, counts, cache, root, todo, scores>>

(* The first in the order of the vids of those with most pairs.  Nobody is  *)
(* left without a pair in the map, so that the two breaks are not taken.    *)
Degree(v) == Cardinality(pairs[v])

(* Flawed on purpose: a tie has no first.                                   *)
IsRootNoTies(v) ==
  /\ pairs[v] # {}
  /\ \A w \in Person \ {v} : Degree(w) < Degree(v)

IsRoot(v) ==
  /\ pairs[v] # {}
  /\ \A w \in Person : \/ Degree(w) < Degree(v)
                       \/ Degree(w) = Degree(v) /\ v <= w

(* score_cache[...] += for the pairs of r, a function of the neighbours.    *)
AddToCache(r, gain) ==
  cache' = [p \in DOMAIN cache \cup {{r, v} : v \in DOMAIN gain} |->
              (IF p \in DOMAIN cache THEN cache[p] ELSE 0)
                + (IF \E v \in DOMAIN gain : p = {r, v}
                   THEN gain[CHOOSE v \in DOMAIN gain : p = {r, v}] ELSE 0)]

(* Flawed on purpose: the pairs stay with the other person.                 *)
DropPairsOneWay(r) == pairs' = [pairs EXCEPT ![r] = {}]

DropPairs(r) ==
  pairs' = [v \in Person |-> IF v = r THEN {} ELSE pairs[v] \ {r}]

ScoreOnePair(r) ==
  /\ pc = "pick"
  /\ IsRoot(r)
  /\ Degree(r) = 1
  /\ AddToCache(r, [v \in pairs[r] |-> PairScoreOne(r, v)])
  /\ DropPairs(r)
  /\ UNCHANGED <<world, counts, root, todo, pc, scores>>

(* Flawed on purpose: the counters start at 0.                              *)
StartRootFromZero(r) ==
  /\ pc = "pick"
  /\ IsRoot(r)
  /\ Degree(r) > 1
  /\ root' = r
  /\ todo' = MessagesOf(r)
  /\ pc' = "accumulate"
  /\ UNCHANGED <<world, pairs, counts, cache, scores>>

StartRoot(r) ==
  /\ pc = "pick"
  /\ IsRoot(r)
  /\ Degree(r) > 1
  /\ root' = r
  /\ counts' = [v \in Person |-> IF v \in pairs[r] THEN 1 ELSE counts[v]]
  /\ todo' = MessagesOf(r)
  /\ pc' = "accumulate"
  /\ UNCHANGED <<world, pairs, cache, scores>>

(* accumulate_scores, a message at a time: a counter at 0 is of a person    *)
(* who is not asked for.                                                    *)
Accumulate(m) ==
  /\ pc = "accumulate"
  /\ m \in todo
  /\ todo' = todo \ {m}
  /\ counts' = [v \in Person |->
                  IF counts[v] # 0 THEN counts[v] + MessageGain(m, v) ELSE 0]
  /\ UNCHANGED <<world, pairs, cache, root, pc, scores>>

(* Flawed on purpose: the mark is counted.                                  *)
HarvestWithMark ==
  /\ pc = "accumulate"
  /\ todo = {}
  /\ AddToCache(root, [v \in pairs[root] |-> counts[v]])
  /\ counts' = [v \in Person |-> IF v \in pairs[root] THEN 0 ELSE counts[v]]
  /\ DropPairs(root)
  /\ pc' = "pick"
  /\ UNCHANGED <<world, root, todo, scores>>

Harvest ==
  /\ pc = "accumulate"
  /\ todo = {}
  /\ AddToCache(root, [v \in pairs[root] |-> counts[v] - 1])
  /\ counts' = [v \in Person |-> IF v \in pairs[root] THEN 0 ELSE counts[v]]
  /\ DropPairs(root)
  /\ pc' = "pick"
  /\ UNCHANGED <<world, root, todo, scores>>

(* score_cache.at throws when a pair is missing.                            *)
Cached ==
  [e \in {d \in Person \X Person : {d[1], d[2]} \in DOMAIN cache} |-> cache[{e[1], e[2]}]]

SumPaths ==
  /\ pc = "pick"
  /\ pairs = NoPairs
  /\ scores' = [p \in world.paths |-> PathWeight(p, Cached)]
  /\ pc' = "done"
  /\ UNCHANGED <<world, pairs, counts, cache, root, todo>>

Next ==
  \/ SinglePath \/ BuildPairs
  \/ \E r \in Person : ScoreOnePair(r) \/ StartRoot(r)
  \/ \E m \in Message : Accumulate(m)
  \/ Harvest \/ SumPaths

Spec == Init /\ [][Next]_vars

(* A call runs on one thread and does not block.                            *)
FairSpec == Spec /\ WF_vars(Next)

------------------------------------------------------------------------------
(****************************************************************************)
(* Properties.                                                              *)
(****************************************************************************)

(* The reference weight of two persons.                                     *)
Exchanged(x, y) ==
  {c \in Comment : /\ world.replyOf[c] # none
                   /\ {world.creator[c], world.creator[world.replyOf[c]]} = {x, y}}

Weight(x, y) ==
  Cardinality(Exchanged(x, y))
    + Cardinality({c \in Exchanged(x, y) : world.replyOf[c] \in Post})

(* Whichever of the three ways a pair is scored, from whichever end, the    *)
(* cache holds what the two persons exchanged, every exchange counted once. *)
CacheIsWeight ==
  \A x, y \in Person :
    {x, y} \in DOMAIN cache => cache[{x, y}] = Weight(x, y)

(* A pair of a path is either still to be scored, from both of its ends, or *)
(* in the cache, never both and never neither: no pair is scored twice, and *)
(* the lookups of the last loop find every pair.                            *)
PendingOrCached ==
  pc \in {"pick", "accumulate"} =>
    \A x, y \in Person :
      LET pending == y \in pairs[x] IN
      /\ pending => x \in pairs[y]
      /\ {x, y} \in PathPairs <=> pending \/ {x, y} \in DOMAIN cache
      /\ ~ (pending /\ {x, y} \in DOMAIN cache)

(* Both ways of scoring give every path the sum of its weights.             *)
ScoresAreWeights ==
  LET weight == [e \in Person \X Person |-> Weight(e[1], e[2])]
  IN pc = "done" => scores = [p \in world.paths |-> PathWeight(p, weight)]

(* The map of pairs runs empty and the call returns.                        *)
Termination == <>(pc = "done")
===============================================================================
