# TLA+ models of the LDBC extension for NeuG

This directory specifies, model-checks and proves properties of the query
procedures in `src/src` and `src/include`: the LDBC SNB Interactive read queries
`ic1` ... `ic14` and `is1` ... `is7`.

Contents: [the system](#the-system), [plan](#plan),
[modules and code](#modules-and-code), [runs](#runs),
[what the runs disagree with](#disagreements), [proofs](#proofs),
[what is not modelled](#not-modelled), [how to run](#how-to-run).

## The system

The extension is a shared library the NeuG engine loads. `Init`
(`ldbc_extension.cc`) registers one table function per query. The engine calls
`bind` when it plans a `CALL`, `bindParams` for every execution (it copies the
bound input and fills in the parameters), and `exec`, which reads the graph and
returns columns. `exec` runs on one thread, takes no lock, writes nothing to the
graph and keeps nothing between two calls. So there are no interleavings of
threads, no messages, no crashes to recover from. What makes the queries hard is
that

* they are written for speed: searches from both ends that share one array,
  marks that are overwritten while they are read, flags and counters reused from
  one round to the next, copies of the top of a heap, scans that stop early;
* the engine lists the edges of a vertex in the order of its storage, so the
  result must not depend on any order;
* KNOWS is stored with a direction and used without one, so every traversal asks
  for both the outgoing and the incoming edges;
* the limit of a query may be reached anywhere.

| component | state it keeps during a call | what makes it correct |
|---|---|---|
| `ic13` shortest path | signed labels, two queues, the next level | returns the distance; -1 only for persons that are unknown or not connected |
| `ic14` path search | two depth arrays (`int8_t`), queues, marks, the recursion | every shortest path of two different persons, nothing else, none twice |
| `ic14` scores | pairs to score, counters, a cache | every pair scored once, the three ways of scoring agree |
| heaps of eleven queries | a priority queue and often a copy of its top's key | the first rows of the comparer, whatever the order of storage |
| traversal helpers (`ldbc_common.h`) | marks, the list of the first hop | calls for exactly the persons at the named distances |
| `ic1` | layers, marks, a heap | the nearest persons of the name, then by last name and id |
| `ic5` | flags per friend, flags of all forums, counts, a heap | posts of members only; forums without posts fill up the limit |
| `ic4` | counts and ruled-out tags | a tag of an older post is never counted |
| `ic10` | the candidates, a heap, its lowest score | the sign's birthdays and no others; giving up early changes nothing |
| `ic7` | the sorted likes, a heap | one like per person, the latest |
| `is6`, `is2`, `resolve_root_post` | the comment the loop stands at | finds the post a thread began with, and returns |
| `ic12` | a queue of classes, marked tags, a count | the subtree marked; a reply counted once |
| `ic3` | two places, counters per friend, a heap | the friends abroad with messages from both countries, counted once |
| `ic6` | counts of tags, a heap | the tags on friends' posts with the tag, without the tag itself |
| `ic2`, `ic8`, `ic9`, `ic11`, `is2` | the walk they scan from, a scan, a heap | the rows asked for are offered, each once, and no others |
| `is1`, `is3`, `is4`, `is5`, `is7` | the rows collected, flags of friends | all rows, in order, with the right flag |
| call protocol, registration | the bound input; the catalog | see [not modelled](#not-modelled) |

The hazards these properties are aimed at are listed, each with its line, in
`PROJECT.json`.

## Plan

The order follows how much there is to get wrong.

1. `ic13` with its abstract specification (`DistanceQuery`, `ShortestPath`) and
   its proofs. *Done.*
2. `ic14`: the search (`PathSearch`) and the scores (`PathScore`). *Done; checked and proved.*
3. What many queries share: the heaps (`TopN`), the traversals
   (`KnowsTraversal`), the thread lookup (`MessageThread`). *Done; checked.*
4. The queries with an algorithm of their own: `ic1`, `ic3`, `ic4`, `ic5`, `ic6`, `ic7`,
   `ic10`, `ic12`, and two modules that compose them (`FriendCalls`, `MessageCalls`).
   *Done; checked.*
5. The queries made of a walk, a scan and a heap, `ic2`, `ic8`, `ic9`, `ic11`, `is2`, as the
   composition of `KnowsTraversal` and `TopN` (`ScanCalls`), and the short reads
   (`ShortReads`). *Done; checked.*
6. Proofs about the two shared parts, the heaps (`TopNProofs`) and the traversals (first
   part of `ScanCallsProofs`). *Done.*
7. Proofs about `ic14`: the search, its marking loop and its walk, and that it implements the query of
   `ic13` (`PathSearchProofs`); the scores of its paths (`PathScoreProofs`). *Done.*
8. Proofs about the queries over messages and the short reads (`MessageCallsProofs`). *Done.*
9. Proofs about `ic1`, `ic5` and `ic10` (`FriendCallsProofs`). *Done.*
10. Proofs about the composition of walk, scan and heap in `ScanCalls` (`ScanCallsProofs`). *Done.*

## Modules and code

Every specification has the same shape: the data a call reads is chosen in `Init`
and kept unchanged, one action stands for one step of `exec`, `pc` says where `exec`
stands; where termination is checked, `FairSpec` adds weak fairness. An instance for the model checker is in
the module `MC<name>`. `PROJECT.json` (`map`) gives the lines of every definition.

* **`KnowsGraph`** - the KNOWS relation, the two views (`OutEdges`, `InEdges`, the
  engine's `CsrView::get_edges`), and the reference definitions: walks, distance,
  cuts. A parallel edge is not modelled; friendships stored in both directions and
  self-loops are.
* **`DistanceQuery`** - what `CALL ic13` promises: one answer, the distance or -1. The
  absence of a path is stated with a cut, a set of persons that no friendship leaves.
* **`ShortestPath`** (`ic13.cc`) - the code has two copies of the loop body that differ
  in sign; the model has one set of actions with a side 1 or -1, so `dist[v]` is
  the code's signed label and `Depth(s, v)` what side `s` makes of it. One action per edge:
  `LabelNeighbour`, `SkipNeighbour` and `Meet` are the three branches of the loops
  over the edges. A queue is a set: the code's order within a level is one of
  those the model takes.
* **`PathSearch`** (`ic14.cc`: `exec`, `bfs_layer`, `dfs_paths`) - `ExpandLayer` and `Meet`
  are a call of `bfs_layer` with and without meet points, `Mark` is one turn of the
  marking loop, `Follow` and `Leave` are call and return of `dfs_paths`. Depths
  wrap like `int8_t`. The paths found are a bag, so that a path returned twice shows.
* **`PathScore`** (`ic14.cc`: `score_paths`, `IC14Scorer`) - `SinglePath`, `ScoreOnePair` and
  `StartRoot`/`Accumulate`/`Harvest` are the three ways a score comes about.
  Whole loops over comments are sums over sets.
* **`TopN`** - a record per query: the directions of the columns in its comparer, those
  in the test a row has to pass when the heap is full, and whether that test uses a
  copy of the top's key. The copy starts at 0, as in the code.
* **`KnowsTraversal`** (`ldbc_common.h`) - the four helpers; `calls` counts how often
  the callback runs for a person (for `mark_knows_1d_2d_neighbors`, whether the
  flag is set). `hop1` is the list the second loop walks along; `TypeOK` says that no
  step puts anybody but friends of the root on it.
* **`FriendSearch`** (`ic1.cc`), **`ForumCount`** (`ic5.cc`), **`InterestScore`** (`ic10.cc`) -
  one query each. `kTopN` is a constant, 2 in the runs.
  Identifiers and names are numbers where they are compared, model values
  elsewhere; dates are reduced to what the query tells apart, but for the birthdays of
  `InterestScore`, which are a month and a day. Its `Collect` is the callback of the walk.
  A post of `ForumCount` may be in no forum.
* **`FriendCalls`** - a call of one of these three: it instantiates the three modules and has the
  early return for an unknown person (`Reject`). The variables of the queries that do
  not run are `none`.
* **`ScanCalls`** (`ic2.cc`, `ic8.cc`, `ic9.cc`, `ic11.cc`, `is2.cc`) - a call of one of these five. It extends
  `KnowsTraversal`, whose variables and steps it uses as they are (`pc` says where the walk stands, `phase` where `exec`
  does), and has an instance of `TopN` (`Heap`, whose rows to come are those of the open list). `WalkOn` is a step of the walk; if it calls back for a
  person, his two lists of messages wait in `lists`, and the walk stands still until they are
  read. `OpenList` opens one, posts first, and `Offer` is a step of the heap. `ic11` opens its lists when the
  walk has marked the friends, `is2` and `ic8` have no walk. `MaxDate` stands for
  `INT64_MAX`; `Threshold` wraps there. A row is a date, an identifier and the number of the call it was met
  in, because `ic2` meets a message twice where a friendship is stored twice.
  A second instance of `TopN`, `Sorted`, is the abstract specification: it offers the rows the query asks
  for, defined without walk and scan (`WantedRows`), and `OffersTheWanted` says that the call implements it.
  `ReturnsTheFirst` says of the three queries with a sound heap what they return in the end.
* **`ShortReads`** (`is1.cc`, `is3.cc`, `is4.cc`, `is5.cc`, `is7.cc`) - `std::sort` is any
  sequence without an inversion (`Sorted`), so equal rows come in every order.
* **`CountryMessages`** (`ic3.cc`), **`TagCount`** (`ic4.cc`), **`CoTags`** (`ic6.cc`),
  **`LatestLikes`** (`ic7.cc`), **`TagClassReplies`** (`ic12.cc`), **`MessageThread`**
  (`ldbc_common.cc`, `is6.cc`, `is2.cc`) - the queries over messages. `rows` are what is offered to
  the heap, in `LatestLikes` what is returned. `ic4` and `ic12` call back once for every stored edge of a
  friendship: a post is scanned, and a friend offered, twice where both directions are stored (`Scans`, `Callbacks`). A comment
  answers one message in `MessageThread`, as in the LDBC data.
* **`MessageCalls`** - a call of one of these six, or of a short read: it instantiates the seven modules over one
  set of posts, comments and tags, holds the assumptions on their data, and has the early return
  (`Reject`) they share. The variables of the queries that do not run are `none`.
* **`KnowsGraphProofs`**, **`ShortestPathProofs`**, **`TopNProofs`**, **`ScanCallsProofs`**,
  **`FriendCallsProofs`**, **`PathSearchProofs`**, **`PathScoreProofs`**, **`MessageCallsProofs`** - the proofs.

Definitions marked *Flawed on purpose* belong to no specification. Each is a version
of the definition below it with a plausible bug (a dropped guard, a missing reset, a
stale copy); put in its place, it makes a run report one of the properties. They
are there to show that the properties can fail: `PROJECT.json` (`mutants`) lists them.

## Runs

All runs set `CHECK_DEADLOCK FALSE`: a call returns and the model stops there.

Fairness is `WF_vars(Next)`, in the runs that check `Termination` or `ReturnsInFull`: `exec` runs on one
thread and waits for nothing, so as long as it has a step to take it takes one. No order
between steps is assumed. Termination of the two loops without a visited set is claimed
only for data without cycles (`Forest`, `NoClassUnderItself`); with a reply cycle
`resolve_root_post` does not return, and the model says so: `MessageCalls_small`
includes such data. The other runs have no fairness: their loops each go once over a list.

| run | what it shows | bounds |
|---|---|---|
| `ShortestPath_small` | `ic13` answers the distance query; labels are exact and final; it returns | all 512 directed graphs on 3 persons, all 1024 simple graphs on 5, any two persons or unknown ones, all orders |
| `PathSearch_small` | all shortest paths and nothing else; marks and rewritten depths are right | the same graphs, six pairs of ends, one person twice among them |
| `PathSearch_chain` | disagreement, see below | one chain of 129 persons |
| `PathScore_six` | the cache holds the weight of every pair, once | five sets of paths on 6 persons, a post and three comments by anyone |
| `TopN_sound` | nine heaps return the first rows in any order of offers | any of 7 rows with ties in every column, limit 3 |
| `TopN_ties` | disagreements, see below | the same rows, limit 2 |
| `KnowsTraversal_mixed` | the helpers call for the wanted persons | all directed graphs on 3 persons, simple ones on 4 |
| `FriendCalls_small`, `ic1` | the early stop loses nobody | simple graphs on 5 persons, limit 2 |
| - `ic5` | counts of members, both passes | 2 friends, 4 forums, 3 posts in any of them or in none, limit 2 |
| - `ic10` | giving up early is safe; the sign's ends and the turn of the year | 4 candidates, any of 1296 scores, or born on 4 days around the ends for 3 months; limit 2 |
| `ScanCalls_small` | `ic2`, `ic8`, `ic9`, `ic11`, `is2` implement the heap over the rows asked for, and return in full, the first ones where the heap is sound | 4 persons, friendships stored once, twice or not, 5 messages, 2 companies, limit 2 |
| `ScanCalls_maxDate` | disagreement, see below | the same with the greatest date as `maxDate` |
| `MessageCalls_small`, `ic3` | both countries counted, in any order of storage | 3 places, 2 friends, 4 messages, 3 dates |
| - `ic4` | the order of old and new posts is irrelevant; a post counts once per stored edge of the friendship | 3 posts, 2 tags, all choices; a friendship stored once or twice |
| - `ic6` | the other tags, and only friends' posts | 3 posts, 2 tags, posts by friends, others and nobody |
| - `ic7` | one row per person, the latest | 3 persons, 2 messages, 2 dates, limit 2 |
| - `is2`, `is6` | the root of the thread, forum and moderator; the loop ends | all reply structures on 3 comments, 2 posts |
| - `ic12` | the subtree, and replies counted once; the loop ends | all acyclic hierarchies of 4 classes, 3 comments; 2 friends, one stored twice |
| - short reads | friends and replies complete, in order, flagged for friendships of either direction | 3 persons, friendships stored once or twice, 3 comments with ties, missing authors |

Why the bounds are enough. Three persons with every directed graph cover every
combination of self-loops, reciprocal friendships and directions on a path of
two steps; five persons with simple graphs are the fewest on which two persons are
four steps apart (both sides expand, twice), and on which several ways of equal length meet
in several points. For the scores, six persons are the fewest with which the
rounds come down to a single pair (`ScoreOnePair`). A limit of 2 with at least four rows has a heap that is not full, one that fills, replacements of
the top and rows dropped; ties occur in every column. The heap knows nothing of
its limit but the comparison with its size. `HalfRange` is the real 128 in
every run of `PathSearch`. `ShortestPath` needs no bound for what is proved of it.

In `ScanCalls_small` the limit of 2 stands against up to six rows: friends called for twice, a
friend of a friend and a person three steps away, dates that tie across lists and on either side of
`maxDate`, jobs in the year asked for.

### Disagreements

Three runs violate a property that states what a test, a comment or the README says:

* **`PathSearch_chain`**: the depths of `ic14` are `int8_t`. On a chain of 128 friendships the
  depth of the last level wraps to -128, the marking loop finds no predecessor, and `ic14` returns
  nothing for two persons whom `ic13` finds joined, although
  `test/ic_test.cc:361` expects at least one row for connected persons.
* **`TopN_ties`**: the comparers of `ic8` and `is2` order equal dates by
  descending id, the admission test of a full heap by ascending id. With more rows
  of one date than the limit, the rows returned depend on the order of storage.
* **`ScanCalls_maxDate`**: `include/ldbc_common.h:252` has the scan between two dates keep what is up to
  and including `maxDate`; the code adds 1 and compares with `<`. For the greatest date the sum
  overflows, and where it wraps `ic9` returns nothing.

## Proofs

Proved about are the search of `ic13`, the paths of `ic14` and their scores, the heaps, the
traversal helpers, the queries made of a walk, a scan and a heap, the searches of `ic1`, `ic5` and `ic10`, and the
queries over messages with the short reads.

### The search of `ic13`

`ShortestPathProofs` proves for every set of persons, finite or not, every KNOWS relation and
every order of edges, from `GraphsAssumption` (the graphs are relations on persons)
and `InvalidVidAssumption` (the invalid vertex is no person):

* `TypeCorrect`: `Spec => []TypeOK`
* `Invariance`: `Spec => []IInv`
* `ExactLabels`: `Spec => []LabelsAreDistances`
* `FinalLabels`: `Spec => LabelsAreFinal`
* `Refinement`: `Spec => AnswersTheQuery`: the search implements `DistanceQuery`, with
  `answer <- result`.

*The invariant.* That the answer is the distance is not inductive: at the step that returns,
one has to know that no shorter way exists, which the labels alone do not say. `IInv` adds what
the search knows. A labelled person is *open* while it is in the queue, in the next
level, or being expanded, and *closed* afterwards.

* `Levels`: the open persons of a side have one depth, or two neighbouring ones while a level is
  being expanded; closed ones are not deeper than any open one.
* `Frontier`: all friends of a closed person are labelled by the same side and at most one
  deeper; so are the friends of the person being expanded whose edges have been visited.
* `Reached`: a label is witnessed by a chain of friends of that length.
* `Control`: which variables are in use at which `pc`.
* `Outcome`: the result, once there, is an answer of the abstract query.

*The argument.* A walk from the root of a side to a person that side has not closed passes an
open person, and not before the depth of that person (`ClosedPrefix`, `FirstOpen`). A walk between the roots has to leave the closed
persons of the one side through an open one and enter those of the other through another open one, so
it is no shorter than the sum of the two depths and one (`Crossing`); the edge the code returns at is
exactly that long (`MeetIsDistance`). If a queue runs dry, the labelled persons of that
side are a cut (`GiveUpSeparates`). `LabelsExact` derives the exactness of all labels from the same facts.
Induction over the length of a walk is done with the least element of a set of numbers
(`LeastNat`, `SetInduction` in `KnowsGraphProofs`).

### The paths of `ic14`

`PathSearchProofs` proves for every set of persons, every KNOWS relation and any order in which the edges and the
queue of the marking loop are gone through:

* `TypeCorrect`: `Spec => []TypeOK`
* `Invariance`: `Spec => []IInv`
* `MarksRight`: `Spec => []MarkedExactly`
* `AllPathsFound`: `Spec => []AllShortestPaths`
* `PathsOnce`: `Spec => []EachPathOnce`
* `Refinement`: `Spec => AgreesWithIC13`: `ic14` implements `DistanceQuery`, with the number of steps of its paths,
  or -1 if there are none, as the answer, for two different persons. `ic13` implements the same query, so of two
  different persons they agree.

`TypeCorrect` needs nothing but the assumptions of the model; depths that wrap around stay in the width of their type.
All others assume `Narrow`: no two persons who are joined at all are `HalfRange` (128) or more friendships apart.
That is not more than needed: on the chain of `PathSearch_chain` there are two persons 128 apart, and `AgreesWithIC13` fails.
`AllPathsFound` and `MarksRight` speak of numbers of persons and of paths and assume in addition that there are finitely
many persons.

*The invariant* has a part for each `pc`.

* While the sides search (`Levels`, `LabelsExact`, `LabelsComplete`): a label is a distance, nobody up to the depth
  of a side is without one, the queue is the deepest level, and nobody has labels of both sides.
* While the marks spread (`Marking`): the two depths add up to the distance; who is marked is on a shortest path; who is
  on one at the depth where the sides met is marked; of a marked person who has left the queue, the friends one step
  nearer to either end are marked.
* In the walk (`Marked`, `OnTrack`, `NoneLost`, `NoneTwice`): exactly the persons on a shortest path are marked, with
  their distances from the source; every shortest path is found already or goes on from some person of the
  path in hand by an edge still to be followed, and where friendships are stored once not both.
* At the end (`Outcome`): the paths are all shortest ones, or a cut separates the two persons.

*The argument.* As no label of a side was met by the other, the distance of the two persons is greater than the sum of the
depths (`StillApart`); the level that meets makes it equal (`MeetStep`), and an empty level gives a cut
(`NobodyNew`). The marking loop overwrites the depths of the destination's side by distances from the source. It only
ever does so for persons on a shortest path (`NearerOnWay`), and its result does not depend on
the order of its queue, because `Marking` does not mention one: with an empty queue the marks are closed under steps to either end,
and every person on a shortest path is reached from one at the depth of the meeting (`MarksSpread`, `MarkingOver`).
The walk adds a person only at the end of an edge that it takes from `todo`, so the paths that go on by
that edge are those that go on from the longer path (`FollowStep`), and those that go on from a person who is left have all
been found (`LeaveStep`). `AsManyPathsAsWalks` counts: the property compares with the number of walks of `KnowsGraph`.

One person and himself are apart in the invariant (`SelfInv`): both sides search from the same vertex, and what is found is
the person alone, once, or nothing. The last is what somebody without friends gets, or with a single friend at the end of a
chain, where no level meets the other side. `ic13` answers 0 to the same question before it searches (`ic13.cc:50`).
No document or test says what `ic14` owes there, so it is not counted as a disagreement with one:
`AgreesWithIC13` leaves these calls out, `AllShortestPaths` asks of them that nothing else is returned, and
`PathSearch_small` includes them.

### The scores of `ic14`

`PathScoreProofs` proves for every finite set of persons and messages, every set of paths that do not stay
where they are, and any authors and answers, answers that go round in a circle included:

* `TypeCorrect`: `Spec => []TypeOK`
* `PairsAccounted`: `Spec => []PendingOrCached`
* `CacheRight`: `Spec => []CacheIsWeight`
* `ScoresRight`: `Spec => []ScoresAreWeights`

The weight of two persons is a number of comments. `PairScore` sums over the comments of both, `PairScoreOne` and the
rounds sum over the messages of one of them. `Learnt(T, v)` is what the messages `T` of a person tell of him and `v`: it grows
by exactly `MessageGain(m, v)` with each message (`LearntGrows`; an exchange is met at one message only, because the author is
not `v`), is 0 for none and the weight for all of them (`LearntEnds`). A sum over a set is fixed by that
(`SumOf`: the community modules' fold chooses an order of the set; by induction on subsets no order matters), which gives
`PairScoreOneIsWeight` and `PairScoreIsWeight`.

`CacheIsWeight` is not inductive: the counters are shared by all rounds, and the invariant has to say that they are back at 0 between
two rounds, and that in the round of `root` the counter of a neighbour is the mark 1 and what the messages
read so far tell, while all others are at 0 whoever wrote or was answered (`Counting`). Then the counter less the
mark is the weight when the messages are read. `PendingOrCached` gives that the pair was not in the cache, so that the
`+=` of the code enters the weight once, and that the last loop finds every step. Which person
is taken as root, and who of two wrote fewer messages, makes no difference to any of this: the proofs use neither.

### The heaps

`TopNProofs` proves for every limit (`kTopN` a positive number), every set of rows of numbers and every
order of offers:

* `TypeCorrect`: `Spec => []TypeOK`
* `FloorIsExact`: `Spec => []FloorIsTopKey`, of all eleven queries: the copied key is renewed often enough
* `HeapIsFirst`: `Spec => [](query \in Sound => HeapHoldsTheFirst)` (at any time; the run checks the end)
* `ResultIsFirst`: `Spec => [](query \in Sound => ReturnsTheFirst)`

`Sound` are the records whose admission test is their comparer, with a copied key only where the comparer is
by key and identifier; `SoundQueries` shows that nine of the eleven are. For `ic8` and `is2` the
statement is false (`TopN_ties`). Every comparer is a strict weak order (`StrictWeakOrder`). That the heap
holds the first of the rows offered is not inductive once rows are output, because the heap then shrinks: the
invariant (`IInv`) speaks of what is *kept*, the heap together with the rows already output, and adds that the
output is in order and comes after all that is left in the heap. A row replaces the top only
if it precedes it (`FloorIsExact` is needed where the test uses the copy), and then what is
dropped comes after everything kept.

### The traversal helpers

The first part of `ScanCallsProofs` proves of `KnowsTraversal`, which `ScanCalls` extends, for every set of persons, finite or
not, and every graph (`GraphsAssumption` is all it uses):

* `WalkTypes`: `Spec => []TypeOK`
* `WalkInvariance`: `Spec => []WalkInv`
* `FindsWanted`: `Spec => []FindsTheWanted`
* `CallsOnce`: `Spec => []CalledOnce`

`WalkInv` says for each hop what the marks know. In the first hop, what was collected (or called for) are
the ends of the edges taken so far. In the second, every friend of a friend has been seen, is at the end of an edge in
hand, or is a friend of somebody still to be expanded; and the callback has been called once for exactly those that
were seen without being marked from the start. When no edge and nobody to expand is left, the seen ones are
all, and `NearPersons` says that these are the persons at distance one and two, by walks of one and two steps
(`WalkOne`, `WalkTwo`).

### The queries made of a walk, a scan and a heap

The rest of `ScanCallsProofs` proves for any persons, messages, companies and jobs, every graph and every order of edges
and lists:

* `CallTypes`: `CallSpec => []CallTypeOK`
* `OffersWanted`: `BelowMaximum` implies `CallSpec => OffersTheWanted`: the call implements `TopN` over the rows asked for
* `FirstReturned`: `BelowMaximum` implies `CallSpec => []ReturnsTheFirst`: `ic2`, `ic9` and `ic11` return the first of them

from the assumptions of `ScanCalls`: the graphs and worlds are as the module says, `Row` has room for their rows, what
comparers look at is numbers, `kInvalidVid` is no message, and the limit is at least 1. `BelowMaximum` says that no `maxDate`
asked for is `INT64_MAX`. It cannot be left out: there the bound of the scan wraps, `ScanCalls_maxDate` shows what comes of it. `CallTypes` holds
with that date too. For `ic8` and `is2` it is proved that they offer the replies, or messages, asked for, each once; what their heaps
make of them depends on the order (`TopN_ties`).

*The argument* goes from the inside to the outside, with one invariant for each part.

* The walk. `WalkInv` holds of it whether it runs alone or inside a call. `TimesInv` adds how often the callback has been called: for `ic2`,
  once for each edge of the root to the person gone through so far (so at most twice), for the others at most once.
* The types (`ScanTypes`). `ListsOf` says which lists may be open to the scan: those of persons who were called for, of the
  messages of the root, or of the companies once the friends are marked.
* The refinement (`RowInv`). `Remaining` must lose a row exactly when it is offered. So each row is in one place only: still to be called
  for (`Ahead`), in one list, or among the unread rows of the open list. Two lists share no row (`ListsApart`), and the rows of the lists at hand
  are rows asked for (`ListedNow`). A step of the walk moves the rows of the person called for from those ahead into his lists
  (`WalkOnRows`), opening a list moves its rows to the unread ones, and both are stutters of `TopN`. When walk and lists are at their
  end nothing remains (`ScannedAll`): by `FindsTheWanted` and the number of calls, everybody asked for has been called for. So the
  output of `TopN` begins when it may.
* The result. `Ranked` is an instance of `TopNProofs` with the rows asked for and those remaining in place of its rows. Its lemmas apply to the
  refined steps (`HeapData` shows that the assumptions of `TopN` hold of the instance), and `RankInv`, its invariant, gives the result. `SoundCalls` shows that the
  heaps of the three queries are among the sound ones.

### The queries over friends

`FriendCallsProofs` proves for any persons, forums, posts and names, and any number of them:

* `CallTypes`: `Spec => []TypeOK`
* `LayersAreDistances`, `NearestReturned` (`ic1`), `CountsOfMembers`, `BusiestReturned` (`ic5`), `GivingUpIsSafe` (`ic10`):
  `Spec => []P` for the property `P` that `FriendCalls_small` checks of the query

from the assumptions of `FriendCalls`: the graphs and worlds are as the modules say, what comparers look at is numbers, the
limit is at least 1, and `ic10` scores as many outright as the heap may hold. As in `MessageCalls`, the invariant
(`CallInv`) has a part for each query, kept by the steps of that query.

* `ic1` (`SearchInv`): whoever is accessed belongs to the layers before or was met in this one, and the edges still at
  hand lead to the others of the layer. The heap holds the first of those with the name met so far. A row offered to a full heap is compared
  by last name and identifier only; that is the whole comparison because the top of a full heap belongs to the layer in
  hand, or the search would have stopped. When it stops with a full heap, whoever was not met is farther away
  than everybody in it. The property asks that friendships are stored once: in the first layer the code does not look at
  `accessed`, and would offer a friend stored twice two times.
* `ic5`: the count of a forum is the number of its posts by friends done who are members, and by the friend in hand; the
  shared flags are those of the friend in hand, and all down between two friends. In the first pass over the forums with posts the
  heap holds the first of those seen; if it is full at the end, all other forums have no posts and come behind. If it
  is not full the second pass adds forums without posts, and a full heap then has one of them at its top,
  so the test by identifier is enough.
* `ic10`: the property speaks of whole scores, while the code may stop with a part of one. The posts looked at and
  those left make up the whole score of the candidate in hand (`ScoreControl`), from the second loop on the heap is full while there is
  anybody to score, `minScore` is the score of its top (`Threshold`), and the rows kept are the first of those
  decided. Then who is given up has a whole score below the top's, and who is admitted has his whole score
  (`PartOrWhole`). `minScore` is only copied again when the score is greater; when a candidate comes in on a tie, the new top
  has the same score.

### The queries over messages

`MessageCallsProofs` proves for any persons, posts, comments, tags and places, and any number of them:

* `TypeCorrect`: `Spec => []TypeOK`
* `CountriesCounted` (`ic3`), `NewTagsOnly` (`ic4`), `OtherTagsCounted` (`ic6`), `LatestReturned` (`ic7`),
  `RepliesCounted` (`ic12`), `RootAnswered` (`is6`), `ListsSorted` (`is3`, `is7`): `Spec => []P` for the property `P` that
  `MessageCalls_small` checks of the query

from the assumptions of `MessageCalls`: the worlds are as the modules say, no vertex is `kInvalidVid`, posts and comments
differ, there are finitely many messages, tag classes, likes and friendships, persons are numbers (they stand for their
identifiers), likes triples of numbers, and the limit is at least 1. A call runs one query, so the invariant (`IInv`) is a
conjunction with a part for each query, kept by the steps of that query; the lemmas `IC3Next`, `IC4Next` and so on are these steps, and `IC3Result`
and so on draw the property from the part.

* `ic4`, `ic6`: the count of a tag is the number of its posts among those scanned, but 0 once one of the older posts with it
  was scanned (`ic4`; that is what `neg` says) or at the end for the tag asked for (`ic6`). `OneMore` gives that a post is
  counted once, in `ic4` once for each of its scans, of which there are as many as stored edges of the friendship with its author.
* `ic3`: for all `x` and `y` that are the only places of their names, the countries are `x` and `y` when the places are looked
  through, the friends left live in neither, those done have a row exactly when they have messages from both, and the
  two counters are the numbers of messages read of the friend in hand. With `x = y` the second counter stays 0, and nobody has a row.
* `ic12`: while a class is in the queue, every tag under the root is marked or of a class under one in the queue
  (`UnderStep`: under a class are the class and what is under its subclasses). When the queue is empty all are marked, although
  a class may have been in the queue several times. A friend has a row for every stored edge of the friendship. That the queue does become empty is `Termination`.
* the thread lookup: the posts above the message asked for are those above `current` (`ThreadStep`).
* `ic7`: the list is sorted because a like stands at the place that is the number of likes before it, and these numbers are all
  different (`SortedList`). A like is the latest of its person exactly when its left neighbour is
  another person's (`NeighbourTest`), so the heap holds the newest of the latest likes seen, and during the output
  heap and rows together hold the newest of all.
* `is3`, `is7`: what is collected are the rows of the edges looked at, a sorted arrangement of a finite set has every element
  once (`Arrangement`), and each friendship, or reply, corresponds to one row.

### What stays with the model checker

Termination and `ReturnsInFull` (liveness under fairness is beyond the prover), and whatever a recursively defined reference
computes. Every other property of a passing run is the statement of a theorem.  That persons who are joined have a path (`ConnectedHavePaths`) is violated by `PathSearch_chain`; under `Narrow`
it follows from `Refinement`.

## Not modelled

* The engine: storage, indexes, views, the planner. Its `GetVertexIndex` is a choice between a
  vertex and `kInvalidVid`, its edge lists are sets in any order. Parallel edges are left out.
* The output columns (`ValueColumnBuilder` and the like), the loading of property columns and the exceptions when
  one is missing; `kMillisPerDay` arithmetic.
* Reads at `kInvalidVid` where data is missing (`ic3` with an unknown country, `is2` with a comment that answers
  nothing, `ic1`, `ic8`, `ic10`): what happens then is the engine's.
* The call protocol. `bind` counts the arguments and copies the output aliases, `bindParams` copies the bound input and
  fills in the parameters; neither keeps state, and whether one bound input serves several executions is decided in the
  engine. Registration: 21 calls of the catalog in a row, which is the engine's too.
* `get_vertex_column`, `count_edges`, `find_vertex_by_string_prop`: a cast and two loops without state.
  `wiggle()`, the tests, scripts and build files: no logic of the queries.
* The order of paths of equal weight in `ic14` (`std::sort` leaves it open).

## How to run

    tlc -config ShortestPath_small.cfg MCShortestPath.tla
    tlapm ShortestPathProofs.tla

The configuration `<name>_<instance>.cfg` belongs to the module `MC<name>`.
