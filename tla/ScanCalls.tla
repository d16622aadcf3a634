------------------------------- MODULE ScanCalls -------------------------------
(****************************************************************************)
(* A call of one of the queries that scan lists of messages, or of jobs,    *)
(* and keep the first kTopN of what they meet:                              *)
(*   IC2   the messages of the friends of a person, up to a date            *)
(*   IC9   those of his friends and of their friends, up to a date          *)
(*   IS2   his own messages                                                 *)
(*   IC8   the replies to his messages                                      *)
(*   IC11  the jobs his friends, and their friends, took in a country       *)
(*         before a year                                                    *)
(* The call composes two other modules: the walk over the friends is        *)
(* KnowsTraversal, whose variables and steps are used as they are, and the  *)
(* priority queue is an instance of TopN.  For IC2 and IC9 the callback of  *)
(* the walk scans the messages of the person it is called for before the    *)
(* walk goes on; IC11 scans when the friends are marked.                    *)
(****************************************************************************)
EXTENDS KnowsTraversal, Sequences

CONSTANTS Roots,         \* the persons to ask for
          Post, Comment, Company,
          Worlds,        \* the rest of the data, see World
          Limits,        \* the values of maxDate and of workFromYear
          MaxDate,       \* INT64_MAX
          Queries, Row, kTopN,      \* of TopN
          none           \* StorageReadInterface::kInvalidVid

VARIABLES
  call,        \* the query that is running
  known,       \* whether the person, and the country of IC11, are there
  world, limit,
  lists,       \* the lists of edges the scan has yet to open
  unread,      \* the rows of the open list that were not yet offered
  query, heap, floor, results,                          \* of TopN
  phase        \* where exec stands; pc is where the walk does

Heap == INSTANCE TopN WITH rest <- unread, rows <- Row

Message == Post \cup Comment

(* Persons, messages and companies are numbers and stand for what the       *)
(* comparers look at: identifiers and, of a company, the name.  The date of *)
(* a message is that of its HASCREATOR edge.                                *)
World ==
  [author    : [Message -> Person],
   date      : [Message -> Nat],
   replyOf   : [Comment -> Message \cup {none}],
   companies : SUBSET Company,                     \* those in the country
   jobs      : SUBSET (Person \X Company \X Nat)]  \* WORKAT and its year

ASSUME WorldsAssumption == \A w \in Worlds : w \in World
ASSUME NumbersAssumption ==
  /\ Person \cup Message \cup Company \subseteq Nat
  /\ Post \cap Comment = {}
  /\ none \notin Message
ASSUME RootsAssumption == Roots \subseteq Person
ASSUME LimitsAssumption == MaxDate \in Nat /\ Limits \subseteq 0..MaxDate

(* The rows have room for what is in the worlds; a friend is called for     *)
(* twice at most, once for each direction in which he may be stored.        *)
ASSUME RowsAssumption ==
  /\ Row \subseteq Nat \X Nat \X Nat
  /\ \A w \in Worlds : /\ {<<w.date[m], m, k>> : m \in Message, k \in 0..2} \subseteq Row
                       /\ {<<j[3], j[1], j[2]>> : j \in w.jobs} \subseteq Row
ASSUME HeapAssumption ==
  /\ Queries = {Heap!IC2, Heap!IC8, Heap!IC9, Heap!IC11, Heap!IS2}
  /\ kTopN \in Nat \ {0}

OfWalk == <<knows, root, helper, todo, hop1, seen, calls, pc>>
OfCall == <<call, known, world, limit>>
callVars == <<OfCall, OfWalk, lists, unread, query, heap, floor, results, phase>>

MessageList == {"post", "comment"}

CallTypeOK ==
  /\ call \in {"ic2", "ic8", "ic9", "ic11", "is2"}
  /\ known \in BOOLEAN
  /\ world \in Worlds
  /\ limit \in Limits \cup {none}
  /\ TypeOK
  /\ lists \subseteq (MessageList \X (Person \cup Message)) \cup ({"company"} \X Company)
  /\ unread \subseteq Row
  /\ query \in Queries
  /\ heap \subseteq Row /\ Cardinality(heap) <= kTopN
  /\ floor \in Nat
  /\ results \in Seq(Row)
  /\ phase \in {"find", "scan", "done"}

------------------------------------------------------------------------------
MessagesOf(kind, v) ==
  {m \in (IF kind = "post" THEN Post ELSE Comment) : world.author[m] = v}

NoWalk ==
  /\ knows = {} /\ helper = "neighbor"
  /\ todo = {} /\ hop1 = {} /\ seen = {}
  /\ calls = [v \in Person |-> 0]
  /\ pc = "done"

Begin(q, order, l) == call = q /\ query = order /\ lists = l

CallInit ==
  /\ known \in BOOLEAN
  /\ world \in Worlds
  /\ root \in Roots
  /\ \/ /\ Begin("ic2", Heap!IC2, {})
        /\ limit \in Limits /\ Init /\ helper = "neighbor"
     \/ /\ Begin("ic9", Heap!IC9, {})
        /\ limit \in Limits /\ Init /\ helper = "1d_2d"
     \/ /\ Begin("ic11", Heap!IC11, {})
        /\ limit \in Limits /\ Init /\ helper = "mark"
     \/ /\ Begin("is2", Heap!IS2, MessageList \X {root})
        /\ limit = none /\ NoWalk
     \/ /\ Begin("ic8", Heap!IC8, UNION {{k} \X MessagesOf(k, root) : k \in MessageList})
        /\ limit = none /\ NoWalk
  /\ unread = {}
  /\ heap = {}
  /\ floor = 0
  /\ results = << >>
  /\ phase = "find"

(* A person, or a country, that is not there has an empty answer.           *)
Find ==
  /\ phase = "find"
  /\ phase' = IF known THEN "scan" ELSE "done"
  /\ UNCHANGED <<OfCall, OfWalk, lists, unread, query, heap, floor, results>>

(* Flawed on purpose: the callback scans the posts only.                    *)
WalkOnForPosts ==
  /\ phase = "scan" /\ lists = {} /\ unread = {}
  /\ Next
  /\ lists' = IF call = "ic11"
              THEN {l \in {"company"} \X world.companies : pc' = "done"}
              ELSE {"post"} \X {v \in Person : calls'[v] > calls[v]}
  /\ UNCHANGED <<OfCall, unread, query, heap, floor, results, phase>>

(* The walk goes on when the callback has returned; whoever it calls back   *)
(* for now is scanned, his posts first.                                     *)
WalkOn ==
  /\ phase = "scan" /\ lists = {} /\ unread = {}
  /\ Next
  /\ lists' = IF call = "ic11"
              THEN {l \in {"company"} \X world.companies : pc' = "done"}
              ELSE MessageList \X {v \in Person : calls'[v] > calls[v]}
  /\ UNCHANGED <<OfCall, unread, query, heap, floor, results, phase>>

(* DateTime(max_date_ms + 1): the sum of two 64-bit integers wraps.         *)
Threshold == IF limit = MaxDate THEN -(MaxDate + 1) ELSE limit + 1

(* Flawed on purpose: the bound is taken for an inclusive one.              *)
InWindowInclusive(m) == world.date[m] <= Threshold

InWindow(m) == world.date[m] < Threshold

(* The rows of a list.  A message met in the list of a person who is called *)
(* for twice makes two rows, told apart by the number of the call.          *)
RowsOf(l) ==
  LET x == l[2] IN
  CASE call \in {"ic2", "ic9"} ->
         {<<world.date[m], m, calls[x]>> : m \in {n \in MessagesOf(l[1], x) : InWindow(n)}}
    [] call = "is2" -> {<<world.date[m], m, 0>> : m \in MessagesOf(l[1], x)}
    [] call = "ic8" -> {<<world.date[c], c, 0>> : c \in {d \in Comment : world.replyOf[d] = x}}
    [] call = "ic11" ->
         {<<j[3], j[1], x>> : j \in {k \in world.jobs : k[2] = x /\ k[3] < limit /\ k[1] \in seen}}

OpenList(l) ==
  /\ phase = "scan" /\ unread = {}
  /\ l \in lists
  /\ l[1] = "comment" => \A k \in lists : k[1] = "comment"
  /\ lists' = lists \ {l}
  /\ unread' = RowsOf(l)
  /\ UNCHANGED <<OfCall, OfWalk, query, heap, floor, results, phase>>

(* Flawed on purpose: the size of the heap is not looked at.                *)
OfferUnbounded(r) ==
  /\ phase = "scan"
  /\ r \in unread
  /\ unread' = unread \ {r}
  /\ heap' = heap \cup {r}
  /\ UNCHANGED <<OfCall, OfWalk, lists, query, floor, results, phase>>

Offer(r) ==
  /\ phase = "scan"
  /\ Heap!Push(r) \/ \E w \in heap : Heap!Replace(r, w) \/ Heap!Drop(r, w)
  /\ UNCHANGED <<OfCall, OfWalk, lists, phase>>

Scanned == pc = "done" /\ lists = {} /\ unread = {}

Output(w) ==
  /\ phase = "scan" /\ Scanned
  /\ Heap!Output(w)
  /\ UNCHANGED <<OfCall, OfWalk, lists, phase>>

Return ==
  /\ phase = "scan" /\ Scanned /\ heap = {}
  /\ phase' = "done"
  /\ UNCHANGED <<OfCall, OfWalk, lists, unread, query, heap, floor, results>>

CallNext ==
  \/ Find \/ WalkOn
  \/ \E l \in lists : OpenList(l)
  \/ \E r \in unread : Offer(r)
  \/ \E w \in heap : Output(w)
  \/ Return

CallSpec == CallInit /\ [][CallNext]_callVars
FairSpec == CallSpec /\ WF_callVars(CallNext)

------------------------------------------------------------------------------
(****************************************************************************)
(* Properties.                                                              *)
(****************************************************************************)

(* What the queries are asked for, without a walk or a scan.  IC2 meets the *)
(* messages of a friend once for every time the friendship is stored.       *)
TimesFriend(v) == Cardinality({e \in {<<root, v, "out">>, <<v, root, "in">>} :
                                 <<e[1], e[2]>> \in knows})

Near == {v \in Person : \E n \in 1..2 : IsDistance(knows, n, root, v)}

Rows(M, K) == {<<world.date[m], m, k>> : m \in M, k \in K}

WantedRows ==
  LET upTo == {m \in Message : world.date[m] <= limit}
  IN CASE call = "ic2" -> {r \in Rows(upTo, {1, 2}) : r[3] <= TimesFriend(world.author[r[2]])}
       [] call = "ic9" -> Rows({m \in upTo : world.author[m] \in Near}, {1})
       [] call = "is2" -> Rows({m \in Message : world.author[m] = root}, {0})
       [] call = "ic8" -> Rows({c \in Comment : \E m \in Message : /\ world.replyOf[c] = m
                                                                   /\ world.author[m] = root},
                               {0})
       [] call = "ic11" -> {<<j[3], j[1], j[2]>> :
                              j \in {k \in world.jobs : /\ k[1] \in Near
                                                        /\ k[2] \in world.companies
                                                        /\ k[3] < limit}}

(* Those the scan has yet to come to.                                       *)
Remaining ==
  {r \in WantedRows :
     \/ r \in unread \/ \E l \in lists : r \in RowsOf(l)
     \/ call \in {"ic2", "ic9"} /\ r[3] > calls[world.author[r[2]]]
     \/ call = "ic11" /\ pc # "done"}

Sorted == INSTANCE TopN WITH rows <- WantedRows, rest <- Remaining

(* The call implements the heap of TopN over the rows it is asked for: walk *)
(* and scan offer these and no others, each of them once, and the output    *)
(* begins when all were offered.                                            *)
OffersTheWanted == Sorted!Spec

(* IC2, IC9 and IC11 return the first kTopN of the rows they are asked for, *)
(* in their order, whatever the order of storage; which of several equal    *)
(* replies IC8 returns, and which messages IS2, depends on that order.      *)
ReturnsTheFirst ==
  phase = "done" /\ known /\ call \in {"ic2", "ic9", "ic11"} =>
    /\ Sorted!AreFirst({results[i] : i \in DOMAIN results}, WantedRows)
    /\ \A i, j \in DOMAIN results :
         i < j => ~ Sorted!Precedes(query.comparer, results[j], results[i])

InFull == Len(results) = kTopN \/ Len(results) = Cardinality(WantedRows)

(* Every call returns, with all the rows it was asked for or as many as the *)
(* limit allows: neither the walk nor a list is left before its end.        *)
ReturnsInFull == <>(phase = "done" /\ (known => InFull))

(* "keep edges with minDate <= creationDate <= maxDate (inclusive)", says   *)
(* include/ldbc_common.h of the scan of IC9, for whatever maxDate.          *)
KeepsTheWindow == phase = "done" /\ known /\ call = "ic9" => InFull
===============================================================================
