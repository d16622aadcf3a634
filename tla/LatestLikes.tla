----------------------------- MODULE LatestLikes -----------------------------
(****************************************************************************)
(* IC7, the latest like of every person for the messages of a person        *)
(* (collect_likes and exec of src/ic7.cc).  The likes of all messages are   *)
(* sorted by person, newest first, then by message; the first of each       *)
(* person's goes to the heap of the kTopN newest, the rest are skipped by   *)
(* comparing neighbours in the sorted list.                                 *)
(*                                                                          *)
(* Persons, messages and dates are numbers; a like is a triple of a person, *)
(* a date and a message.                                                    *)
(****************************************************************************)
EXTENDS Integers, Sequences, FiniteSets

CONSTANTS Like,          \* the likes there may be
          Friends,       \* the sets of friends to run with
          kTopN

VARIABLES
  likes,       \* the likes in the graph
  friends,
  messages,    \* the list of likes
  i,           \* the position in the list
  heap,        \* pq
  rows,        \* the rows output: a like and whether it is of a stranger
  pc

vars == <<likes, friends, messages, i, heap, rows, pc>>

TypeOK ==
  /\ likes \subseteq Like
  /\ friends \in Friends
  /\ messages \in Seq(Like)
  /\ i \in Nat
  /\ heap \subseteq likes
  /\ rows \in Seq(Like \X BOOLEAN)
  /\ pc \in {"sort", "scan", "output", "done"}

Init ==
  /\ likes \in SUBSET Like
  /\ friends \in Friends
  /\ messages = << >>
  /\ i = 1
  /\ heap = {}
  /\ rows = << >>
  /\ pc = "sort"

ByPersonNewestFirst(r, t) ==
  \/ r[1] < t[1]
  \/ r[1] = t[1] /\ r[2] > t[2]
  \/ r[1] = t[1] /\ r[2] = t[2] /\ r[3] < t[3]

(* Flawed on purpose: the oldest like comes first.                          *)
SortedBackwards(S) ==
  [k \in 1..Cardinality(S) |->
     CHOOSE l \in S : Cardinality({m \in S : ByPersonNewestFirst(l, m)}) = k - 1]

(* std::sort: a like stands after those that come before it.                *)
Sorted(S) ==
  [k \in 1..Cardinality(S) |->
     CHOOSE l \in S : Cardinality({m \in S : ByPersonNewestFirst(m, l)}) = k - 1]

CollectAndSort ==
  /\ pc = "sort"
  /\ messages' = Sorted(likes)
  /\ pc' = "scan"
  /\ UNCHANGED <<likes, friends, i, heap, rows>>

(* LikeResultComparer.                                                      *)
Precedes(r, t) == r[2] > t[2] \/ (r[2] = t[2] /\ r[1] < t[1])

IsTop(w) == w \in heap /\ \A r \in heap \ {w} : Precedes(r, w)

SamePersonAsBefore == i > 1 /\ messages[i][1] = messages[i-1][1]

Scan ==
  /\ pc = "scan"
  /\ i <= Len(messages)
  /\ i' = i + 1
  /\ UNCHANGED <<likes, friends, messages, rows, pc>>

Skip == Scan /\ SamePersonAsBefore /\ heap' = heap

Push ==
  /\ Scan
  /\ ~ SamePersonAsBefore
  /\ Cardinality(heap) < kTopN
  /\ heap' = heap \cup {messages[i]}

Replace ==
  /\ Scan
  /\ ~ SamePersonAsBefore
  /\ Cardinality(heap) = kTopN
  /\ \E w \in heap :
       /\ IsTop(w)
       /\ heap' = IF Precedes(messages[i], w) THEN (heap \ {w}) \cup {messages[i]} ELSE heap

EndOfScan ==
  /\ pc = "scan"
  /\ i > Len(messages)
  /\ pc' = "output"
  /\ UNCHANGED <<likes, friends, messages, i, heap, rows>>

Output(w) ==
  /\ pc = "output"
  /\ IsTop(w)
  /\ heap' = heap \ {w}
  /\ rows' = <<<<w, w[1] \notin friends>>>> \o rows
  /\ UNCHANGED <<likes, friends, messages, i, pc>>

Return ==
  /\ pc = "output"
  /\ heap = {}
  /\ pc' = "done"
  /\ UNCHANGED <<likes, friends, messages, i, heap, rows>>

Next ==
  \/ CollectAndSort \/ Skip \/ Push \/ Replace \/ EndOfScan
  \/ \E w \in heap : Output(w)
  \/ Return

Spec == Init /\ [][Next]_vars

------------------------------------------------------------------------------
(****************************************************************************)
(* Properties.                                                              *)
(****************************************************************************)

(* The latest like of each person, and of equally late ones the one for the *)
(* first message.                                                           *)
Latest ==
  {l \in likes : \A k \in likes : k[1] = l[1] => ~ ByPersonNewestFirst(k, l)}

(* The call returns the newest kTopN of the latest likes, one per person,   *)
(* newest first, and says of each whether the person is a friend.           *)
ReturnsTheLatest ==
  pc = "done" =>
    LET found == {rows[j][1] : j \in DOMAIN rows} IN
    /\ found \subseteq Latest
    /\ Len(rows) = Cardinality(found)
    /\ Len(rows) < kTopN => found = Latest
    /\ \A l \in found, k \in Latest \ found : Precedes(l, k)
    /\ \A j, k \in DOMAIN rows : j < k => Precedes(rows[j][1], rows[k][1])
    /\ \A j \in DOMAIN rows : rows[j][2] <=> rows[j][1][1] \notin friends
===============================================================================
