----------------------------- MODULE InterestScore -----------------------------
(****************************************************************************)
(* IC10, friends of friends by common interests (exec and its helpers in    *)
(* src/ic10.cc, from the callback of foreach_knows_2d_neighbor on).  Those  *)
(* born under the sign that begins in the given month are collected.  Each  *)
(* scores 1 for a post with a tag the person is interested in and -1 for    *)
(* any other.  The first ten are scored outright; a later one is given up   *)
(* as soon as the posts left to him cannot bring him up to the lowest score *)
(* in the heap, so that his score may be too low.                           *)
(*                                                                          *)
(* Candidates are numbers and stand for their identifiers.                  *)
(****************************************************************************)
EXTENDS Integers, Sequences, FiniteSets

CONSTANTS Candidate,     \* the friends of friends
          Worlds,        \* records [common, other, birthday, month] to run on
          kFirst,        \* the candidates scored outright: 10
          kTopN          \* 10

(* How many posts of either kind a candidate wrote, when he was born, and   *)
(* the month asked for.                                                     *)
World ==
  [common : [Candidate -> Nat], other : [Candidate -> Nat],
   birthday : [Candidate -> (1..12) \X (1..31)], month : 1..12]

None == -1

VARIABLES
  world,
  unmet,         \* those the callback was not yet called for
  friends,       \* those collected and not yet taken
  v,             \* the candidate being scored
  common, other, \* his posts still to be looked at
  score, minScore,
  heap,          \* pq: pairs of a score and a candidate
  results, pc

vars == <<world, unmet, friends, v, common, other, score, minScore, heap, results, pc>>

TypeOK ==
  /\ world \in Worlds
  /\ unmet \subseteq Candidate
  /\ friends \subseteq Candidate
  /\ v \in Candidate \cup {None}
  /\ common \in Nat /\ other \in Nat
  /\ score \in Int
  /\ minScore \in Int
  /\ heap \subseteq Int \X Candidate
  /\ results \in Seq(Int \X Candidate)
  /\ pc \in {"collect", "first", "next", "score", "output", "done"}

Init ==
  /\ world \in Worlds
  /\ unmet = Candidate
  /\ friends = {}
  /\ v = None
  /\ common = 0 /\ other = 0
  /\ score = 0
  /\ minScore = 0
  /\ heap = {}
  /\ results = << >>
  /\ pc = "collect"

(* Flawed on purpose: no month follows December.                            *)
MatchesZodiacMonthOfOneYear(birthday, month) ==
  \/ birthday[1] = month /\ birthday[2] >= 21
  \/ birthday[1] = month + 1 /\ birthday[2] < 22

(* matches_zodiac_month.                                                    *)
MatchesZodiacMonth(birthday, month) ==
  LET nextMonth == IF month = 12 THEN 1 ELSE month + 1
  IN \/ birthday[1] = month /\ birthday[2] >= 21
     \/ birthday[1] = nextMonth /\ birthday[2] < 22

Collect(x) ==
  /\ pc = "collect"
  /\ x \in unmet
  /\ unmet' = unmet \ {x}
  /\ friends' = IF MatchesZodiacMonth(world.birthday[x], world.month)
                THEN friends \cup {x} ELSE friends
  /\ UNCHANGED <<world, v, common, other, score, minScore, heap, results, pc>>

EndOfCollect ==
  /\ pc = "collect"
  /\ unmet = {}
  /\ pc' = "first"
  /\ UNCHANGED <<world, unmet, friends, v, common, other, score, minScore, heap, results>>

Precedes(r, t) == r[1] > t[1] \/ (r[1] = t[1] /\ r[2] < t[2])

IsTop(w, h) == w \in h /\ \A r \in h \ {w} : Precedes(r, w)

(* score_friend_posts.                                                      *)
Score(x) == world.common[x] - world.other[x]

ScoreFirst(x) ==
  /\ pc = "first"
  /\ Cardinality(heap) < kFirst
  /\ x \in friends
  /\ friends' = friends \ {x}
  /\ heap' = heap \cup {<<Score(x), x>>}
  /\ UNCHANGED <<world, unmet, v, common, other, score, minScore, results, pc>>

EndOfFirst ==
  /\ pc = "first"
  /\ Cardinality(heap) >= kFirst \/ friends = {}
  /\ minScore' \in (IF heap = {} THEN {0} ELSE {w[1] : w \in {t \in heap : IsTop(t, heap)}})
  /\ pc' = "next"
  /\ UNCHANGED <<world, unmet, friends, v, common, other, score, heap, results>>

TakeFriend(x) ==
  /\ pc = "next"
  /\ x \in friends
  /\ friends' = friends \ {x}
  /\ v' = x
  /\ common' = world.common[x]
  /\ other' = world.other[x]
  /\ score' = 0
  /\ pc' = "score"
  /\ UNCHANGED <<world, unmet, minScore, heap, results>>

Remaining == common + other

(* Flawed on purpose: who can still draw level is given up.                 *)
HopelessOnATie == score + Remaining <= minScore

Hopeless == score + Remaining < minScore

ScoreCommon ==
  /\ pc = "score"
  /\ common > 0
  /\ ~ Hopeless
  /\ common' = common - 1
  /\ score' = score + 1
  /\ UNCHANGED <<world, unmet, friends, v, other, minScore, heap, results, pc>>

ScoreOther ==
  /\ pc = "score"
  /\ other > 0
  /\ ~ Hopeless
  /\ other' = other - 1
  /\ score' = score - 1
  /\ UNCHANGED <<world, unmet, friends, v, common, minScore, heap, results, pc>>

(* The posts are done, or the rest is given up.                             *)
Offer ==
  LET room == Cardinality(heap) < kTopN IN
  /\ pc = "score"
  /\ Remaining = 0 \/ Hopeless
  /\ IF room
     THEN heap' = heap \cup {<<score, v>>}
     ELSE \E w \in heap :
            /\ IsTop(w, heap)
            /\ heap' = IF score > minScore \/ (score = minScore /\ v < w[2])
                       THEN (heap \ {w}) \cup {<<score, v>>} ELSE heap
  /\ IF room \/ score > minScore
     THEN minScore' \in {w[1] : w \in {t \in heap' : IsTop(t, heap')}}
     ELSE minScore' = minScore
  /\ v' = None
  /\ common' = 0
  /\ other' = 0
  /\ pc' = "next"
  /\ UNCHANGED <<world, unmet, friends, score, results>>

EndOfScan ==
  /\ pc = "next"
  /\ friends = {}
  /\ pc' = "output"
  /\ UNCHANGED <<world, unmet, friends, v, common, other, score, minScore, heap, results>>

(* The heap is emptied from the top, and the rows output in reverse.        *)
Output(w) ==
  /\ pc = "output"
  /\ IsTop(w, heap)
  /\ heap' = heap \ {w}
  /\ results' = <<w>> \o results
  /\ UNCHANGED <<world, unmet, friends, v, common, other, score, minScore, pc>>

Return ==
  /\ pc = "output"
  /\ heap = {}
  /\ pc' = "done"
  /\ UNCHANGED <<world, unmet, friends, v, common, other, score, minScore, heap, results>>

Next ==
  \/ \E x \in Candidate : Collect(x) \/ ScoreFirst(x) \/ TakeFriend(x)
  \/ EndOfCollect \/ EndOfFirst \/ ScoreCommon \/ ScoreOther \/ Offer
  \/ EndOfScan \/ \E w \in heap : Output(w)
  \/ Return

Spec == Init /\ [][Next]_vars

------------------------------------------------------------------------------
(****************************************************************************)
(* Properties.                                                              *)
(****************************************************************************)

(* Born on or after the 21st of the month and before the 22nd of the next:  *)
(* within 32 days on a calendar that goes round in months of 31 days.       *)
InSign(x) ==
  LET day(m, d) == 31 * m + d
  IN (day(world.birthday[x][1], world.birthday[x][2]) - day(world.month, 21)) % 372 < 32

(* The call returns the first kTopN of the candidates born under the sign,  *)
(* by their whole scores: giving one up early never keeps him with a part   *)
(* of his score, and never costs him a place, in whatever order the         *)
(* candidates and their posts are scored.                                   *)
ReturnsTheFirst ==
  LET all == {<<Score(x), x>> : x \in {y \in Candidate : InSign(y)}}
      found == {results[i] : i \in DOMAIN results}
  IN /\ heap \subseteq all
     /\ pc = "done" =>
          /\ found \subseteq all /\ Len(results) = Cardinality(found)
          /\ Len(results) = kTopN \/ found = all
          /\ \A r \in found, t \in all \ found : Precedes(r, t)
          /\ \A i, j \in DOMAIN results : i < j => Precedes(results[i], results[j])
===============================================================================
