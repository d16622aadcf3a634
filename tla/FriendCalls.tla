------------------------------ MODULE FriendCalls ------------------------------
(****************************************************************************)
(* A call of one of the three queries that end in a list of persons or      *)
(* forums around a person: IC1 (module FriendSearch), IC5 (ForumCount) or   *)
(* IC10 (InterestScore).  A call runs one of them to its end; the variables *)
(* are those of the three modules, of which it uses those of its own query. *)
(****************************************************************************)
EXTENDS KnowsGraph, Sequences

CONSTANTS Graphs, Roots, NameSets, lastName,            \* of IC1, with Person
          Friend, Forum, Post, IC5Worlds,               \* of IC5
          Candidate, kFirst, IC10Worlds,                \* of IC10
          kTopN,
          none           \* the value of a variable that is not used

VARIABLES
  call,        \* the query that is running
  known,       \* whether the person is there
  heap, results, pc,                                      \* of all three
  world, friends,                                         \* of IC5 and IC10
  accessed,                                               \* of IC1 and IC5
  knows, root, named, layer, todo, next,                  \* of IC1
  posts, personForums, forums, postCount, offered,        \* of IC5
  unmet, v, common, other, score, minScore                \* of IC10

IC1 == INSTANCE FriendSearch
IC5 == INSTANCE ForumCount WITH Worlds <- IC5Worlds
IC10 == INSTANCE InterestScore WITH Worlds <- IC10Worlds

ASSUME PersonAssumption == Person \cup Forum \cup Candidate \subseteq Nat
ASSUME GraphsAssumption ==
  /\ Graphs \subseteq SUBSET (Person \X Person)
  /\ Roots \subseteq Person
  /\ NameSets \subseteq SUBSET Person
  /\ lastName \in [Person -> Nat]
ASSUME WorldsAssumption ==
  /\ \A w \in IC5Worlds : w \in IC5!World
  /\ \A w \in IC10Worlds : w \in IC10!World
ASSUME LimitAssumption == kTopN \in Nat \ {0} /\ kFirst = kTopN

OfIC1 == <<knows, root, named, layer, todo, next>>
OfIC5 == <<posts, personForums, forums, postCount, offered>>
OfIC10 == <<unmet, v, common, other, score, minScore>>
vars == <<call, known, heap, results, pc, world, friends, accessed, OfIC1, OfIC5, OfIC10>>

(* The variables of the queries that are not running.                       *)
NoIC1 ==
  /\ knows = none /\ root = none /\ named = none
  /\ layer = none /\ todo = none /\ next = none
NoIC5 ==
  /\ posts = none /\ personForums = none /\ forums = none
  /\ postCount = none /\ offered = none
NoIC10 ==
  /\ unmet = none /\ v = none /\ common = none
  /\ other = none /\ score = none /\ minScore = none

Init ==
  /\ known \in BOOLEAN
  /\ \/ /\ call = "ic1" /\ IC1!Init /\ world = none /\ friends = none
        /\ NoIC5 /\ NoIC10
     \/ /\ call = "ic5" /\ IC5!Init
        /\ NoIC1 /\ NoIC10
     \/ /\ call = "ic10" /\ IC10!Init /\ accessed = none
        /\ NoIC1 /\ NoIC5

(* exec returns an empty context for a person who is not there.             *)
Reject ==
  /\ ~ known
  /\ pc # "done"
  /\ pc' = "done"
  /\ UNCHANGED <<call, known, heap, results, world, friends, accessed, OfIC1, OfIC5, OfIC10>>

RunIC1 ==
  /\ known /\ call = "ic1"
  /\ IC1!Next
  /\ UNCHANGED <<call, known, world, friends, OfIC5, OfIC10>>

RunIC5 ==
  /\ known /\ call = "ic5"
  /\ IC5!Next
  /\ UNCHANGED <<call, known, OfIC1, OfIC10>>

RunIC10 ==
  /\ known /\ call = "ic10"
  /\ IC10!Next
  /\ UNCHANGED <<call, known, accessed, OfIC1, OfIC5>>

Next == Reject \/ RunIC1 \/ RunIC5 \/ RunIC10

Spec == Init /\ [][Next]_vars

------------------------------------------------------------------------------
(****************************************************************************)
(* Properties.                                                              *)
(****************************************************************************)

(* The variables of the running query have their types; among them: only    *)
(* listed forums are flagged, no layer is beyond the third.                 *)
TypeOK ==
  /\ call = "ic1" => IC1!TypeOK
  /\ call = "ic5" => IC5!TypeOK
  /\ call = "ic10" => IC10!TypeOK

(* IC1: the first of the persons within three steps that have the name.     *)
ReturnsTheNearest == known /\ call = "ic1" => IC1!ReturnsTheNearest

(* IC1: nobody is met in a layer farther than his distance.                 *)
MetAtDistance == call = "ic1" => IC1!MetAtDistance

(* IC5: the first of the forums the friends joined, by their posts there.   *)
ReturnsTheBusiest == known /\ call = "ic5" => IC5!ReturnsTheFirst

(* IC5: a post counts for a forum only if its author joined that forum.     *)
CountsAreOfMembers == call = "ic5" => IC5!CountsAreOfMembers

(* IC10: the first of the friends of friends born under the sign, by their  *)
(* whole scores.                                                            *)
ReturnsTheBestMatches == known /\ call = "ic10" => IC10!ReturnsTheFirst
===============================================================================
