---------------------------- MODULE MCFriendCalls ----------------------------
(* Instances of FriendCalls for TLC.                                        *)
EXTENDS FriendCalls

CONSTANTS v1, v2, p1, p2, p3

(* IC1: a root and four others, and every set of friendships among them.    *)
FivePersons == 1..5
SimpleGraphs == SUBSET {e \in FivePersons \X FivePersons : e[1] < e[2]}
FirstPerson == {1}

(* Two of the others have the name, or all; two share a last name.          *)
TwoOrAll == {{2, 5}, {2, 3, 4, 5}}
LastNames == <<1, 3, 2, 2, 1>>

TwoFriends == {v1, v2}
FourForums == 1..4
ThreePosts == {p1, p2, p3}

(* IC5: any memberships of two friends in four forums, and three posts; the *)
(* first post is by v1 in forum 1, the others are in any or in none.        *)
ManyForums ==
  [joined  : SUBSET (TwoFriends \X FourForums),
   creator : {c \in [ThreePosts -> TwoFriends] : c[p1] = v1},
   forumOf : {f \in [ThreePosts -> FourForums \cup {none}] : f[p1] = 1}]

FourCandidates == 1..4

(* IC10: all the candidates born under the sign, with any scores; or born   *)
(* on either side of its two ends, for three months about the end of a      *)
(* year.                                                                    *)
ManyScores ==
  [common   : [FourCandidates -> 0..2],
   other    : [FourCandidates -> 0..1],
   birthday : {[c \in FourCandidates |-> <<12, 25>>]},
   month    : {12}]
  \cup
  [common   : {<<2, 1, 0, 0>>},
   other    : {<<0, 0, 0, 1>>},
   birthday : [FourCandidates -> {<<12, 20>>, <<12, 21>>, <<1, 21>>, <<1, 22>>}],
   month    : {11, 12, 1}]
===============================================================================
