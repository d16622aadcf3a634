----------------------------- MODULE MCPathScore -----------------------------
(* Instances of PathScore for TLC.                                          *)
EXTENDS PathScore

CONSTANTS p1, c1, c2, c3

SixPersons == 1..6
OnePost == {p1}
ThreeComments == {c1, c2, c3}

(* Sets of shortest paths the search may find on six persons, from 1: one   *)
(* path, or several that share the first steps, the last steps, or nothing; *)
(* the last is one that comes down to a single pair.                        *)
PathSets ==
  {{<<1, 2, 3, 5>>},
   {<<1, 2, 5>>, <<1, 3, 5>>},
   {<<1, 2, 3, 5>>, <<1, 2, 4, 5>>},
   {<<1, 2, 4, 5>>, <<1, 3, 4, 5>>},
   {<<1, 2, 3, 4, 6>>, <<1, 2, 3, 5, 6>>}}

(* c1 may answer the post, c2 the post or c1, c3 one of these two.          *)
Threads ==
  {r \in [ThreeComments -> {p1, c1, c2, none}] :
     /\ r[c1] \in {p1, none}
     /\ r[c2] \in {p1, c1}
     /\ r[c3] \in {c1, c2}}

ManyWorlds ==
  [paths : PathSets,
   creator : [{p1, c1, c2, c3} -> SixPersons],
   replyOf : Threads]
===============================================================================
