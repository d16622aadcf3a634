---------------------------- MODULE MCScanCalls ----------------------------
(* Instances of ScanCalls for TLC.                                          *)
EXTENDS ScanCalls, TLC

FourPersons == 1..4
TwoRoots == {1, 2}
Posts == {1, 2}
Comments == {3, 4, 5}
TwoCompanies == {1, 2}

(* 1 and 2 know each other, stored once or twice, or do not; 2 may know 3,  *)
(* who knows 4: 4 may be three steps away, or out of reach.                 *)
SomeGraphs == {g \cup {<<4, 3>>} : g \in SUBSET {<<1, 2>>, <<2, 1>>, <<2, 3>>}}

(* Two posts and three comments, by 2 and 3, one by the root or not, one by *)
(* 4 or not; some share their date and one may be the newest or the oldest. *)
(* All three comments answer the post 2, or 5 answers 3, or one answers     *)
(* nothing.  The jobs are of friends, friends of friends and others, before *)
(* the year asked for or in it.                                             *)
SomeWorlds ==
  [author    : {<<2, 1, 2, 3, 2>>, <<2, 2, 3, 4, 2>>, <<2, 1, 3, 4, 2>>},
   date      : {<<1, d, 1, 2, 1>> : d \in {0, 2}},
   replyOf   : {(3 :> 2) @@ (4 :> 2) @@ (5 :> n) : n \in {2, 3}}
               \cup {(3 :> none) @@ (4 :> 1) @@ (5 :> 1)},
   companies : {{1, 2}},
   jobs      : {{<<2, 1, 1>>, <<3, 1, 1>>, <<3, 2, 1>>, <<4, 1, 0>>, <<1, 1, 0>>, <<2, 2, 2>>}}]

SomeRows == (0..2) \X (1..5) \X (0..2)
TwoLimits == {1, 2}
AtTheMaximum == {3}

(* The orders of the five queries.                                          *)
Orders == INSTANCE TopN WITH Queries <- {}, rows <- {}, rest <- {}
ScanQueries == {Orders!IC2, Orders!IC8, Orders!IC9, Orders!IC11, Orders!IS2}
===============================================================================
