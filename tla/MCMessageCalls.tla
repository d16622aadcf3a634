---------------------------- MODULE MCMessageCalls ----------------------------
(* Instances of MessageCalls for TLC.                                       *)
EXTENDS MessageCalls

CONSTANTS p1, p2, p3, c1, c2, c3, t1, t2, f1, f2, m1, v1, v2, x1, x2, a1

ThreePosts == {p1, p2, p3}
ThreeComments == {c1, c2, c3}
TwoTags == {t1, t2}
TwoForums == {f1, f2}
OneModerator == {m1}
TwoFriends == {v1, v2}
FourClasses == 1..4
ThreePlaces == {x1, x2, a1}

(* IC3: two countries and a city in either or none.  The city may have the  *)
(* name of a country, and one country may be asked for twice; v1 lives in   *)
(* the city or in x2 itself, v2 in the city or nowhere; the messages are    *)
(* from anywhere.                                                           *)
Abroad ==
  [xNamed    : {{x1}, {x1, a1}},
   yNamed    : {{x1}, {x2}},
   partOf    : {[p \in ThreePlaces |-> IF p = a1 THEN c ELSE none] : c \in {x1, none}},
   home      : {[f \in TwoFriends |-> IF f = v1 THEN h ELSE g]
                  : h \in {a1, x2}, g \in {a1, none}},
   creator   : {[m \in ThreePosts \cup ThreeComments |->
                   IF m \in {p1, c1} THEN v1 ELSE v2]},
   date      : {[m \in ThreePosts \cup ThreeComments |->
                   CASE m \in {p1, c1, p2} -> 1 [] m = c2 -> d [] OTHER -> 2] : d \in 0..2},
   startDate : {1},
   endDate   : {2},
   locatedIn : {[m \in ThreePosts \cup ThreeComments |->
                   CASE m = p1 -> x1 [] m = c1 -> l [] m = p2 -> k [] OTHER -> x2]
                  : l \in ThreePlaces \cup {none}, k \in {x1, x2}}]

(* IC6: every choice of tags on two posts, by a friend, by someone else, or *)
(* by nobody; the third has both tags and is a friend's.                    *)
Together ==
  [tag     : {t1, none},
   tags    : {[p \in ThreePosts |-> CASE p = p1 -> s [] p = p2 -> t [] OTHER -> TwoTags]
                : s, t \in SUBSET TwoTags},
   creator : {[p \in ThreePosts |-> CASE p = p1 -> f [] p = p2 -> g [] OTHER -> v1]
                : f, g \in TwoFriends \cup {none}},
   marked  : {{v1}}]

(* IC4: every choice of older posts and of tags; the friendship with the    *)
(* author of p1 and p2 is stored once or twice, the one of p3's once.       *)
AllTags ==
  [old    : SUBSET ThreePosts,
   tags   : [ThreePosts -> SUBSET TwoTags],
   stored : {[p \in ThreePosts |-> IF p \in {p1, p2} THEN n ELSE 1] : n \in 1..2}]

(* Every way in which three comments answer two posts, each other and       *)
(* nothing, cycles included; the forum of p1 has a moderator, the one of p2 *)
(* has none or there is none.                                               *)
AllThreads ==
  [replyOf     : [ThreeComments -> {p1, p2, none} \cup ThreeComments],
   forumOf     : {[p \in ThreePosts |-> IF p = p1 THEN f ELSE g]
                    : f, g \in TwoForums \cup {none}},
   moderatorOf : {[f \in TwoForums |-> IF f = f1 THEN m1 ELSE none]}]

(* Every hierarchy of four classes without a cycle, class 1 being the root; *)
(* t2 is of the class 4, which may be under the root in several ways; the   *)
(* friendship with v2 is stored in both directions.                         *)
Hierarchies ==
  [isSubclassOf : SUBSET {e \in FourClasses \X FourClasses : e[1] > e[2]},
   hasType      : {[t \in TwoTags |-> IF t = t1 THEN c ELSE 4] : c \in 1..2},
   creator      : {[c \in ThreeComments |-> IF c = c1 THEN v1 ELSE v2]},
   replyOf      : {[c \in ThreeComments |-> IF c = c1 THEN p ELSE q]
                     : p, q \in {p1, p2, none}},
   hasTag       : {[p \in ThreePosts |-> IF p = p1 THEN s ELSE TwoTags]
                     : s \in SUBSET TwoTags},
   stored       : {[v \in {v1, v2} |-> IF v = v1 THEN 1 ELSE 2]}]

(* Three persons like two messages, early or late; one is a friend.         *)
SomeLikes == (1..3) \X (1..2) \X (1..2)
OneFriend == {{2}}

(* The short reads: friendships of 2 and of 3 with 1, stored once or twice, *)
(* since when two or three of them share a date; posts and comments with    *)
(* and without an author; all comments may answer p1, two of them from one  *)
(* person on one day.                                                       *)
ThreePersons == 1..3
ShortReadWorlds ==
  [knows     : SUBSET {<<1, 2, 1>>, <<2, 1, 1>>, <<2, 1, 2>>, <<3, 1, 1>>},
   locatedIn : {<<0, none, 2>>},
   creator   : {[m \in ThreePosts \cup ThreeComments |->
                   CASE m = p1 -> 1 [] m = p2 -> none [] m = c1 -> a [] m = c2 -> b [] OTHER -> 2]
                  : a \in {1, 2}, b \in {3, none}},
   date      : {[c \in ThreeComments |-> IF c = c2 THEN d ELSE 1] : d \in 0..2},
   noText    : {{p2}},
   replyOf   : {[c \in ThreeComments |-> CASE c = c3 -> q [] c = c2 -> p1 [] OTHER -> p]
                  : p \in {p1, p2, none}, q \in {p1, c1}}]
===============================================================================
