------------------------------ MODULE ShortReads ------------------------------
(****************************************************************************)
(* The short reads of one vertex and its edges (exec of src/is1.cc, is3.cc, *)
(* is4.cc, is5.cc and is7.cc):                                              *)
(*   IS1  a person and the city he lives in      IS4  the content of a      *)
(*   IS3  the friends of a person                     message               *)
(*   IS7  the replies to a message               IS5  its author            *)
(* IS3 and IS7 collect rows, a row being what their std::sort compares, a   *)
(* date and a person, and what tells two equal rows apart: the direction in *)
(* which the friendship is stored, or the reply.                            *)
(****************************************************************************)
EXTENDS Integers, SequencesExt

CONSTANTS Person, Post, Comment,
          Worlds,        \* see World
          none           \* StorageReadInterface::kInvalidVid

Message == Post \cup Comment

(* Persons and cities are numbers and stand for their identifiers.          *)
World ==
  [knows     : SUBSET (Person \X Person \X Nat),    \* and since when
   locatedIn : [Person -> Nat \cup {none}],
   creator   : [Message -> Person \cup {none}],
   date      : [Comment -> Nat],
   noText    : SUBSET Post,                         \* of length 0
   replyOf   : [Comment -> Message \cup {none}]]

VARIABLES
  world,
  query,       \* "is1", "is3", "is4", "is5" or "is7"
  asked,       \* the person or the message, none for an unknown id
  todo,        \* the edges still to be looked at
  collected,   \* friends, replies
  answer,      \* the rows returned
  pc

vars == <<world, query, asked, todo, collected, answer, pc>>

FriendRow == Nat \X Person \X {"out", "in"}
ReplyRow == Nat \X Person \X Comment

TypeOK ==
  /\ world \in Worlds
  /\ query \in {"is1", "is3", "is4", "is5", "is7"}
  /\ asked \in Person \cup Message \cup {none}
  /\ todo \subseteq FriendRow \cup Comment
  /\ collected \subseteq FriendRow \cup ReplyRow
  /\ answer \in Seq(CASE query \in {"is1", "is5"} -> Nat
                      [] query = "is3" -> FriendRow
                      [] query = "is4" -> {"content", "imageFile"}
                      [] query = "is7" -> ReplyRow \X BOOLEAN)
  /\ pc \in {"find", "collect", "done"}

Init ==
  /\ world \in Worlds
  /\ query \in {"is1", "is3", "is4", "is5", "is7"}
  /\ asked \in (IF query \in {"is1", "is3"} THEN Person ELSE Message) \cup {none}
  /\ todo = {}
  /\ collected = {}
  /\ answer = << >>
  /\ pc = "find"

Return(rows) ==
  /\ pc' = "done"
  /\ answer' = rows

Reject ==
  /\ pc = "find"
  /\ asked = none
  /\ Return(<< >>)
  /\ UNCHANGED <<world, query, asked, todo, collected>>

------------------------------------------------------------------------------
(****************************************************************************)
(* One row.                                                                 *)
(****************************************************************************)
Found(q) == pc = "find" /\ asked # none /\ query = q

(* A person without a city is returned with the identifier 0.               *)
ReturnPerson ==
  /\ Found("is1")
  /\ Return(IF world.locatedIn[asked] = none THEN <<0>> ELSE <<world.locatedIn[asked]>>)
  /\ UNCHANGED <<world, query, asked, todo, collected>>

ReturnContent ==
  /\ Found("is4")
  /\ Return(IF asked \in world.noText THEN <<"imageFile">> ELSE <<"content">>)
  /\ UNCHANGED <<world, query, asked, todo, collected>>

ReturnAuthor ==
  /\ Found("is5")
  /\ Return(IF world.creator[asked] = none THEN << >> ELSE <<world.creator[asked]>>)
  /\ UNCHANGED <<world, query, asked, todo, collected>>

------------------------------------------------------------------------------
(****************************************************************************)
(* Sorted rows.                                                             *)
(****************************************************************************)
FriendEdges(p) ==
  {<<e[3], e[2], "out">> : e \in {k \in world.knows : k[1] = p}}
    \cup {<<e[3], e[1], "in">> : e \in {k \in world.knows : k[2] = p}}

OpenFriends ==
  /\ Found("is3")
  /\ todo' = FriendEdges(asked)
  /\ pc' = "collect"
  /\ UNCHANGED <<world, query, asked, collected, answer>>

CollectFriend(e) ==
  /\ pc = "collect" /\ query = "is3"
  /\ e \in todo
  /\ e[3] = "in" => \A f \in todo : f[3] = "in"
  /\ todo' = todo \ {e}
  /\ collected' = collected \cup {e}
  /\ UNCHANGED <<world, query, asked, answer, pc>>

(* Nothing is returned for a message without an author.                     *)
OpenReplies ==
  /\ Found("is7")
  /\ IF world.creator[asked] = none
     THEN Return(<< >>) /\ todo' = {}
     ELSE /\ todo' = {c \in Comment : world.replyOf[c] = asked}
          /\ pc' = "collect"
          /\ UNCHANGED answer
  /\ UNCHANGED <<world, query, asked, collected>>

(* A reply without an author is left out.                                   *)
CollectReply(c) ==
  /\ pc = "collect" /\ query = "is7"
  /\ c \in todo
  /\ todo' = todo \ {c}
  /\ collected' = IF world.creator[c] = none THEN collected
                  ELSE collected \cup {<<world.date[c], world.creator[c], c>>}
  /\ UNCHANGED <<world, query, asked, answer, pc>>

Precedes(r, t) == r[1] > t[1] \/ (r[1] = t[1] /\ r[2] < t[2])

(* std::sort: one of the orders in which no row comes before one that       *)
(* precedes it.                                                             *)
Sorted(S) ==
  {s \in SetToSeqs(S) :
     \A i, j \in DOMAIN s : i < j => ~ Precedes(s[j], s[i])}

SortFriends ==
  /\ pc = "collect" /\ query = "is3"
  /\ todo = {}
  /\ \E s \in Sorted(collected) : Return(s)
  /\ UNCHANGED <<world, query, asked, todo, collected>>

(* Flawed on purpose: friendships are marked in one direction.              *)
MarkKnowsOut(p) ==
  {k[2] : k \in {e \in world.knows : e[1] = p}}

(* mark_knows, of the outgoing and of the incoming edges.                   *)
MarkKnows(p) ==
  {k[2] : k \in {e \in world.knows : e[1] = p}}
    \cup {k[1] : k \in {e \in world.knows : e[2] = p}}

SortReplies ==
  /\ pc = "collect" /\ query = "is7"
  /\ todo = {}
  /\ LET knowsAuthor == MarkKnows(world.creator[asked])
     IN \E s \in Sorted(collected) :
          Return([i \in DOMAIN s |-> <<s[i], s[i][2] \in knowsAuthor>>])
  /\ UNCHANGED <<world, query, asked, todo, collected>>

Next ==
  \/ Reject \/ ReturnPerson \/ ReturnContent \/ ReturnAuthor
  \/ OpenFriends \/ OpenReplies
  \/ \E e \in todo : CollectFriend(e) \/ CollectReply(e)
  \/ SortFriends \/ SortReplies

Spec == Init /\ [][Next]_vars

------------------------------------------------------------------------------
(****************************************************************************)
(* Properties.                                                              *)
(****************************************************************************)

(* Newest first, then by person.                                            *)
InOrder(rows) ==
  \A i, j \in DOMAIN rows :
    i < j => \/ rows[i][1] > rows[j][1]
             \/ rows[i][1] = rows[j][1] /\ rows[i][2] <= rows[j][2]

Knows(u, v) == {k \in world.knows : {k[1], k[2]} = {u, v}}

(* IS3 lists the friends in order, each once for every time the friendship  *)
(* is stored.                                                               *)
FriendsInOrder ==
  /\ InOrder(answer)
  /\ \A v \in Person \ {asked} :
       Cardinality({i \in DOMAIN answer : answer[i][2] = v}) = Cardinality(Knows(asked, v))

(* IS7 lists the answers to a message whose author is there, as far as      *)
(* theirs are, in order; each is flagged as a friend's just if its author   *)
(* and the message's know each other, in whichever direction that is        *)
(* stored.                                                                  *)
RepliesInOrder ==
  LET author == world.creator[asked]
      rows == [i \in DOMAIN answer |-> answer[i][1]]
      wanted == {c \in Comment : /\ world.replyOf[c] = asked
                                 /\ none \notin {author, world.creator[c]}}
  IN /\ InOrder(rows)
     /\ {rows[i][3] : i \in DOMAIN rows} = wanted
     /\ Len(rows) = Cardinality(wanted)
     /\ \A i \in DOMAIN rows :
          /\ rows[i][2] = world.creator[rows[i][3]]
          /\ answer[i][2] <=> Knows(author, rows[i][2]) # {}

(* What IS3 and IS7 list, whatever the order of storage.                    *)
ListsInOrder ==
  pc = "done" /\ asked # none =>
    /\ query = "is3" => FriendsInOrder
    /\ query = "is7" => RepliesInOrder
===============================================================================
