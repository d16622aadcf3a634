---------------------------- MODULE TagClassReplies ----------------------------
(****************************************************************************)
(* IC12, the friends who answered most posts about a class of tags          *)
(* (collect_tags_in_class and exec of src/ic12.cc).  First the tags of the  *)
(* class and of those under it are marked, by way of a queue and without a  *)
(* record of the classes that were in it; then the answers of every friend  *)
(* to posts with a marked tag are counted; at the end the tags of the rows  *)
(* are collected again, once each.  The heap between is TopN's.             *)
(* foreach_knows_neighbor calls back once for every stored edge: a friend   *)
(* whose friendship is stored in both directions is offered twice.          *)
(****************************************************************************)
EXTENDS Integers, Sequences, FiniteSets

CONSTANTS TagClass, Tag, Friend, Comment, Post,
          Root,          \* the class asked for
          Worlds,        \* records [isSubclassOf, hasType, creator,
                         \* replyOf, hasTag, stored]
          none           \* no post: the comment answers a comment

World ==
  [isSubclassOf : SUBSET (TagClass \X TagClass),
   hasType      : [Tag -> TagClass],
   creator      : [Comment -> Friend],
   replyOf      : [Comment -> Post \cup {none}],
   hasTag       : [Post -> SUBSET Tag],
   stored       : [Friend -> 1..2]]   \* how often the friendship is stored

VARIABLES
  world,
  queue,       \* q, in collect_tags_in_class
  tagSet,
  friends,     \* the calls back still to come: a friend and the number of the call
  friend,      \* the call whose friend's answers are being counted, none in between
  comments,    \* his answers still to be looked at
  count,
  rows,        \* a count and the call that offers it
  tagsOf,      \* the tags output for the friends in rows
  pc

vars == <<world, queue, tagSet, friends, friend, comments, count, rows, tagsOf, pc>>

Callbacks == {s \in Friend \X (1..2) : s[2] <= world.stored[s[1]]}

TypeOK ==
  /\ world \in Worlds
  /\ queue \in Seq(TagClass)
  /\ tagSet \subseteq Tag
  /\ friends \subseteq Callbacks
  /\ friend \in Callbacks \cup {none}
  /\ comments \subseteq Comment
  /\ count \in Nat
  /\ rows \subseteq Nat \X Callbacks
  /\ tagsOf \in [Friend -> SUBSET Tag]
  /\ pc \in {"classes", "friends", "count", "done"}

Init ==
  /\ world \in Worlds
  /\ queue = <<Root>>
  /\ tagSet = {}
  /\ friends = Callbacks
  /\ friend = none
  /\ comments = {}
  /\ count = 0
  /\ rows = {}
  /\ tagsOf = [f \in Friend |-> {}]
  /\ pc = "classes"

Subclasses(c) == {d \in TagClass : <<d, c>> \in world.isSubclassOf}

(* The subclasses of a class, in any order of the storage.                  *)
Orders(S) ==
  {s \in [1..Cardinality(S) -> S] : {s[k] : k \in 1..Cardinality(S)} = S}

ExpandClass ==
  /\ pc = "classes"
  /\ queue # << >>
  /\ \E s \in Orders(Subclasses(Head(queue))) : queue' = Tail(queue) \o s
  /\ tagSet' = tagSet \cup {t \in Tag : world.hasType[t] = Head(queue)}
  /\ UNCHANGED <<world, friends, friend, comments, count, rows, tagsOf, pc>>

EndOfClasses ==
  /\ pc = "classes"
  /\ queue = << >>
  /\ pc' = "friends"
  /\ UNCHANGED <<world, queue, tagSet, friends, friend, comments, count, rows, tagsOf>>

TakeFriend(s) ==
  /\ pc = "friends"
  /\ s \in friends
  /\ friends' = friends \ {s}
  /\ friend' = s
  /\ comments' = {c \in Comment : world.creator[c] = s[1]}
  /\ count' = 0
  /\ pc' = "count"
  /\ UNCHANGED <<world, queue, tagSet, rows, tagsOf>>

(* The marked tags of the post a comment answers.                           *)
MarkedTags(c) ==
  IF world.replyOf[c] = none THEN {} ELSE world.hasTag[world.replyOf[c]] \cap tagSet

(* Flawed on purpose: an answer is counted once for each of its tags.       *)
CountReplyTags(c) ==
  /\ pc = "count"
  /\ c \in comments
  /\ comments' = comments \ {c}
  /\ count' = count + Cardinality(MarkedTags(c))
  /\ UNCHANGED <<world, queue, tagSet, friends, friend, rows, tagsOf, pc>>

CountReply(c) ==
  /\ pc = "count"
  /\ c \in comments
  /\ comments' = comments \ {c}
  /\ count' = IF MarkedTags(c) # {} THEN count + 1 ELSE count
  /\ UNCHANGED <<world, queue, tagSet, friends, friend, rows, tagsOf, pc>>

OfferFriend ==
  /\ pc = "count"
  /\ comments = {}
  /\ rows' = IF count = 0 THEN rows ELSE rows \cup {<<count, friend>>}
  /\ friend' = none
  /\ pc' = "friends"
  /\ UNCHANGED <<world, queue, tagSet, friends, comments, count, tagsOf>>

Return ==
  /\ pc = "friends"
  /\ friends = {}
  /\ tagsOf' = [f \in Friend |->
                  IF \E r \in rows : r[2][1] = f
                  THEN UNION {MarkedTags(c) : c \in {d \in Comment : world.creator[d] = f}}
                  ELSE {}]
  /\ pc' = "done"
  /\ UNCHANGED <<world, queue, tagSet, friends, friend, comments, count, rows>>

Next ==
  \/ ExpandClass \/ EndOfClasses
  \/ \E s \in Friend \X (1..2) : TakeFriend(s)
  \/ \E c \in Comment : CountReply(c)
  \/ OfferFriend \/ Return

Spec == Init /\ [][Next]_vars

------------------------------------------------------------------------------
(****************************************************************************)
(* Properties.                                                              *)
(****************************************************************************)

(* The classes at or under c: the least set with c and its subclasses.      *)
Under(c) ==
  {d \in TagClass :
     \A S \in SUBSET TagClass :
       c \in S /\ (\A e \in S : Subclasses(e) \subseteq S) => d \in S}

TagsUnderRoot == {t \in Tag : world.hasType[t] \in Under(Root)}

Replies(f) ==
  {c \in Comment : /\ world.creator[c] = f
                   /\ world.replyOf[c] # none
                   /\ world.hasTag[world.replyOf[c]] \cap TagsUnderRoot # {}}

(* The rows are the friends with such answers and their number, an answer   *)
(* counted once however many marked tags its post has, one row for every    *)
(* stored edge of the friendship; the tags output for a friend are those of *)
(* the counted answers: a row is never without.                             *)
RowsAreReplies ==
  pc = "done" =>
    /\ rows = {<<Cardinality(Replies(s[1])), s>> :
                 s \in {r \in Callbacks : Replies(r[1]) # {}}}
    /\ \A f \in Friend :
         tagsOf[f] = UNION {world.hasTag[world.replyOf[c]] \cap TagsUnderRoot
                              : c \in Replies(f)}

NoClassUnderItself ==
  \A c, d \in TagClass : <<c, d>> \in world.isSubclassOf => d \notin Under(c)
===============================================================================
