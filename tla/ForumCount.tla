------------------------------ MODULE ForumCount ------------------------------
(****************************************************************************)
(* IC5, the forums the friends of a person joined after a given day, by the *)
(* number of posts those friends wrote in them (exec of src/ic5.cc, from    *)
(* the list of friends, which KnowsTraversal models, to the rows).          *)
(*                                                                          *)
(* The friends are taken one by one with one set of flags for the forums of *)
(* the current friend.  Then the heap is filled in two passes: first with   *)
(* the forums that have posts, then, if they are fewer than kTopN, with the *)
(* forums without, which are compared with the top by their identifiers     *)
(* alone.  Forums are numbers and stand for their identifiers.              *)
(****************************************************************************)
EXTENDS Integers, Sequences, FiniteSets

CONSTANTS Friend, Forum, Post,
          Worlds,        \* records [joined, creator, forumOf] to run on
          kTopN,
          none           \* StorageReadInterface::kInvalidVid

World ==
  [joined  : SUBSET (Friend \X Forum),       \* HASMEMBER after minDate
   creator : [Post -> Friend],
   forumOf : [Post -> Forum \cup {none}]]   \* CONTAINEROF

VARIABLES
  world,
  friends,       \* friends_list, those not yet taken
  posts,         \* the posts of the current friend not yet counted
  personForums,  \* person_forum_set: the forums of the current friend
  forums,        \* forum_list
  accessed,      \* accessed_forum_set
  postCount,     \* post_count, 0 for a forum that is not in the map
  offered,       \* the forums of this pass not yet offered to the heap
  heap,          \* que: pairs of a count and a forum
  results, pc

vars == <<world, friends, posts, personForums, forums, accessed, postCount,
          offered, heap, results, pc>>

TypeOK ==
  /\ world \in Worlds
  /\ friends \subseteq Friend
  /\ posts \subseteq Post
  /\ personForums \subseteq Forum
  /\ forums \subseteq Forum
  /\ accessed \subseteq forums
  /\ postCount \in [Forum -> Nat]
  /\ offered \subseteq Forum
  /\ heap \subseteq Nat \X Forum
  /\ results \in Seq(Nat \X Forum)
  /\ pc \in {"friends", "posts", "counted", "empty", "output", "done"}

Init ==
  /\ world \in Worlds
  /\ friends = Friend
  /\ posts = {}
  /\ personForums = {}
  /\ forums = {}
  /\ accessed = {}
  /\ postCount = [f \in Forum |-> 0]
  /\ offered = {}
  /\ heap = {}
  /\ results = << >>
  /\ pc = "friends"

------------------------------------------------------------------------------
(****************************************************************************)
(* The friends.                                                             *)
(****************************************************************************)
Joined(v) == {f \in Forum : <<v, f>> \in world.joined}

(* A friend who joined nothing is passed over.                              *)
TakeFriend(v) ==
  /\ pc = "friends"
  /\ v \in friends
  /\ friends' = friends \ {v}
  /\ personForums' = personForums \cup Joined(v)
  /\ forums' = forums \cup Joined(v)
  /\ accessed' = accessed \cup Joined(v)
  /\ posts' = IF Joined(v) = {} THEN {} ELSE {p \in Post : world.creator[p] = v}
  /\ pc' = IF Joined(v) = {} THEN "friends" ELSE "posts"
  /\ UNCHANGED <<world, postCount, offered, heap, results>>

CountPost(p) ==
  LET f == world.forumOf[p] IN
  /\ pc = "posts"
  /\ p \in posts
  /\ posts' = posts \ {p}
  /\ postCount' = IF f \in Forum /\ f \in personForums THEN [postCount EXCEPT ![f] = @ + 1]
                  ELSE postCount
  /\ UNCHANGED <<world, friends, personForums, forums, accessed, offered, heap,
                 results, pc>>

(* Flawed on purpose: the flags of the friend stay up.                      *)
EndOfFriendFlagsUp ==
  /\ pc = "posts"
  /\ posts = {}
  /\ pc' = "friends"
  /\ UNCHANGED <<world, friends, posts, personForums, forums, accessed, postCount,
                 offered, heap, results>>

EndOfFriend ==
  /\ pc = "posts"
  /\ posts = {}
  /\ personForums' = {}
  /\ pc' = "friends"
  /\ UNCHANGED <<world, friends, posts, forums, accessed, postCount, offered, heap,
                 results>>

EndOfFriends ==
  /\ pc = "friends"
  /\ friends = {}
  /\ offered' = {f \in Forum : postCount[f] > 0}
  /\ pc' = "counted"
  /\ UNCHANGED <<world, friends, posts, personForums, forums, accessed, postCount,
                 heap, results>>

------------------------------------------------------------------------------
(****************************************************************************)
(* The heap.                                                                *)
(****************************************************************************)
Precedes(r, t) == r[1] > t[1] \/ (r[1] = t[1] /\ r[2] < t[2])

IsTop(w) == w \in heap /\ \A r \in heap \ {w} : Precedes(r, w)

Full == Cardinality(heap) = kTopN

(* The forum f is offered: pushed, or put in the place of the top if it is  *)
(* one of those its row may replace, or left.                               *)
Offer(f, row, replaceable) ==
  /\ f \in offered
  /\ offered' = offered \ {f}
  /\ accessed' = accessed \ {f}
  /\ \/ ~ Full /\ heap' = heap \cup {row}
     \/ Full /\ \E w \in heap :
                  /\ IsTop(w)
                  /\ heap' = IF w \in replaceable THEN (heap \ {w}) \cup {row} ELSE heap

OfferCounted(f) ==
  LET row == <<postCount[f], f>>
      worse == {w \in heap : w[1] < row[1] \/ (w[1] = row[1] /\ f < w[2])}
  IN /\ pc = "counted"
     /\ Offer(f, row, worse)
     /\ UNCHANGED <<world, friends, posts, personForums, forums, postCount, results, pc>>

(* Flawed on purpose: all forums are offered a second time.                 *)
EndOfCountedOffersAll ==
  /\ pc = "counted"
  /\ offered = {}
  /\ pc' = IF Full THEN "output" ELSE "empty"
  /\ offered' = IF Full THEN {} ELSE forums
  /\ UNCHANGED <<world, friends, posts, personForums, forums, accessed, postCount,
                 heap, results>>

(* The forums still flagged are those without posts.  A heap that is full   *)
(* now does not want them.                                                  *)
EndOfCounted ==
  /\ pc = "counted"
  /\ offered = {}
  /\ pc' = IF Full THEN "output" ELSE "empty"
  /\ offered' = IF Full THEN {} ELSE forums \cap accessed
  /\ UNCHANGED <<world, friends, posts, personForums, forums, accessed, postCount,
                 heap, results>>

OfferEmpty(f) ==
  /\ pc = "empty"
  /\ Offer(f, <<0, f>>, {w \in heap : f < w[2]})
  /\ UNCHANGED <<world, friends, posts, personForums, forums, postCount, results, pc>>

EndOfEmpty ==
  /\ pc = "empty"
  /\ offered = {}
  /\ pc' = "output"
  /\ UNCHANGED <<world, friends, posts, personForums, forums, accessed, postCount,
                 offered, heap, results>>

Output(w) ==
  /\ pc = "output"
  /\ IsTop(w)
  /\ heap' = heap \ {w}
  /\ results' = <<w>> \o results
  /\ UNCHANGED <<world, friends, posts, personForums, forums, accessed, postCount,
                 offered, pc>>

Return ==
  /\ pc = "output"
  /\ heap = {}
  /\ pc' = "done"
  /\ UNCHANGED <<world, friends, posts, personForums, forums, accessed, postCount,
                 offered, heap, results>>

Next ==
  \/ \E v \in Friend : TakeFriend(v)
  \/ \E p \in Post : CountPost(p)
  \/ EndOfFriend \/ EndOfFriends
  \/ \E f \in Forum : OfferCounted(f) \/ OfferEmpty(f)
  \/ EndOfCounted \/ EndOfEmpty
  \/ \E w \in heap : Output(w)
  \/ Return

Spec == Init /\ [][Next]_vars

------------------------------------------------------------------------------
(****************************************************************************)
(* Properties.                                                              *)
(****************************************************************************)
PostsIn(f) ==
  Cardinality({p \in Post : /\ world.forumOf[p] = f
                            /\ <<world.creator[p], f>> \in world.joined})

Rows == {<<PostsIn(f), f>> : f \in {e[2] : e \in world.joined}}

(* The call returns the first kTopN of the forums some friend joined, by    *)
(* the posts of the friends who joined them, then by identifier; a forum    *)
(* without posts is there when, and only when, there is room.               *)
ReturnsTheFirst ==
  pc = "done" =>
    LET found == {results[i] : i \in DOMAIN results} IN
    /\ found \subseteq Rows
    /\ Len(results) = Cardinality(found)
    /\ Len(results) < kTopN => found = Rows
    /\ \A r \in found, t \in Rows \ found : Precedes(r, t)
    /\ \A i, j \in DOMAIN results : i < j => Precedes(results[i], results[j])

(* The flags of one friend are down before the next one's go up: a post is  *)
(* counted for a forum only if its author joined that forum.                *)
CountsAreOfMembers ==
  \A f \in Forum :
    postCount[f] = Cardinality({p \in Post : /\ world.forumOf[p] = f
                                             /\ <<world.creator[p], f>> \in world.joined
                                             /\ world.creator[p] \notin friends
                                             /\ p \notin posts})
===============================================================================
