--------------------------------- MODULE CoTags ---------------------------------
(****************************************************************************)
(* IC6, the tags that friends and friends of friends of a person use on     *)
(* posts together with a given tag (exec and try_push_tag of src/ic6.cc).   *)
(* One pass over the posts with the tag, in the order of the storage,       *)
(* counts all tags of those by friends, the given one included, whose count *)
(* is put back to zero at the end.  The heap the rows go to is TopN's, and  *)
(* who is marked as a friend is KnowsTraversal's.                           *)
(****************************************************************************)
EXTENDS Integers, FiniteSets

CONSTANTS Post, Tag, Person,
          Worlds,        \* the records to run on, see World
          none           \* StorageReadInterface::kInvalidVid

(* tag is the one asked for, none if there is none of the name; marked are  *)
(* the persons with their flag up in friends, never the root itself.        *)
World ==
  [tag     : Tag \cup {none},
   tags    : [Post -> SUBSET Tag],
   creator : [Post -> Person \cup {none}],
   marked  : SUBSET Person]

VARIABLES
  world,
  tagged,      \* the posts with the tag, not yet scanned
  postCount,
  rows,        \* the rows offered to the heap
  pc

vars == <<world, tagged, postCount, rows, pc>>

TypeOK ==
  /\ world \in Worlds
  /\ tagged \subseteq Post
  /\ postCount \in [Tag -> Nat]
  /\ rows \subseteq Nat \X Tag
  /\ pc \in {"scan", "done"}

Init ==
  /\ world \in Worlds
  /\ tagged = {p \in Post : world.tag \in world.tags[p]}
  /\ postCount = [t \in Tag |-> 0]
  /\ rows = {}
  /\ pc = "scan"

Reject ==
  /\ pc = "scan"
  /\ world.tag = none
  /\ pc' = "done"
  /\ UNCHANGED <<world, tagged, postCount, rows>>

(* none is no member of marked: a post without a creator is passed over.    *)
CountPost(p) ==
  /\ p \in tagged
  /\ tagged' = tagged \ {p}
  /\ postCount' = [t \in Tag |->
                     IF world.creator[p] \in world.marked /\ t \in world.tags[p]
                     THEN postCount[t] + 1 ELSE postCount[t]]
  /\ UNCHANGED <<world, rows, pc>>

(* Flawed on purpose: the tag asked for keeps its count.                    *)
OfferRowsWithTheTag ==
  /\ pc = "scan"
  /\ world.tag \in Tag
  /\ tagged = {}
  /\ rows' = {<<postCount[t], t>> : t \in {u \in Tag : postCount[u] # 0}}
  /\ pc' = "done"
  /\ UNCHANGED <<world, tagged, postCount>>

OfferRows ==
  /\ pc = "scan"
  /\ world.tag \in Tag
  /\ tagged = {}
  /\ postCount' = [postCount EXCEPT ![world.tag] = 0]
  /\ rows' = {<<postCount'[t], t>> : t \in {u \in Tag : postCount'[u] # 0}}
  /\ pc' = "done"
  /\ UNCHANGED <<world, tagged>>

Next == Reject \/ (\E p \in Post : CountPost(p)) \/ OfferRows

Spec == Init /\ [][Next]_vars

------------------------------------------------------------------------------
(****************************************************************************)
(* Properties.                                                              *)
(****************************************************************************)
With(t) ==
  {p \in Post : {t, world.tag} \subseteq world.tags[p] /\ world.creator[p] \in world.marked}

(* The rows are the other tags of the friends' posts with the tag, and the  *)
(* number of these posts, in whatever order the storage lists them.         *)
CountsOtherTags ==
  pc = "done" =>
    rows = {<<Cardinality(With(t)), t>> : t \in {u \in Tag \ {world.tag} : With(u) # {}}}
===============================================================================
