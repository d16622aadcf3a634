------------------------------- MODULE TagCount -------------------------------
(****************************************************************************)
(* IC4, the tags new in a period: those on posts the friends of a person    *)
(* wrote in the period, and on none they wrote before it (exec of           *)
(* src/ic4.cc).  One pass over the posts, in the order of the storage,      *)
(* counts a tag until an older post rules it out.  foreach_knows_neighbor   *)
(* calls back once for every stored edge, so that the posts of a friend     *)
(* whose friendship is stored in both directions are scanned twice.         *)
(****************************************************************************)
EXTENDS Integers, FiniteSets

CONSTANTS Post, Tag,
          Worlds         \* records [old, tags, stored] to run on

(* The posts of the friends created before the end of the period: which of  *)
(* them are older than its start, their tags (HASTAG), and how often the    *)
(* friendship with their author is stored.                                  *)
World ==
  [old : SUBSET Post, tags : [Post -> SUBSET Tag], stored : [Post -> 1..2]]

VARIABLES
  world,
  posts,       \* the scans of posts still to come
  tagCount,
  neg,         \* the tags of older posts
  rows,        \* the rows offered to the heap, which TopN models
  pc

vars == <<world, posts, tagCount, neg, rows, pc>>

(* A post and the number of its scan.                                       *)
Scans == {s \in Post \X (1..2) : s[2] <= world.stored[s[1]]}

OldScans == {s \in Scans : s[1] \in world.old}

TypeOK ==
  /\ world \in Worlds
  /\ posts \subseteq Scans
  /\ tagCount \in [Tag -> Nat]
  /\ neg \subseteq Tag
  /\ rows \subseteq Nat \X Tag
  /\ pc \in {"scan", "done"}

Init ==
  /\ world \in Worlds
  /\ posts = Scans
  /\ tagCount = [t \in Tag |-> 0]
  /\ neg = {}
  /\ rows = {}
  /\ pc = "scan"

(* Flawed on purpose: tags that are ruled out count again.                  *)
CountNewRuledOut(s) ==
  /\ s \in posts \ OldScans
  /\ posts' = posts \ {s}
  /\ tagCount' = [t \in Tag |-> IF t \in world.tags[s[1]] THEN tagCount[t] + 1 ELSE tagCount[t]]
  /\ UNCHANGED <<world, neg, rows, pc>>

CountNew(s) ==
  /\ s \in posts \ OldScans
  /\ posts' = posts \ {s}
  /\ tagCount' = [t \in Tag |-> IF t \in world.tags[s[1]] \ neg
                                THEN tagCount[t] + 1 ELSE tagCount[t]]
  /\ UNCHANGED <<world, neg, rows, pc>>

(* Flawed on purpose: an older post takes back one of the count.            *)
RuleOutCountsDown(s) ==
  /\ s \in posts \cap OldScans
  /\ posts' = posts \ {s}
  /\ neg' = neg \cup world.tags[s[1]]
  /\ tagCount' = [t \in Tag |-> IF t \in world.tags[s[1]] THEN tagCount[t] - 1 ELSE tagCount[t]]
  /\ UNCHANGED <<world, rows, pc>>

RuleOut(s) ==
  /\ s \in posts \cap OldScans
  /\ posts' = posts \ {s}
  /\ neg' = neg \cup world.tags[s[1]]
  /\ tagCount' = [t \in Tag |-> IF t \in world.tags[s[1]] THEN 0 ELSE tagCount[t]]
  /\ UNCHANGED <<world, rows, pc>>

OfferRows ==
  /\ pc = "scan"
  /\ posts = {}
  /\ rows' = {<<tagCount[t], t>> : t \in {u \in Tag : tagCount[u] # 0}}
  /\ pc' = "done"
  /\ UNCHANGED <<world, posts, tagCount, neg>>

Next == (\E s \in Post \X (1..2) : CountNew(s) \/ RuleOut(s)) \/ OfferRows

Spec == Init /\ [][Next]_vars

------------------------------------------------------------------------------
(****************************************************************************)
(* Properties.                                                              *)
(****************************************************************************)
Tagged(t) == {s \in Scans : t \in world.tags[s[1]]}

(* The rows are the tags of the period that no older post has, in whatever  *)
(* order old and new posts are scanned, with the number of their posts: a   *)
(* post counts once, and twice if the friendship with its author is stored  *)
(* in both directions.                                                      *)
OnlyNewTags ==
  pc = "done" =>
    rows = {<<Cardinality(Tagged(t)), t>> :
              t \in {u \in Tag : Tagged(u) # {} /\ Tagged(u) \cap OldScans = {}}}
===============================================================================
