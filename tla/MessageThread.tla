----------------------------- MODULE MessageThread -----------------------------
(****************************************************************************)
(* The way from a message to the post its thread began with                 *)
(* (find_message_vertex and resolve_root_post of src/ldbc_common.cc), and   *)
(* what IS6 (exec of src/is6.cc) goes on to: the forum of that post and its *)
(* moderator.  IS2 asks for the post of a comment and reads its columns     *)
(* without a look at what it got.                                           *)
(****************************************************************************)
EXTENDS Integers, FiniteSets

CONSTANTS Post, Comment, Forum, Moderator,
          Worlds,        \* records [replyOf, forumOf, moderatorOf] to run on
          none           \* StorageReadInterface::kInvalidVid

Message == Post \cup Comment

(* A comment answers one message, so that it does not matter that the loop  *)
(* asks for a post before it asks for a comment.                            *)
World ==
  [replyOf     : [Comment -> Message \cup {none}],
   forumOf     : [Post -> Forum \cup {none}],
   moderatorOf : [Forum -> Moderator \cup {none}]]

VARIABLES
  world,
  query,       \* "is2" or "is6"
  message,     \* the message asked for, none for an unknown id
  current,     \* where resolve_root_post stands
  post,        \* what it returned
  answer,      \* the forum and the moderator IS6 returns, or nothing
  pc

vars == <<world, query, message, current, post, answer, pc>>

TypeOK ==
  /\ world \in Worlds
  /\ query \in {"is2", "is6"}
  /\ message \in Message \cup {none}
  /\ current \in Message \cup {none}
  /\ post \in Post \cup {none}
  /\ answer \in (Forum \X Moderator) \cup {none}
  /\ pc \in {"find", "resolve", "use", "done"}

(* IS2 resolves the comments it has in its rows, and no post.               *)
Init ==
  /\ world \in Worlds
  /\ query \in {"is2", "is6"}
  /\ message \in Message \cup {none}
  /\ query = "is2" => message \in Comment
  /\ current = none
  /\ post = none
  /\ answer = none
  /\ pc = "find"

Return(a) == pc' = "done" /\ answer' = a

Reject ==
  /\ pc = "find"
  /\ message = none
  /\ Return(none)
  /\ UNCHANGED <<world, query, message, current, post>>

IsPost ==
  /\ pc = "find"
  /\ message \in Post
  /\ post' = message
  /\ pc' = "use"
  /\ UNCHANGED <<world, query, message, current, answer>>

IsComment ==
  /\ pc = "find"
  /\ message \in Comment
  /\ current' = message
  /\ pc' = "resolve"
  /\ UNCHANGED <<world, query, message, post, answer>>

ToPost ==
  /\ pc = "resolve"
  /\ world.replyOf[current] \in Post
  /\ post' = world.replyOf[current]
  /\ pc' = "use"
  /\ UNCHANGED <<world, query, message, current, answer>>

Orphan ==
  /\ pc = "resolve"
  /\ world.replyOf[current] = none
  /\ pc' = "use"
  /\ UNCHANGED <<world, query, message, current, post, answer>>

(* Flawed on purpose: the loop does not go up.                              *)
ToParentStays ==
  /\ pc = "resolve"
  /\ world.replyOf[current] \in Comment
  /\ UNCHANGED vars

ToParent ==
  /\ pc = "resolve"
  /\ world.replyOf[current] \in Comment
  /\ current' = world.replyOf[current]
  /\ UNCHANGED <<world, query, message, post, answer, pc>>

(* IS2 has the post, or reads its columns at kInvalidVid.                   *)
UseInIS2 ==
  /\ pc = "use"
  /\ query = "is2"
  /\ Return(none)
  /\ UNCHANGED <<world, query, message, current, post>>

ForumOf(p) == IF p = none THEN none ELSE world.forumOf[p]

(* Flawed on purpose: any forum's moderator will do.                        *)
ModeratorOfAny(f) ==
  IF f = none THEN none
  ELSE CHOOSE m \in Moderator : \E g \in Forum : world.moderatorOf[g] = m

ModeratorOf(f) == IF f = none THEN none ELSE world.moderatorOf[f]

UseInIS6 ==
  /\ pc = "use"
  /\ query = "is6"
  /\ LET f == ForumOf(post)
         m == ModeratorOf(f)
     IN Return(IF m = none THEN none ELSE <<f, m>>)
  /\ UNCHANGED <<world, query, message, current, post>>

Next ==
  \/ Reject \/ IsPost \/ IsComment
  \/ ToPost \/ Orphan \/ ToParent
  \/ UseInIS2 \/ UseInIS6

Spec == Init /\ [][Next]_vars

------------------------------------------------------------------------------
(****************************************************************************)
(* Properties.                                                              *)
(****************************************************************************)

(* The messages above a message in its thread, itself included: the least   *)
(* set that holds it and what its members answer.                           *)
Thread(m) ==
  {n \in Message :
     \A S \in SUBSET Message :
       /\ m \in S
       /\ \A c \in S \cap Comment : world.replyOf[c] \in S \cup {none}
       => n \in S}

(* No comment is above itself.                                              *)
Forest ==
  \A c \in Comment : world.replyOf[c] # none => c \notin Thread(world.replyOf[c])

(* IS6 returns the forum and the moderator of the post the thread began     *)
(* with, and nothing exactly when one of them is missing.                   *)
AnswersForTheRoot ==
  pc = "done" /\ query = "is6" =>
    IF message = none THEN answer = none
    ELSE LET roots == Thread(message) \cap Post
             found == {r \in Forum \X Moderator :
                         \E p \in roots : /\ world.forumOf[p] = r[1]
                                          /\ world.moderatorOf[r[1]] = r[2]}
         IN IF found = {} THEN answer = none ELSE answer \in found
===============================================================================
