----------------------------- MODULE MessageCalls -----------------------------
(****************************************************************************)
(* A call of one of the queries over the messages of a graph: IC3 (module   *)
(* CountryMessages), IC4 (TagCount), IC6 (CoTags), IC7 (LatestLikes), IC12  *)
(* (TagClassReplies), the lookup of a thread's post in IS2 and IS6          *)
(* (MessageThread), or one of the other short reads (ShortReads).  The      *)
(* extension registers the queries side by side and a call runs one of them *)
(* to its end; the variables are those of the seven modules, of which a     *)
(* call uses those of its own query.                                        *)
(****************************************************************************)
EXTENDS Integers, FiniteSets

CONSTANTS Post, Comment, Tag, TagClass, Forum, Moderator, Friend, Place, Person,
          IC3Worlds,     \* the data IC3 runs on, see CountryMessages!World
          IC4Worlds,     \* that of IC4, see TagCount!World
          IC6Worlds,     \* that of IC6, see CoTags!World
          ThreadWorlds,  \* that of the thread lookups, see MessageThread!World
          IC12Worlds,    \* that of IC12, see TagClassReplies!World
          ShortWorlds,   \* that of the other short reads, see ShortReads!World
          Root,          \* the tag class IC12 is asked for
          Like,          \* the likes there may be: person, date, message
          Friends,       \* the sets of friends IC7 is run with
          kTopN,
          none           \* StorageReadInterface::kInvalidVid

VARIABLES
  call,        \* the query that is running
  known,       \* whether the person, and the tag class of IC12, are there
  world, pc, rows, friends,                        \* of several
  places, countryX, countryY, abroad, person, unread, xCount, yCount,  \* of IC3
  posts, tagCount, neg,                            \* of IC4
  tagged, postCount,                               \* of IC6
  likes, messages, i, heap,                        \* of IC7
  query, answer,                                   \* of the short reads
  message, current, post,                          \* of IS2 and IS6
  asked, todo, collected,                          \* of the other short reads
  queue, tagSet, friend, comments, count, tagsOf   \* of IC12

IC3 == INSTANCE CountryMessages WITH Message <- Post \cup Comment, Worlds <- IC3Worlds
IC6 == INSTANCE CoTags WITH Person <- Friend, Worlds <- IC6Worlds
IC4 == INSTANCE TagCount WITH Worlds <- IC4Worlds
IC7 == INSTANCE LatestLikes
Lookup == INSTANCE MessageThread WITH Worlds <- ThreadWorlds
IC12 == INSTANCE TagClassReplies WITH Worlds <- IC12Worlds
Short == INSTANCE ShortReads WITH Worlds <- ShortWorlds

ASSUME MessageAssumption ==
  /\ Post \cap Comment = {}
  /\ none \notin Post \cup Comment \cup Forum \cup Moderator
                \cup Friend \cup Place \cup Tag \cup Person
ASSUME FiniteAssumption ==
  /\ IsFiniteSet(Post) /\ IsFiniteSet(Comment)
  /\ IsFiniteSet(TagClass) /\ IsFiniteSet(Like)
  /\ \A w \in ShortWorlds : IsFiniteSet(w.knows)
ASSUME PersonAssumption == Person \subseteq Nat
ASSUME WorldsAssumption ==
  /\ \A w \in IC3Worlds : w \in IC3!World
  /\ \A w \in IC4Worlds : w \in IC4!World
  /\ \A w \in IC6Worlds : w \in IC6!World
  /\ \A w \in ThreadWorlds : w \in Lookup!World
  /\ \A w \in IC12Worlds : w \in IC12!World
  /\ \A w \in ShortWorlds : w \in Short!World
ASSUME RootAssumption == Root \in TagClass
ASSUME LikeAssumption == Like \subseteq Nat \X Nat \X Nat
ASSUME LimitAssumption == kTopN \in Nat \ {0}

OfIC3 == <<places, countryX, countryY, abroad, person, unread, xCount, yCount>>
OfIC4 == <<posts, tagCount, neg>>
OfIC6 == <<tagged, postCount>>
OfIC7 == <<likes, messages, i, heap>>
OfReads == <<query, answer>>
OfLookup == <<message, current, post>>
OfShort == <<asked, todo, collected>>
OfIC12 == <<queue, tagSet, friend, comments, count, tagsOf>>
vars == <<call, known, world, pc, rows, friends, OfIC3, OfIC4, OfIC6, OfIC7, OfReads,
          OfLookup, OfShort, OfIC12>>

(* The variables of the queries that are not running.                       *)
NoIC3 ==
  /\ places = none /\ countryX = none /\ countryY = none /\ abroad = none
  /\ person = none /\ unread = none /\ xCount = none /\ yCount = none
NoIC4 == posts = none /\ tagCount = none /\ neg = none
NoIC6 == tagged = none /\ postCount = none
NoIC7 == likes = none /\ messages = none /\ i = none /\ heap = none
NoReads == query = none /\ answer = none
NoLookup == message = none /\ current = none /\ post = none
NoShort == asked = none /\ todo = none /\ collected = none
NoIC12 ==
  /\ queue = none /\ tagSet = none /\ friend = none
  /\ comments = none /\ count = none /\ tagsOf = none

Init ==
  /\ known \in BOOLEAN
  /\ \/ /\ call = "ic3" /\ IC3!Init /\ friends = none
        /\ NoIC4 /\ NoIC6 /\ NoIC7 /\ NoReads /\ NoLookup /\ NoShort /\ NoIC12
     \/ /\ call = "ic4" /\ IC4!Init /\ friends = none
        /\ NoIC3 /\ NoIC6 /\ NoIC7 /\ NoReads /\ NoLookup /\ NoShort /\ NoIC12
     \/ /\ call = "ic6" /\ IC6!Init /\ friends = none
        /\ NoIC3 /\ NoIC4 /\ NoIC7 /\ NoReads /\ NoLookup /\ NoShort /\ NoIC12
     \/ /\ call = "ic7" /\ IC7!Init /\ world = none
        /\ NoIC3 /\ NoIC4 /\ NoIC6 /\ NoReads /\ NoLookup /\ NoShort /\ NoIC12
     \/ /\ call = "lookup" /\ known /\ Lookup!Init /\ rows = none /\ friends = none
        /\ NoIC3 /\ NoIC4 /\ NoIC6 /\ NoIC7 /\ NoShort /\ NoIC12
     \/ /\ call = "short" /\ known /\ Short!Init /\ rows = none /\ friends = none
        /\ NoIC3 /\ NoIC4 /\ NoIC6 /\ NoIC7 /\ NoLookup /\ NoIC12
     \/ /\ call = "ic12" /\ IC12!Init
        /\ NoIC3 /\ NoIC4 /\ NoIC6 /\ NoIC7 /\ NoReads /\ NoLookup /\ NoShort

(* exec returns an empty context when what it was asked for is not there;   *)
(* the short reads have a Reject of their own.                              *)
Reject ==
  /\ ~ known
  /\ pc # "done"
  /\ pc' = "done"
  /\ UNCHANGED <<call, known, world, rows, friends, OfIC3, OfIC4, OfIC6, OfIC7,
                 OfReads, OfLookup, OfShort, OfIC12>>

RunIC3 ==
  /\ known /\ call = "ic3"
  /\ IC3!Next
  /\ UNCHANGED <<call, known, friends, OfIC4, OfIC6, OfIC7, OfReads, OfLookup, OfShort, OfIC12>>

RunIC4 ==
  /\ known /\ call = "ic4"
  /\ IC4!Next
  /\ UNCHANGED <<call, known, friends, OfIC3, OfIC6, OfIC7, OfReads, OfLookup, OfShort, OfIC12>>

RunIC6 ==
  /\ known /\ call = "ic6"
  /\ IC6!Next
  /\ UNCHANGED <<call, known, friends, OfIC3, OfIC4, OfIC7, OfReads, OfLookup, OfShort, OfIC12>>

RunIC7 ==
  /\ known /\ call = "ic7"
  /\ IC7!Next
  /\ UNCHANGED <<call, known, world, OfIC3, OfIC4, OfIC6, OfReads, OfLookup, OfShort, OfIC12>>

RunLookup ==
  /\ known /\ call = "lookup"
  /\ Lookup!Next
  /\ UNCHANGED <<call, known, rows, friends, OfIC3, OfIC4, OfIC6, OfIC7, OfShort, OfIC12>>

RunShort ==
  /\ known /\ call = "short"
  /\ Short!Next
  /\ UNCHANGED <<call, known, rows, friends, OfIC3, OfIC4, OfIC6, OfIC7, OfLookup, OfIC12>>

RunIC12 ==
  /\ known /\ call = "ic12"
  /\ IC12!Next
  /\ UNCHANGED <<call, known, OfIC3, OfIC4, OfIC6, OfIC7, OfReads, OfLookup, OfShort>>

Next ==
  Reject \/ RunIC3 \/ RunIC4 \/ RunIC6 \/ RunIC7 \/ RunLookup \/ RunShort \/ RunIC12

Spec == Init /\ [][Next]_vars
FairSpec == Spec /\ WF_vars(Next)

------------------------------------------------------------------------------
(****************************************************************************)
(* Properties.                                                              *)
(****************************************************************************)

(* The variables of the running query have their types; among them: counts  *)
(* never go below zero, the heap holds likes, what resolve_root_post        *)
(* returns is a post.                                                       *)
TypeOK ==
  /\ call = "ic3" => IC3!TypeOK
  /\ call = "ic4" => IC4!TypeOK
  /\ call = "ic6" => IC6!TypeOK
  /\ call = "ic7" => IC7!TypeOK
  /\ call = "lookup" => Lookup!TypeOK
  /\ call = "short" => Short!TypeOK
  /\ call = "ic12" => IC12!TypeOK

(* IC3: the friends abroad with messages from both countries, whatever the  *)
(* order of places, friends and messages, and the number of each.           *)
CountsBothCountries == known /\ call = "ic3" => IC3!CountsBothCountries

(* IC6: the other tags on the friends' posts with the tag, and the number   *)
(* of these posts.                                                          *)
CountsOtherTags == known /\ call = "ic6" => IC6!CountsOtherTags

(* IC4: the rows are the tags of the period that no older post has, in      *)
(* whatever order the storage lists the posts, with the number of these: a  *)
(* post counts once for every stored edge of its author's friendship.       *)
OnlyNewTags == known /\ call = "ic4" => IC4!OnlyNewTags

(* IC7: the newest kTopN of the latest likes, one per person, newest first. *)
ReturnsTheLatest == known /\ call = "ic7" => IC7!ReturnsTheLatest

(* IS6: the forum and the moderator of the post the thread began with, and  *)
(* nothing exactly when one of them is missing.                             *)
AnswersForTheRoot == call = "lookup" => Lookup!AnswersForTheRoot

(* IS3 and IS7: friends and replies, newest first, as often as they are     *)
(* stored, and the flag of the replies by friends.                          *)
ListsInOrder == call = "short" => Short!ListsInOrder

(* IC12: the friends with answers to posts about the class, once for every  *)
(* stored edge, the number of these answers, and exactly their tags.        *)
RowsAreReplies == known /\ call = "ic12" => IC12!RowsAreReplies

(* resolve_root_post goes up without a record of where it has been, and     *)
(* collect_tags_in_class down: where no comment is above itself and no      *)
(* class under itself, the call returns.                                    *)
Returns ==
  \/ ~ known
  \/ call \in {"ic3", "ic4", "ic6", "ic7", "short"}
  \/ call = "lookup" /\ Lookup!Forest
  \/ call = "ic12" /\ IC12!NoClassUnderItself

Termination == Returns => <>(pc = "done")
===============================================================================
