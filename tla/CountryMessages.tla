---------------------------- MODULE CountryMessages ----------------------------
(****************************************************************************)
(* IC3, the friends and friends of friends who live abroad and wrote in     *)
(* both of two countries during a period (exec of src/ic3.cc).  The two     *)
(* countries are the last places of their names in the order of the         *)
(* storage; friends living in a city of either are passed over; the         *)
(* messages of the others are counted, a friend at a time, with one pair of *)
(* counters.  The heap the rows go to is TopN's, and whom the traversal     *)
(* calls for is KnowsTraversal's.                                           *)
(****************************************************************************)
EXTENDS Integers, FiniteSets

CONSTANTS Place, Friend, Message,
          Worlds,        \* the records to run on, see World
          none           \* StorageReadInterface::kInvalidVid

(* xNamed and yNamed are the places with the names asked for (with none of  *)
(* a name, the code asks the engine for the edges of kInvalidVid), partOf   *)
(* the country of a city.                                                   *)
World ==
  [xNamed    : (SUBSET Place) \ {{}},
   yNamed    : (SUBSET Place) \ {{}},
   partOf    : [Place -> Place \cup {none}],
   home      : [Friend -> Place \cup {none}],
   creator   : [Message -> Friend],
   date      : [Message -> Nat],
   startDate : Nat,
   endDate   : Nat,
   locatedIn : [Message -> Place \cup {none}]]

VARIABLES
  world,
  places,      \* those not yet compared with the names
  countryX, countryY,
  abroad,      \* friends, in the code: those whose messages are not counted
  person,      \* the friend whose messages are being counted
  unread,      \* his messages not yet looked at
  xCount, yCount,
  rows,        \* the rows offered to the heap: both counts and the friend
  pc

vars == <<world, places, countryX, countryY, abroad, person, unread,
          xCount, yCount, rows, pc>>

TypeOK ==
  /\ world \in Worlds
  /\ places \subseteq Place
  /\ {countryX, countryY} \subseteq Place \cup {none}
  /\ abroad \subseteq Friend
  /\ person \in Friend \cup {none}
  /\ unread \subseteq Message
  /\ xCount \in Nat /\ yCount \in Nat
  /\ rows \subseteq Nat \X Nat \X Friend
  /\ pc \in {"places", "friends", "count", "done"}

Init ==
  /\ world \in Worlds
  /\ places = Place
  /\ countryX = none /\ countryY = none
  /\ abroad = {}
  /\ person = none
  /\ unread = {}
  /\ xCount = 0 /\ yCount = 0
  /\ rows = {}
  /\ pc = "places"

FindPlace(p) ==
  /\ p \in places
  /\ places' = places \ {p}
  /\ countryX' = IF p \in world.xNamed THEN p ELSE countryX
  /\ countryY' = IF p \in world.yNamed THEN p ELSE countryY
  /\ UNCHANGED <<world, abroad, person, unread, xCount, yCount, rows, pc>>

CitiesOf(countries) == {c \in Place : world.partOf[c] \in countries}

LivesAbroad(f) ==
  world.home[f] \in Place \ CitiesOf({countryX, countryY})

CollectFriends ==
  /\ pc = "places"
  /\ places = {}
  /\ abroad' = {f \in Friend : LivesAbroad(f)}
  /\ pc' = "friends"
  /\ UNCHANGED <<world, places, countryX, countryY, person, unread, xCount, yCount, rows>>

(* The messages of a friend in the period, its end excluded.                *)
MessagesOf(f) ==
  {m \in Message : /\ world.creator[m] = f
                   /\ world.date[m] >= world.startDate
                   /\ world.date[m] < world.endDate}

(* Flawed on purpose: the counters of the last friend are kept.             *)
TakeFriendKeepCounts(f) ==
  /\ pc = "friends"
  /\ f \in abroad
  /\ abroad' = abroad \ {f}
  /\ person' = f
  /\ unread' = MessagesOf(f)
  /\ pc' = "count"
  /\ UNCHANGED <<world, places, countryX, countryY, xCount, yCount, rows>>

TakeFriend(f) ==
  /\ pc = "friends"
  /\ f \in abroad
  /\ abroad' = abroad \ {f}
  /\ person' = f
  /\ unread' = MessagesOf(f)
  /\ xCount' = 0 /\ yCount' = 0
  /\ pc' = "count"
  /\ UNCHANGED <<world, places, countryX, countryY, rows>>

CountMessage(m) ==
  /\ pc = "count"
  /\ m \in unread
  /\ unread' = unread \ {m}
  /\ xCount' = IF world.locatedIn[m] = countryX THEN xCount + 1 ELSE xCount
  /\ yCount' = IF world.locatedIn[m] = countryY /\ countryX # countryY
               THEN yCount + 1 ELSE yCount
  /\ UNCHANGED <<world, places, countryX, countryY, abroad, person, rows, pc>>

OfferFriend ==
  /\ pc = "count"
  /\ unread = {}
  /\ rows' = IF 0 \in {xCount, yCount} THEN rows
             ELSE rows \cup {<<xCount, yCount, person>>}
  /\ person' = none
  /\ pc' = "friends"
  /\ UNCHANGED <<world, places, countryX, countryY, abroad, unread, xCount, yCount>>

Return ==
  /\ pc = "friends"
  /\ abroad = {}
  /\ pc' = "done"
  /\ UNCHANGED <<world, places, countryX, countryY, abroad, person, unread,
                 xCount, yCount, rows>>

Next ==
  \/ \E p \in Place : FindPlace(p)
  \/ CollectFriends
  \/ \E f \in Friend : TakeFriend(f)
  \/ \E m \in Message : CountMessage(m)
  \/ OfferFriend \/ Return

Spec == Init /\ [][Next]_vars

------------------------------------------------------------------------------
(****************************************************************************)
(* Properties.                                                              *)
(****************************************************************************)
From(f, p) == Cardinality({m \in MessagesOf(f) : world.locatedIn[m] = p})

(* With x and y the only places of their names, the rows are the friends    *)
(* with a home outside both countries and messages from both in the period, *)
(* and the number of these; the order in which places, friends and messages *)
(* are stored makes no difference.  A country asked for twice has no rows.  *)
CountsBothCountries ==
  pc = "done" =>
    \A x, y \in Place :
      world.xNamed = {x} /\ world.yNamed = {y} =>
        rows = {<<From(f, x), From(f, y), f>> : f \in
                  {g \in Friend : /\ x # y
                                  /\ From(g, x) > 0 /\ From(g, y) > 0
                                  /\ world.home[g] # none
                                  /\ world.partOf[world.home[g]] \notin {x, y}}}
===============================================================================
