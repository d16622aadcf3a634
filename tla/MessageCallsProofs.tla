-------------------------- MODULE MessageCallsProofs --------------------------
(****************************************************************************)
(* The queries over messages, for every set of persons, posts, comments and *)
(* tags, and for every order of storage.  A call runs one query, so that    *)
(* the invariant of a query has to be kept by its own steps only.           *)
(****************************************************************************)
EXTENDS MessageCalls, Sequences, FiniteSetTheorems, TLAPS

(* Messages are finitely many.                                              *)
LEMMA FiniteSubset ==
  ASSUME NEW S, IsFiniteSet(S), NEW T \in SUBSET S
  PROVE  IsFiniteSet(T) /\ Cardinality(T) \in Nat /\ (Cardinality(T) = 0 <=> T = {})
<1>1. IsFiniteSet(T)
  BY FS_Subset
<1>2. QED
  BY <1>1, FS_CardinalityType, FS_EmptySet

(* One more element is counted once.                                        *)
LEMMA OneMore ==
  ASSUME NEW S, IsFiniteSet(S), NEW T \in SUBSET S, NEW x \in S, x \notin T
  PROVE  Cardinality(T \cup {x}) = Cardinality(T) + 1
<1>1. IsFiniteSet(T)
  BY FS_Subset
<1>2. QED
  BY <1>1, FS_AddElement

(* The modules of the queries count with the operator counted with here.    *)
LEMMA OneCardinality ==
  \A S : /\ IC4!Cardinality(S) = Cardinality(S)
         /\ IC6!Cardinality(S) = Cardinality(S)
         /\ IC3!Cardinality(S) = Cardinality(S)
         /\ IC12!Cardinality(S) = Cardinality(S)
         /\ IC7!Cardinality(S) = Cardinality(S)
         /\ Short!Cardinality(S) = Cardinality(S)
BY DEF IC4!Cardinality, IC6!Cardinality, IC3!Cardinality, IC12!Cardinality,
       IC7!Cardinality, Short!Cardinality, Cardinality

------------------------------------------------------------------------------
(****************************************************************************)
(* IC4.                                                                     *)
(****************************************************************************)

(* The scans of finitely many posts are finitely many.                      *)
LEMMA FiniteScans == IsFiniteSet(IC4!Scans)
<1>1. IsFiniteSet(1..2)
  <2>1. IsFiniteSet({}) /\ 1..2 = ({} \cup {1}) \cup {2}
    BY FS_EmptySet
  <2>2. QED
    BY <2>1, FS_AddElement
<1>2. IsFiniteSet(Post \X (1..2))
  BY <1>1, FiniteAssumption, FS_Product
<1>3. IC4!Scans \subseteq Post \X (1..2)
  BY DEF IC4!Scans
<1>4. QED
  BY <1>2, <1>3, FS_Subset

(* A tag that an older post among those scanned has is ruled out and has no *)
(* count; any other is counted once for each scan of its posts so far.      *)
Inv4 ==
  /\ posts \subseteq IC4!Scans
  /\ neg = {t \in Tag : (IC4!Tagged(t) \cap IC4!OldScans) \ posts # {}}
  /\ tagCount \in [Tag -> Nat]
  /\ \A t \in Tag :
       tagCount[t] = IF t \in neg THEN 0 ELSE Cardinality(IC4!Tagged(t) \ posts)
  /\ pc = "done" =>
       posts = {} /\ rows = {<<tagCount[t], t>> : t \in {u \in Tag : tagCount[u] # 0}}

LEMMA IC4Init ==
  ASSUME IC4!Init
  PROVE  IC4!TypeOK /\ Inv4
<1>1. IC4!TypeOK
  BY DEF IC4!Init, IC4!TypeOK, IC4!Scans
<1>2. \A t \in Tag : IC4!Tagged(t) \ posts = {}
  BY DEF IC4!Init, IC4!Tagged
<1>3. Cardinality({}) = 0
  BY FS_EmptySet
<1>4. QED
  BY <1>1, <1>2, <1>3 DEF IC4!Init, Inv4

LEMMA IC4Next ==
  ASSUME IC4!TypeOK, Inv4, IC4!Next
  PROVE  IC4!TypeOK' /\ Inv4'
<1>1. /\ world \in IC4Worlds /\ world \in IC4!World
      /\ posts \subseteq IC4!Scans /\ tagCount \in [Tag -> Nat]
  BY WorldsAssumption DEF IC4!TypeOK
<1>2. ASSUME NEW s \in Post \X (1..2), IC4!CountNew(s)
      PROVE  IC4!TypeOK' /\ Inv4'
  <2>1. /\ s \in posts /\ s \notin IC4!OldScans
        /\ posts' = posts \ {s} /\ world' = world /\ neg' = neg
        /\ rows' = rows /\ pc' = pc
        /\ tagCount' = [t \in Tag |-> IF t \in world.tags[s[1]] \ neg
                                      THEN tagCount[t] + 1 ELSE tagCount[t]]
    BY <1>2 DEF IC4!CountNew
  <2>2. tagCount' \in [Tag -> Nat]
    BY <1>1, <2>1
  <2>3. neg' = {t \in Tag : (IC4!Tagged(t) \cap IC4!OldScans) \ posts' # {}}
    BY <2>1 DEF Inv4
  <2>4. ASSUME NEW t \in Tag
        PROVE  tagCount'[t] = IF t \in neg THEN 0 ELSE Cardinality(IC4!Tagged(t) \ posts')
    <3>1. tagCount[t] = IF t \in neg THEN 0 ELSE Cardinality(IC4!Tagged(t) \ posts)
      BY DEF Inv4
    <3>2. CASE t \in world.tags[s[1]]
      <4>1. IC4!Tagged(t) \ posts' = (IC4!Tagged(t) \ posts) \cup {s}
        BY <1>1, <2>1, <3>2 DEF IC4!Tagged
      <4>2. IC4!Tagged(t) \ posts \in SUBSET IC4!Scans /\ s \notin IC4!Tagged(t) \ posts /\ s \in IC4!Scans
        BY <1>1, <2>1 DEF IC4!Tagged
      <4>3. Cardinality((IC4!Tagged(t) \ posts) \cup {s}) = Cardinality(IC4!Tagged(t) \ posts) + 1
        BY <4>2, FiniteScans, OneMore
      <4>4. QED
        BY <2>1, <3>1, <3>2, <4>1, <4>3
    <3>3. CASE t \notin world.tags[s[1]]
      <4>1. IC4!Tagged(t) \ posts' = IC4!Tagged(t) \ posts
        BY <2>1, <3>3 DEF IC4!Tagged
      <4>2. QED
        BY <2>1, <3>1, <3>3, <4>1
    <3>4. QED
      BY <3>2, <3>3
  <2>5. IC4!Scans' = IC4!Scans /\ IC4!OldScans' = IC4!OldScans
        /\ \A t : IC4!Tagged(t)' = IC4!Tagged(t)
    BY <2>1 DEF IC4!Tagged, IC4!Scans, IC4!OldScans
  <2>6. pc' # "done"
    BY <2>1 DEF Inv4
  <2>7. IC4!TypeOK'
    BY <2>1, <2>2, <2>5 DEF IC4!TypeOK
  <2>8. QED
    BY <1>1, <2>1, <2>2, <2>3, <2>4, <2>5, <2>6, <2>7 DEF Inv4
<1>3. ASSUME NEW s \in Post \X (1..2), IC4!RuleOut(s)
      PROVE  IC4!TypeOK' /\ Inv4'
  <2>1. /\ s \in posts /\ s \in IC4!OldScans
        /\ posts' = posts \ {s} /\ world' = world /\ neg' = neg \cup world.tags[s[1]]
        /\ rows' = rows /\ pc' = pc
        /\ tagCount' = [t \in Tag |-> IF t \in world.tags[s[1]] THEN 0 ELSE tagCount[t]]
    BY <1>3 DEF IC4!RuleOut
  <2>2. tagCount' \in [Tag -> Nat]
    BY <1>1, <2>1
  <2>3. world.tags[s[1]] \subseteq Tag
    BY <1>1 DEF IC4!World
  <2>4. neg' = {t \in Tag : (IC4!Tagged(t) \cap IC4!OldScans) \ posts' # {}}
    <3>1. ASSUME NEW t \in Tag
          PROVE  t \in neg' <=> (IC4!Tagged(t) \cap IC4!OldScans) \ posts' # {}
      <4>1. t \in neg <=> (IC4!Tagged(t) \cap IC4!OldScans) \ posts # {}
        BY DEF Inv4
      <4>2. s \in IC4!Tagged(t) <=> t \in world.tags[s[1]]
        BY <1>1, <2>1 DEF IC4!Tagged
      <4>3. (IC4!Tagged(t) \cap IC4!OldScans) \ posts'
              = ((IC4!Tagged(t) \cap IC4!OldScans) \ posts) \cup (IC4!Tagged(t) \cap {s})
        BY <2>1
      <4>4. QED
        BY <2>1, <4>1, <4>2, <4>3
    <3>2. neg' \subseteq Tag
      BY <2>1, <2>3 DEF Inv4
    <3>3. QED
      BY <3>1, <3>2
  <2>5. ASSUME NEW t \in Tag
        PROVE  tagCount'[t] = IF t \in neg' THEN 0 ELSE Cardinality(IC4!Tagged(t) \ posts')
    <3>1. tagCount[t] = IF t \in neg THEN 0 ELSE Cardinality(IC4!Tagged(t) \ posts)
      BY DEF Inv4
    <3>2. t \notin world.tags[s[1]] => IC4!Tagged(t) \ posts' = IC4!Tagged(t) \ posts
      BY <2>1 DEF IC4!Tagged
    <3>3. QED
      BY <2>1, <3>1, <3>2
  <2>6. IC4!Scans' = IC4!Scans /\ IC4!OldScans' = IC4!OldScans
        /\ \A t : IC4!Tagged(t)' = IC4!Tagged(t)
    BY <2>1 DEF IC4!Tagged, IC4!Scans, IC4!OldScans
  <2>7. pc' # "done"
    BY <2>1 DEF Inv4
  <2>8. IC4!TypeOK'
    BY <2>1, <2>2, <2>3, <2>6 DEF IC4!TypeOK
  <2>9. QED
    BY <1>1, <2>1, <2>2, <2>4, <2>5, <2>6, <2>7, <2>8 DEF Inv4
<1>4. CASE IC4!OfferRows
  <2>1. /\ posts = {} /\ posts' = posts /\ world' = world /\ neg' = neg
        /\ tagCount' = tagCount /\ pc' = "done"
        /\ rows' = {<<tagCount[t], t>> : t \in {u \in Tag : tagCount[u] # 0}}
    BY <1>4 DEF IC4!OfferRows
  <2>2. IC4!Scans' = IC4!Scans /\ IC4!OldScans' = IC4!OldScans
        /\ \A t : IC4!Tagged(t)' = IC4!Tagged(t)
    BY <2>1 DEF IC4!Tagged, IC4!Scans, IC4!OldScans
  <2>3. rows' \subseteq Nat \X Tag
    BY <1>1, <2>1
  <2>4. IC4!TypeOK'
    BY <2>1, <2>2, <2>3 DEF IC4!TypeOK
  <2>5. QED
    BY <2>1, <2>2, <2>4 DEF Inv4
<1>5. QED
  BY <1>2, <1>3, <1>4 DEF IC4!Next

(* When all posts are scanned the counts are those asked for.               *)
LEMMA IC4Result ==
  ASSUME Inv4
  PROVE  IC4!OnlyNewTags
<1>1. SUFFICES ASSUME pc = "done"
               PROVE  rows = {<<IC4!Cardinality(IC4!Tagged(t)), t>> : t \in
                                {u \in Tag : /\ IC4!Tagged(u) # {}
                                             /\ IC4!Tagged(u) \cap IC4!OldScans = {}}}
  BY DEF IC4!OnlyNewTags
<1>2. posts = {} /\ rows = {<<tagCount[t], t>> : t \in {u \in Tag : tagCount[u] # 0}}
  BY <1>1 DEF Inv4
<1>3. ASSUME NEW t \in Tag
      PROVE  /\ tagCount[t] # 0 <=> IC4!Tagged(t) # {} /\ IC4!Tagged(t) \cap IC4!OldScans = {}
             /\ tagCount[t] # 0 => tagCount[t] = Cardinality(IC4!Tagged(t))
  <2>1. IC4!Tagged(t) \ posts = IC4!Tagged(t)
        /\ (IC4!Tagged(t) \cap IC4!OldScans) \ posts = IC4!Tagged(t) \cap IC4!OldScans
    BY <1>2
  <2>2. /\ t \in neg <=> IC4!Tagged(t) \cap IC4!OldScans # {}
        /\ tagCount[t] = IF t \in neg THEN 0 ELSE Cardinality(IC4!Tagged(t))
    BY <2>1 DEF Inv4
  <2>3. IC4!Tagged(t) \in SUBSET IC4!Scans
    BY DEF IC4!Tagged
  <2>4. Cardinality(IC4!Tagged(t)) = 0 <=> IC4!Tagged(t) = {}
    BY <2>3, FiniteScans, FiniteSubset
  <2>5. QED
    BY <2>2, <2>4
<1>4. QED
  BY <1>2, <1>3, OneCardinality

------------------------------------------------------------------------------
(****************************************************************************)
(* IC6.                                                                     *)
(****************************************************************************)

(* A tag, the one asked for included, is counted once for each of the posts *)
(* of friends that were scanned and have it.                                *)
Inv6 ==
  /\ tagged \subseteq {p \in Post : world.tag \in world.tags[p]}
  /\ pc = "done" => tagged = {}
  /\ \A t \in Tag : postCount[t] = IF pc = "done" /\ t = world.tag THEN 0
                                    ELSE Cardinality(IC6!With(t) \ tagged)
  /\ rows = IF pc = "done" THEN {<<postCount[t], t>> : t \in {u \in Tag : postCount[u] # 0}}
            ELSE {}

LEMMA IC6Init ==
  ASSUME IC6!Init
  PROVE  IC6!TypeOK /\ Inv6
<1>1. IC6!TypeOK
  BY DEF IC6!Init, IC6!TypeOK
<1>2. \A t \in Tag : IC6!With(t) \ tagged = {}
  BY DEF IC6!Init, IC6!With
<1>3. Cardinality({}) = 0
  BY FS_EmptySet
<1>4. QED
  BY <1>1, <1>2, <1>3 DEF IC6!Init, Inv6

LEMMA IC6Next ==
  ASSUME IC6!TypeOK, Inv6, IC6!Next
  PROVE  IC6!TypeOK' /\ Inv6'
<1>1. /\ world \in IC6Worlds /\ world \in IC6!World
      /\ tagged \subseteq Post /\ postCount \in [Tag -> Nat]
  BY WorldsAssumption DEF IC6!TypeOK
<1>2. /\ world.tags \in [Post -> SUBSET Tag] /\ world.tag \in Tag \cup {none}
      /\ none \notin Tag
  BY <1>1, MessageAssumption DEF IC6!World
<1>3. CASE IC6!Reject
  <2>1. /\ pc = "scan" /\ world.tag = none /\ pc' = "done"
        /\ world' = world /\ tagged' = tagged /\ postCount' = postCount /\ rows' = rows
    BY <1>3 DEF IC6!Reject
  <2>2. \A p \in Post : world.tag \notin world.tags[p]
    BY <1>2, <2>1
  <2>3. tagged = {} /\ rows = {}
    BY <2>1, <2>2 DEF Inv6
  <2>4. \A t : IC6!With(t) = {} /\ IC6!With(t)' = {}
    BY <2>1, <2>2 DEF IC6!With
  <2>5. \A t \in Tag : postCount[t] = 0
    <3>1. \A t \in Tag : postCount[t] = Cardinality(IC6!With(t) \ tagged)
      BY <2>1 DEF Inv6
    <3>2. QED
      BY <3>1, <2>4, FS_EmptySet
  <2>6. \A t \in Tag : t # world.tag /\ Cardinality(IC6!With(t)' \ tagged') = 0
    BY <1>2, <2>1, <2>4, FS_EmptySet
  <2>7. IC6!TypeOK'
    BY <2>1 DEF IC6!TypeOK
  <2>8. QED
    BY <2>1, <2>3, <2>5, <2>6, <2>7 DEF Inv6
<1>4. ASSUME NEW p \in Post, IC6!CountPost(p)
      PROVE  IC6!TypeOK' /\ Inv6'
  <2> DEFINE Counted == world.creator[p] \in world.marked
  <2>1. /\ p \in tagged /\ tagged' = tagged \ {p}
        /\ world' = world /\ rows' = rows /\ pc' = pc
        /\ postCount' = [t \in Tag |-> IF Counted /\ t \in world.tags[p]
                                       THEN postCount[t] + 1 ELSE postCount[t]]
    BY <1>4 DEF IC6!CountPost
  <2>2. postCount' \in [Tag -> Nat]
    BY <1>1, <2>1
  <2>3. pc # "done" /\ pc = "scan"
    BY <2>1 DEF Inv6, IC6!TypeOK
  <2>4. world.tag \in world.tags[p]
    BY <2>1 DEF Inv6
  <2>5. ASSUME NEW t \in Tag
        PROVE  postCount'[t] = Cardinality(IC6!With(t) \ tagged')
    <3>1. postCount[t] = Cardinality(IC6!With(t) \ tagged)
      BY <2>3 DEF Inv6
    <3>2. CASE Counted /\ t \in world.tags[p]
      <4>1. IC6!With(t) \ tagged' = (IC6!With(t) \ tagged) \cup {p}
        BY <2>1, <2>4, <3>2 DEF IC6!With
      <4>2. IC6!With(t) \ tagged \in SUBSET Post /\ p \notin IC6!With(t) \ tagged
        BY <2>1 DEF IC6!With
      <4>3. Cardinality((IC6!With(t) \ tagged) \cup {p}) = Cardinality(IC6!With(t) \ tagged) + 1
        BY <4>2, FiniteAssumption, OneMore
      <4> HIDE DEF Counted
      <4>4. QED
        BY <2>1, <3>1, <3>2, <4>1, <4>3
    <3>3. CASE ~ (Counted /\ t \in world.tags[p])
      <4>1. IC6!With(t) \ tagged' = IC6!With(t) \ tagged
        BY <2>1, <3>3 DEF IC6!With
      <4> HIDE DEF Counted
      <4>2. QED
        BY <2>1, <3>1, <3>3, <4>1
    <3>4. QED
      BY <3>2, <3>3
  <2>6. \A t : IC6!With(t)' = IC6!With(t)
    BY <2>1 DEF IC6!With
  <2>7. IC6!TypeOK'
    BY <2>1, <2>2 DEF IC6!TypeOK
  <2>8. QED
    BY <2>1, <2>3, <2>5, <2>6, <2>7 DEF Inv6
<1>5. CASE IC6!OfferRows
  <2>1. /\ pc = "scan" /\ world.tag \in Tag /\ tagged = {} /\ tagged' = tagged
        /\ world' = world /\ pc' = "done"
        /\ postCount' = [postCount EXCEPT ![world.tag] = 0]
        /\ rows' = {<<postCount'[t], t>> : t \in {u \in Tag : postCount'[u] # 0}}
    BY <1>5 DEF IC6!OfferRows
  <2>2. postCount' \in [Tag -> Nat]
    BY <1>1, <2>1
  <2>3. ASSUME NEW t \in Tag
        PROVE  postCount'[t] = IF t = world.tag THEN 0 ELSE Cardinality(IC6!With(t) \ tagged)
    BY <1>1, <2>1 DEF Inv6
  <2>4. \A t : IC6!With(t)' = IC6!With(t)
    BY <2>1 DEF IC6!With
  <2>5. rows' \subseteq Nat \X Tag
    BY <2>1, <2>2
  <2>6. IC6!TypeOK'
    BY <2>1, <2>2, <2>5 DEF IC6!TypeOK
  <2>7. QED
    BY <2>1, <2>3, <2>4, <2>6 DEF Inv6
<1>6. QED
  BY <1>3, <1>4, <1>5 DEF IC6!Next

(* At the end the counts are those of the other tags.                       *)
LEMMA IC6Result ==
  ASSUME Inv6
  PROVE  IC6!CountsOtherTags
<1>1. SUFFICES ASSUME pc = "done"
               PROVE  rows = {<<IC6!Cardinality(IC6!With(t)), t>> :
                                t \in {u \in Tag \ {world.tag} : IC6!With(u) # {}}}
  BY DEF IC6!CountsOtherTags
<1>2. /\ tagged = {}
      /\ rows = {<<postCount[t], t>> : t \in {u \in Tag : postCount[u] # 0}}
  BY <1>1 DEF Inv6
<1>3. ASSUME NEW t \in Tag
      PROVE  /\ postCount[t] # 0 <=> t # world.tag /\ IC6!With(t) # {}
             /\ postCount[t] # 0 => postCount[t] = Cardinality(IC6!With(t))
  <2>1. IC6!With(t) \ tagged = IC6!With(t)
    BY <1>2
  <2>2. postCount[t] = IF t = world.tag THEN 0 ELSE Cardinality(IC6!With(t))
    BY <1>1, <2>1 DEF Inv6
  <2>3. IC6!With(t) \in SUBSET Post
    BY DEF IC6!With
  <2>4. Cardinality(IC6!With(t)) = 0 <=> IC6!With(t) = {}
    BY <2>3, FiniteAssumption, FiniteSubset
  <2>5. QED
    BY <2>2, <2>4
<1>4. QED
  BY <1>2, <1>3, OneCardinality

------------------------------------------------------------------------------
(****************************************************************************)
(* The thread lookup of IS2 and IS6.                                        *)
(****************************************************************************)

(* What is above a comment is the comment and what is above the message it  *)
(* answers; nothing is above a post, or a comment that answers nothing.     *)
LEMMA ThreadStep ==
  ASSUME world \in ThreadWorlds, NEW m \in Post \cup Comment
  PROVE  Lookup!Thread(m) =
           IF m \in Comment /\ world.replyOf[m] # none
           THEN {m} \cup Lookup!Thread(world.replyOf[m]) ELSE {m}
<1> DEFINE M == Post \cup Comment
           Closed(S) == \A c \in S \cap Comment : world.replyOf[c] \in S \cup {none}
<1>1. /\ \A c \in Comment : world.replyOf[c] \in M \cup {none}
      /\ Post \cap Comment = {} /\ none \notin M
  BY WorldsAssumption, MessageAssumption DEF Lookup!World, Lookup!Message
<1>2. \A x : Lookup!Thread(x) = {n \in M : \A S \in SUBSET M : x \in S /\ Closed(S) => n \in S}
  BY DEF Lookup!Thread, Lookup!Message
<1>3. m \in Lookup!Thread(m)
  BY <1>2
<1>4. CASE m \in Comment /\ world.replyOf[m] # none
  <2> DEFINE r == world.replyOf[m]
  <2>1. r \in M
    BY <1>1, <1>4
  <2>2. ASSUME NEW n \in Lookup!Thread(r) PROVE n \in Lookup!Thread(m)
    <3>1. ASSUME NEW S \in SUBSET M, m \in S, Closed(S) PROVE n \in S
      <4>1. r \in S
        BY <3>1, <1>4
      <4> HIDE DEF r, Closed
      <4>2. QED
        BY <4>1, <3>1, <1>2, <2>2
    <3> HIDE DEF Closed
    <3>2. QED
      BY <3>1, <1>2, <2>2
  <2>3. ASSUME NEW n \in Lookup!Thread(m), n # m PROVE n \in Lookup!Thread(r)
    <3>1. ASSUME NEW S \in SUBSET M, r \in S, Closed(S) PROVE n \in S
      <4>1. S \cup {m} \in SUBSET M /\ m \in S \cup {m} /\ Closed(S \cup {m})
        BY <3>1
      <4> HIDE DEF r, Closed
      <4>2. n \in S \cup {m}
        BY <4>1, <1>2, <2>3
      <4>3. QED
        BY <4>2, <2>3
    <3>2. n \in M
      BY <1>2, <2>3
    <3> HIDE DEF r, Closed
    <3>3. QED
      BY <3>1, <3>2, <1>2
  <2>4. QED
    BY <1>3, <1>4, <2>2, <2>3
<1>5. CASE ~ (m \in Comment /\ world.replyOf[m] # none)
  <2>1. {m} \in SUBSET M /\ Closed({m})
    BY <1>5
  <2> HIDE DEF Closed
  <2>2. \A n \in Lookup!Thread(m) : n \in {m}
    BY <2>1, <1>2
  <2>3. QED
    BY <2>2, <1>3, <1>5
<1>6. QED
  BY <1>4, <1>5

(* The posts above a message are those above the comment the loop stands    *)
(* at; when it ends there is at most one, which it has found.               *)
Roots(m) == Lookup!Thread(m) \cap Post

InvLookup ==
  /\ pc = "find" => current = none /\ post = none /\ answer = none
  /\ pc = "resolve" => /\ message \in Comment /\ current \in Comment
                       /\ post = none /\ answer = none
                       /\ Roots(message) = Roots(current)
  /\ pc = "use" => /\ message \in Post \cup Comment /\ answer = none
                   /\ Roots(message) = {post} \ {none}
  /\ pc = "done" => Lookup!AnswersForTheRoot

LEMMA LookupInit ==
  ASSUME Lookup!Init
  PROVE  Lookup!TypeOK /\ InvLookup
BY DEF Lookup!Init, Lookup!TypeOK, InvLookup

LEMMA LookupNext ==
  ASSUME Lookup!TypeOK, InvLookup, Lookup!Next
  PROVE  Lookup!TypeOK' /\ InvLookup'
<1>1. /\ world \in ThreadWorlds /\ message \in Post \cup Comment \cup {none}
      /\ current \in Post \cup Comment \cup {none}
      /\ post \in Post \cup {none}
      /\ none \notin Post \cup Comment /\ Post \cap Comment = {}
  BY MessageAssumption DEF Lookup!TypeOK, Lookup!Message
<1>2. /\ \A c \in Comment : world.replyOf[c] \in Post \cup Comment \cup {none}
      /\ \A p \in Post : world.forumOf[p] \in Forum \cup {none}
      /\ \A f \in Forum : world.moderatorOf[f] \in Moderator \cup {none}
      /\ none \notin Forum /\ none \notin Moderator
  BY <1>1, WorldsAssumption, MessageAssumption DEF Lookup!World, Lookup!Message
<1>3. \A m \in Post : Roots(m) = {m}
  BY <1>1, ThreadStep DEF Roots
<1>4. \A m \in Comment : Roots(m) = IF world.replyOf[m] = none THEN {}
                                    ELSE Roots(world.replyOf[m])
  <2>1. SUFFICES ASSUME NEW m \in Comment
                 PROVE  Roots(m) = IF world.replyOf[m] = none THEN {}
                                   ELSE Roots(world.replyOf[m])
    OBVIOUS
  <2>2. {m} \cap Post = {}
    BY <1>1
  <2>3. QED
    BY <1>1, <2>2, ThreadStep DEF Roots
<1>5. world' = world => \A m : Roots(m)' = Roots(m)
  BY DEF Roots, Lookup!Thread
<1>6. CASE Lookup!Reject
  BY <1>6 DEF Lookup!Reject, Lookup!Return, Lookup!TypeOK, InvLookup, Lookup!AnswersForTheRoot
<1>7. CASE Lookup!IsPost
  <2>1. Lookup!TypeOK'
    BY <1>7 DEF Lookup!IsPost, Lookup!TypeOK
  <2>2. InvLookup'
    BY <1>1, <1>3, <1>5, <1>7 DEF Lookup!IsPost, InvLookup
  <2>3. QED
    BY <2>1, <2>2
<1>8. CASE Lookup!IsComment
  <2>1. Lookup!TypeOK'
    BY <1>8 DEF Lookup!IsComment, Lookup!TypeOK
  <2>2. InvLookup'
    BY <1>1, <1>5, <1>8 DEF Lookup!IsComment, InvLookup
  <2>3. QED
    BY <2>1, <2>2
<1>9. CASE Lookup!ToPost
  <2>1. Lookup!TypeOK'
    BY <1>9 DEF Lookup!ToPost, Lookup!TypeOK
  <2>2. InvLookup'
    BY <1>1, <1>3, <1>4, <1>5, <1>9 DEF Lookup!ToPost, InvLookup
  <2>3. QED
    BY <2>1, <2>2
<1>10. CASE Lookup!Orphan
  <2>1. Lookup!TypeOK'
    BY <1>10 DEF Lookup!Orphan, Lookup!TypeOK
  <2>2. InvLookup'
    BY <1>1, <1>4, <1>5, <1>10 DEF Lookup!Orphan, InvLookup
  <2>3. QED
    BY <2>1, <2>2
<1>11. CASE Lookup!ToParent
  <2>1. Lookup!TypeOK'
    BY <1>11 DEF Lookup!ToParent, Lookup!TypeOK, Lookup!Message
  <2>2. InvLookup'
    BY <1>1, <1>4, <1>5, <1>11 DEF Lookup!ToParent, InvLookup
  <2>3. QED
    BY <2>1, <2>2
<1>12. CASE Lookup!UseInIS2
  <2>1. Lookup!TypeOK'
    BY <1>12 DEF Lookup!UseInIS2, Lookup!Return, Lookup!TypeOK
  <2>2. InvLookup'
    BY <1>12 DEF Lookup!UseInIS2, Lookup!Return, InvLookup, Lookup!AnswersForTheRoot
  <2>3. QED
    BY <2>1, <2>2
<1>13. CASE Lookup!UseInIS6
  <2> DEFINE f == Lookup!ForumOf(post)
             m == Lookup!ModeratorOf(f)
             found == {r \in Forum \X Moderator :
                         \E p \in Roots(message) : /\ world.forumOf[p] = r[1]
                                                   /\ world.moderatorOf[r[1]] = r[2]}
  <2>1. /\ pc = "use" /\ pc' = "done" /\ world' = world /\ query' = query
        /\ message' = message /\ current' = current /\ post' = post
        /\ answer' = IF m = none THEN none ELSE <<f, m>>
    BY <1>13 DEF Lookup!UseInIS6, Lookup!Return
  <2>2. message \in Post \cup Comment /\ Roots(message) = {post} \ {none}
    BY <2>1 DEF InvLookup
  <2>3. f \in Forum \cup {none} /\ m \in Moderator \cup {none} /\ (f = none => m = none)
    BY <1>1, <1>2 DEF Lookup!ForumOf, Lookup!ModeratorOf
  <2>4. found = IF m = none THEN {} ELSE {<<f, m>>}
    <3>1. ASSUME NEW r \in found PROVE r = <<f, m>> /\ m # none
      <4>1. PICK p \in Roots(message) : world.forumOf[p] = r[1] /\ world.moderatorOf[r[1]] = r[2]
        BY <3>1
      <4>2. p = post /\ post # none
        BY <2>2, <4>1
      <4>3. r \in Forum \X Moderator
        BY <3>1
      <4>4. f = r[1] /\ f # none
        BY <1>2, <4>1, <4>2, <4>3 DEF Lookup!ForumOf
      <4>5. m = r[2] /\ m # none
        BY <1>2, <4>1, <4>3, <4>4 DEF Lookup!ModeratorOf
      <4>6. QED
        BY <4>3, <4>4, <4>5
    <3>2. ASSUME m # none PROVE <<f, m>> \in found
      <4>1. f \in Forum /\ m \in Moderator /\ f # none
        BY <2>3, <3>2, <1>2
      <4>2. post # none /\ world.forumOf[post] = f /\ world.moderatorOf[f] = m
        BY <4>1 DEF Lookup!ForumOf, Lookup!ModeratorOf
      <4>3. post \in Roots(message)
        BY <4>2, <2>2
      <4> HIDE DEF f, m
      <4>4. QED
        BY <4>1, <4>2, <4>3
    <3> HIDE DEF found, f, m
    <3>3. QED
      BY <3>1, <3>2
  <2>5. Lookup!AnswersForTheRoot'
    <3>1. message # none
      BY <1>1, <2>2
    <3>2. IF found = {} THEN answer' = none ELSE answer' \in found
      <4> HIDE DEF found, f, m
      <4>1. QED
        BY <2>1, <2>4
    <3>3. QED
      BY <2>1, <3>1, <3>2 DEF Lookup!AnswersForTheRoot, Roots, Lookup!Thread
  <2>6. Lookup!TypeOK'
    <3>1. answer' \in (Forum \X Moderator) \cup {none}
      <4> HIDE DEF f, m
      <4>1. QED
        BY <1>2, <2>1, <2>3
    <3>2. QED
      BY <2>1, <3>1 DEF Lookup!TypeOK
  <2>7. QED
    BY <2>1, <2>5, <2>6 DEF InvLookup
<1>14. QED
  BY <1>6, <1>7, <1>8, <1>9, <1>10, <1>11, <1>12, <1>13 DEF Lookup!Next

------------------------------------------------------------------------------
(****************************************************************************)
(* IC3.                                                                     *)
(****************************************************************************)

LEMMA MessagesFinite == IsFiniteSet(Post \cup Comment)
BY FiniteAssumption, FS_Union

(* With x and y the only places of their names: the friends who live        *)
(* abroad, the messages of one of them from a country, and the row that     *)
(* counts those from both.                                                  *)
Eligible(x, y) ==
  {g \in Friend : world.home[g] # none /\ world.partOf[world.home[g]] \notin {x, y}}

Located(f, p) == {m \in IC3!MessagesOf(f) : world.locatedIn[m] = p}

Row3(x, y, f) == <<Cardinality(Located(f, x)), Cardinality(Located(f, y)), f>>

(* The friends abroad are taken one by one; those done have a row exactly   *)
(* when they have messages from both countries, and the counters are those  *)
(* of the messages read of the friend whose turn it is.                     *)
Offered(x, y) ==
  {g \in Eligible(x, y) \ abroad : /\ x # y
                                   /\ Located(g, x) # {} /\ Located(g, y) # {}
                                   /\ ~ (pc = "count" /\ g = person)}

Counting(x, y) ==
  /\ person \in Eligible(x, y) \ abroad
  /\ unread \subseteq IC3!MessagesOf(person)
  /\ xCount = Cardinality(Located(person, x) \ unread)
  /\ yCount = IF x = y THEN 0 ELSE Cardinality(Located(person, y) \ unread)

CountsFor(x, y) ==
  /\ x \notin places => countryX = x
  /\ y \notin places => countryY = y
  /\ pc # "places" => /\ abroad \subseteq Eligible(x, y)
                      /\ rows = {Row3(x, y, f) : f \in Offered(x, y)}
  /\ pc = "count" => Counting(x, y)

Inv3 ==
  /\ pc = "places" => rows = {}
  /\ pc # "places" => places = {}
  /\ pc = "count" => person \in Friend
  /\ pc = "done" => abroad = {}
  /\ \A x, y \in Place : world.xNamed = {x} /\ world.yNamed = {y} => CountsFor(x, y)

LEMMA IC3Init ==
  ASSUME IC3!Init
  PROVE  IC3!TypeOK /\ Inv3
<1>1. IC3!TypeOK
  BY DEF IC3!Init, IC3!TypeOK
<1>2. QED
  BY <1>1 DEF IC3!Init, Inv3, CountsFor

LEMMA IC3Next ==
  ASSUME IC3!TypeOK, Inv3, IC3!Next
  PROVE  IC3!TypeOK' /\ Inv3'
<1>1. /\ world \in IC3Worlds /\ world \in IC3!World /\ none \notin Place
      /\ places \subseteq Place /\ abroad \subseteq Friend /\ unread \subseteq Post \cup Comment
      /\ xCount \in Nat /\ yCount \in Nat /\ rows \subseteq Nat \X Nat \X Friend
      /\ countryX \in Place \cup {none} /\ countryY \in Place \cup {none}
      /\ person \in Friend \cup {none}
  BY WorldsAssumption, MessageAssumption DEF IC3!TypeOK
<1>2. /\ world.home \in [Friend -> Place \cup {none}]
      /\ world.partOf \in [Place -> Place \cup {none}]
  BY <1>1 DEF IC3!World
<1>3. \A x, y, f : world' = world =>
        /\ Eligible(x, y)' = Eligible(x, y) /\ Located(f, x)' = Located(f, x)
        /\ Row3(x, y, f)' = Row3(x, y, f) /\ IC3!MessagesOf(f)' = IC3!MessagesOf(f)
  BY DEF Eligible, Located, Row3, IC3!MessagesOf
<1>4. ASSUME NEW p \in Place, IC3!FindPlace(p)
      PROVE  IC3!TypeOK' /\ Inv3'
  <2>1. /\ p \in places /\ places' = places \ {p} /\ world' = world
        /\ countryX' = IF p \in world.xNamed THEN p ELSE countryX
        /\ countryY' = IF p \in world.yNamed THEN p ELSE countryY
        /\ abroad' = abroad /\ person' = person /\ unread' = unread
        /\ xCount' = xCount /\ yCount' = yCount /\ rows' = rows /\ pc' = pc
    BY <1>4 DEF IC3!FindPlace
  <2>2. pc = "places"
    BY <2>1 DEF Inv3
  <2>3. IC3!TypeOK'
    BY <1>1, <2>1 DEF IC3!TypeOK
  <2>4. ASSUME NEW x \in Place, NEW y \in Place, world.xNamed = {x}, world.yNamed = {y}
        PROVE  CountsFor(x, y)'
    <3>1. CountsFor(x, y)
      BY <2>4 DEF Inv3
    <3>2. QED
      BY <2>1, <2>2, <2>4, <3>1 DEF CountsFor
  <2>5. QED
    BY <2>1, <2>2, <2>3, <2>4 DEF Inv3
<1>5. CASE IC3!CollectFriends
  <2>1. /\ pc = "places" /\ places = {} /\ pc' = "friends"
        /\ abroad' = {f \in Friend : IC3!LivesAbroad(f)}
        /\ world' = world /\ places' = places /\ countryX' = countryX /\ countryY' = countryY
        /\ person' = person /\ unread' = unread
        /\ xCount' = xCount /\ yCount' = yCount /\ rows' = rows
    BY <1>5 DEF IC3!CollectFriends
  <2>2. IC3!TypeOK'
    BY <2>1 DEF IC3!TypeOK
  <2>3. ASSUME NEW x \in Place, NEW y \in Place, world.xNamed = {x}, world.yNamed = {y}
        PROVE  CountsFor(x, y)'
    <3>1. countryX = x /\ countryY = y /\ rows = {}
      BY <2>1, <2>3 DEF Inv3, CountsFor
    <3>2. ASSUME NEW f \in Friend
          PROVE  IC3!LivesAbroad(f) <=> f \in Eligible(x, y)
      BY <1>1, <1>2, <3>1 DEF IC3!LivesAbroad, IC3!CitiesOf, Eligible
    <3>3. abroad' = Eligible(x, y)
      BY <2>1, <3>2 DEF Eligible
    <3>4. Offered(x, y)' = {}
      BY <1>3, <2>1, <3>3 DEF Offered
    <3>5. QED
      BY <1>3, <2>1, <3>1, <3>3, <3>4 DEF CountsFor
  <2>4. QED
    BY <2>1, <2>2, <2>3 DEF Inv3
<1>6. ASSUME NEW f \in Friend, IC3!TakeFriend(f)
      PROVE  IC3!TypeOK' /\ Inv3'
  <2>1. /\ pc = "friends" /\ f \in abroad /\ abroad' = abroad \ {f} /\ person' = f
        /\ unread' = IC3!MessagesOf(f) /\ xCount' = 0 /\ yCount' = 0 /\ pc' = "count"
        /\ world' = world /\ places' = places /\ rows' = rows
        /\ countryX' = countryX /\ countryY' = countryY
    BY <1>6 DEF IC3!TakeFriend
  <2>2. IC3!MessagesOf(f) \subseteq Post \cup Comment
    BY DEF IC3!MessagesOf
  <2>3. IC3!TypeOK'
    BY <1>1, <2>1, <2>2 DEF IC3!TypeOK
  <2>4. ASSUME NEW x \in Place, NEW y \in Place, world.xNamed = {x}, world.yNamed = {y}
        PROVE  CountsFor(x, y)'
    <3>1. CountsFor(x, y)
      BY <2>4 DEF Inv3
    <3>2. \A p : Located(f, p) \ IC3!MessagesOf(f) = {}
      BY DEF Located
    <3>3. Offered(x, y)' = Offered(x, y)
      BY <1>3, <2>1, <3>1 DEF Offered, CountsFor
    <3>4. Counting(x, y)'
      BY <1>3, <2>1, <3>1, <3>2, FS_EmptySet DEF Counting, CountsFor
    <3>5. QED
      BY <1>3, <2>1, <3>1, <3>3, <3>4 DEF CountsFor
  <2>5. QED
    BY <2>1, <2>3, <2>4 DEF Inv3
<1>7. ASSUME NEW m \in Post \cup Comment, IC3!CountMessage(m)
      PROVE  IC3!TypeOK' /\ Inv3'
  <2>1. /\ pc = "count" /\ m \in unread /\ unread' = unread \ {m}
        /\ xCount' = IF world.locatedIn[m] = countryX THEN xCount + 1 ELSE xCount
        /\ yCount' = IF world.locatedIn[m] = countryY /\ countryX # countryY
                     THEN yCount + 1 ELSE yCount
        /\ world' = world /\ places' = places /\ countryX' = countryX /\ countryY' = countryY
        /\ abroad' = abroad /\ person' = person /\ rows' = rows /\ pc' = pc
    BY <1>7 DEF IC3!CountMessage
  <2>2. IC3!TypeOK'
    BY <1>1, <2>1 DEF IC3!TypeOK
  <2>3. ASSUME NEW x \in Place, NEW y \in Place, world.xNamed = {x}, world.yNamed = {y}
        PROVE  CountsFor(x, y)'
    <3>1. CountsFor(x, y) /\ Counting(x, y) /\ countryX = x /\ countryY = y
      BY <2>1, <2>3 DEF Inv3, CountsFor
    <3>2. ASSUME NEW p
          PROVE  Cardinality(Located(person, p) \ unread') =
                   Cardinality(Located(person, p) \ unread)
                     + (IF world.locatedIn[m] = p THEN 1 ELSE 0)
      <4>1. m \in IC3!MessagesOf(person)
        BY <2>1, <3>1 DEF Counting
      <4>2. Located(person, p) \ unread \in SUBSET (Post \cup Comment)
        BY DEF Located, IC3!MessagesOf
      <4>3. CASE world.locatedIn[m] = p
        <5>1. Located(person, p) \ unread' = (Located(person, p) \ unread) \cup {m}
          BY <2>1, <4>1, <4>3 DEF Located
        <5>2. m \notin Located(person, p) \ unread
          BY <2>1
        <5>3. QED
          BY <4>2, <4>3, <5>1, <5>2, MessagesFinite, OneMore
      <4>4. CASE world.locatedIn[m] # p
        <5>1. Located(person, p) \ unread' = Located(person, p) \ unread
          BY <2>1, <4>4 DEF Located
        <5>2. Cardinality(Located(person, p) \ unread) \in Nat
          BY <4>2, MessagesFinite, FiniteSubset
        <5>3. QED
          BY <4>4, <5>1, <5>2
      <4>5. QED
        BY <4>3, <4>4
    <3>3. Counting(x, y)'
      <4>1. /\ person' \in Eligible(x, y)' \ abroad'
            /\ unread' \subseteq IC3!MessagesOf(person)'
            /\ Located(person, x)' = Located(person, x) /\ Located(person, y)' = Located(person, y)
        BY <1>3, <2>1, <3>1 DEF Counting, Located, IC3!MessagesOf
      <4>2. /\ xCount = Cardinality(Located(person, x) \ unread)
            /\ yCount = IF x = y THEN 0 ELSE Cardinality(Located(person, y) \ unread)
        BY <3>1 DEF Counting
      <4>3. /\ Cardinality(Located(person, x) \ unread') =
                 Cardinality(Located(person, x) \ unread)
                   + (IF world.locatedIn[m] = x THEN 1 ELSE 0)
            /\ Cardinality(Located(person, y) \ unread') =
                 Cardinality(Located(person, y) \ unread)
                   + (IF world.locatedIn[m] = y THEN 1 ELSE 0)
        BY <3>2
      <4>4. /\ xCount' = Cardinality(Located(person, x) \ unread')
            /\ yCount' = IF x = y THEN 0 ELSE Cardinality(Located(person, y) \ unread')
        BY <1>1, <2>1, <3>1, <4>2, <4>3
      <4>5. QED
        BY <4>1, <4>4 DEF Counting
    <3>4. Offered(x, y)' = Offered(x, y)
      BY <1>3, <2>1 DEF Offered
    <3>5. QED
      BY <1>3, <2>1, <3>1, <3>3, <3>4 DEF CountsFor
  <2>4. QED
    BY <2>1, <2>2, <2>3 DEF Inv3
<1>8. CASE IC3!OfferFriend
  <2>1. /\ pc = "count" /\ unread = {}
        /\ rows' = IF 0 \in {xCount, yCount} THEN rows
                   ELSE rows \cup {<<xCount, yCount, person>>}
        /\ person' = none /\ pc' = "friends"
        /\ world' = world /\ places' = places /\ countryX' = countryX /\ countryY' = countryY
        /\ abroad' = abroad /\ unread' = unread /\ xCount' = xCount /\ yCount' = yCount
    BY <1>8 DEF IC3!OfferFriend
  <2>2. person \in Friend
    BY <2>1 DEF Inv3
  <2>3. IC3!TypeOK'
    <3>1. rows' \subseteq Nat \X Nat \X Friend
      BY <1>1, <2>1, <2>2
    <3>2. QED
      BY <2>1, <3>1 DEF IC3!TypeOK
  <2>4. ASSUME NEW x \in Place, NEW y \in Place, world.xNamed = {x}, world.yNamed = {y}
        PROVE  CountsFor(x, y)'
    <3>1. CountsFor(x, y) /\ Counting(x, y)
      BY <2>1, <2>4 DEF Inv3, CountsFor
    <3>2. \A p : Located(person, p) \in SUBSET (Post \cup Comment)
      BY DEF Located, IC3!MessagesOf
    <3>3. \A p : Located(person, p) = {} <=> Cardinality(Located(person, p)) = 0
      BY <3>2, MessagesFinite, FiniteSubset
    <3>4. \A p : Located(person, p) \ unread = Located(person, p)
      BY <2>1
    <3>5. /\ xCount = Cardinality(Located(person, x))
          /\ yCount = IF x = y THEN 0 ELSE Cardinality(Located(person, y))
      BY <3>1, <3>4 DEF Counting
    <3>6. 0 \notin {xCount, yCount} <=>
            x # y /\ Located(person, x) # {} /\ Located(person, y) # {}
      BY <3>3, <3>5
    <3>7. Offered(x, y)' = IF 0 \in {xCount, yCount} THEN Offered(x, y)
                           ELSE Offered(x, y) \cup {person}
      BY <1>3, <2>1, <3>1, <3>6 DEF Offered, Counting
    <3>8. rows = {Row3(x, y, f) : f \in Offered(x, y)}
      BY <2>1, <3>1 DEF CountsFor
    <3>9. 0 \notin {xCount, yCount} => <<xCount, yCount, person>> = Row3(x, y, person)
      BY <3>5, <3>6 DEF Row3
    <3>10. rows' = {Row3(x, y, f) : f \in Offered(x, y)'}
      BY <2>1, <3>7, <3>8, <3>9
    <3>11. QED
      BY <1>3, <2>1, <3>1, <3>10 DEF CountsFor
  <2>5. QED
    BY <2>1, <2>3, <2>4 DEF Inv3
<1>9. CASE IC3!Return
  <2>1. /\ pc = "friends" /\ abroad = {} /\ pc' = "done"
        /\ world' = world /\ places' = places /\ countryX' = countryX /\ countryY' = countryY
        /\ abroad' = abroad /\ person' = person /\ unread' = unread
        /\ xCount' = xCount /\ yCount' = yCount /\ rows' = rows
    BY <1>9 DEF IC3!Return
  <2>2. IC3!TypeOK'
    BY <2>1 DEF IC3!TypeOK
  <2>3. ASSUME NEW x \in Place, NEW y \in Place, world.xNamed = {x}, world.yNamed = {y}
        PROVE  CountsFor(x, y)'
    <3>1. CountsFor(x, y)
      BY <2>3 DEF Inv3
    <3>2. Offered(x, y)' = Offered(x, y)
      BY <1>3, <2>1 DEF Offered
    <3>3. QED
      BY <1>3, <2>1, <3>1, <3>2 DEF CountsFor
  <2>4. QED
    BY <2>1, <2>2, <2>3 DEF Inv3
<1>10. QED
  BY <1>4, <1>5, <1>6, <1>7, <1>8, <1>9 DEF IC3!Next

(* When no friend is left the rows are those of all who are eligible.       *)
LEMMA IC3Result ==
  ASSUME Inv3, IC3!TypeOK
  PROVE  IC3!CountsBothCountries
<1>1. SUFFICES ASSUME pc = "done",
                      NEW x \in Place, NEW y \in Place, world.xNamed = {x}, world.yNamed = {y}
               PROVE  rows = {<<IC3!From(f, x), IC3!From(f, y), f>> : f \in
                                {g \in Friend : /\ x # y
                                                /\ IC3!From(g, x) > 0 /\ IC3!From(g, y) > 0
                                                /\ world.home[g] # none
                                                /\ world.partOf[world.home[g]] \notin {x, y}}}
  BY DEF IC3!CountsBothCountries
<1>2. abroad = {} /\ CountsFor(x, y)
  BY <1>1 DEF Inv3
<1>3. rows = {Row3(x, y, f) : f \in Offered(x, y)}
  BY <1>1, <1>2 DEF CountsFor
<1>4. \A f, p : /\ IC3!From(f, p) = Cardinality(Located(f, p))
                /\ IC3!From(f, p) > 0 <=> Located(f, p) # {}
  <2>1. SUFFICES ASSUME NEW f, NEW p
                 PROVE  /\ IC3!From(f, p) = Cardinality(Located(f, p))
                        /\ IC3!From(f, p) > 0 <=> Located(f, p) # {}
    OBVIOUS
  <2>2. IC3!From(f, p) = Cardinality(Located(f, p))
    BY OneCardinality DEF IC3!From, Located
  <2>3. Located(f, p) \in SUBSET (Post \cup Comment)
    BY DEF Located, IC3!MessagesOf
  <2>4. /\ Cardinality(Located(f, p)) \in Nat
        /\ Cardinality(Located(f, p)) = 0 <=> Located(f, p) = {}
    BY <2>3, MessagesFinite, FiniteSubset
  <2>5. QED
    BY <2>2, <2>4
<1>5. Offered(x, y) = {g \in Friend : /\ x # y
                                      /\ IC3!From(g, x) > 0 /\ IC3!From(g, y) > 0
                                      /\ world.home[g] # none
                                      /\ world.partOf[world.home[g]] \notin {x, y}}
  BY <1>1, <1>2, <1>4 DEF Offered, Eligible
<1>6. \A f : Row3(x, y, f) = <<IC3!From(f, x), IC3!From(f, y), f>>
  BY <1>4 DEF Row3
<1>7. QED
  BY <1>3, <1>5, <1>6

------------------------------------------------------------------------------
(****************************************************************************)
(* IC12.                                                                    *)
(****************************************************************************)
Elements(s) == {s[k] : k \in DOMAIN s}

(* A class leaves the queue and others enter it.                            *)
LEMMA QueueStep ==
  ASSUME NEW S, NEW q \in Seq(S), q # << >>, NEW s \in Seq(S)
  PROVE  /\ Tail(q) \o s \in Seq(S)
         /\ Elements(q) = {Head(q)} \cup Elements(Tail(q))
         /\ Elements(Tail(q) \o s) = Elements(Tail(q)) \cup Elements(s)
<1>1. /\ Tail(q) \in Seq(S) /\ Tail(q) \o s \in Seq(S)
      /\ Len(q) \in Nat \ {0} /\ DOMAIN q = 1..Len(q)
      /\ Len(Tail(q)) = Len(q) - 1 /\ DOMAIN Tail(q) = 1..(Len(q) - 1)
      /\ \A k \in 1..(Len(q) - 1) : Tail(q)[k] = q[k + 1]
      /\ Head(q) = q[1]
  OBVIOUS
<1>2. Elements(q) = {Head(q)} \cup Elements(Tail(q))
  <2>1. ASSUME NEW e \in Elements(q) PROVE e \in {Head(q)} \cup Elements(Tail(q))
    <3>1. PICK k \in 1..Len(q) : e = q[k]
      BY <1>1 DEF Elements
    <3>2. CASE k = 1
      BY <1>1, <3>1, <3>2
    <3>3. CASE k # 1
      <4>1. k - 1 \in 1..(Len(q) - 1) /\ Tail(q)[k - 1] = e
        BY <1>1, <3>1, <3>3
      <4>2. QED
        BY <1>1, <4>1 DEF Elements
    <3>4. QED
      BY <3>2, <3>3
  <2>2. ASSUME NEW e \in Elements(Tail(q)) PROVE e \in Elements(q)
    <3>1. PICK k \in 1..(Len(q) - 1) : e = Tail(q)[k]
      BY <1>1 DEF Elements
    <3>2. k + 1 \in 1..Len(q) /\ q[k + 1] = e
      BY <1>1, <3>1
    <3>3. QED
      BY <1>1, <3>2 DEF Elements
  <2>3. Head(q) \in Elements(q)
    BY <1>1 DEF Elements
  <2>4. QED
    BY <2>1, <2>2, <2>3
<1>3. ASSUME NEW t \in Seq(S)
      PROVE  Elements(t \o s) = Elements(t) \cup Elements(s)
  <2>1. /\ Len(t) \in Nat /\ Len(s) \in Nat
        /\ DOMAIN t = 1..Len(t) /\ DOMAIN s = 1..Len(s)
        /\ DOMAIN (t \o s) = 1..(Len(t) + Len(s))
        /\ \A k \in 1..(Len(t) + Len(s)) :
             (t \o s)[k] = IF k <= Len(t) THEN t[k] ELSE s[k - Len(t)]
    OBVIOUS
  <2>2. ASSUME NEW e \in Elements(t \o s) PROVE e \in Elements(t) \cup Elements(s)
    <3>1. PICK k \in 1..(Len(t) + Len(s)) : e = (t \o s)[k]
      BY <2>1, <2>2 DEF Elements
    <3>2. CASE k <= Len(t)
      BY <2>1, <3>1, <3>2 DEF Elements
    <3>3. CASE ~ (k <= Len(t))
      <4>1. k - Len(t) \in 1..Len(s) /\ e = s[k - Len(t)]
        BY <2>1, <3>1, <3>3
      <4>2. QED
        BY <2>1, <4>1 DEF Elements
    <3>4. QED
      BY <3>2, <3>3
  <2>3. ASSUME NEW e \in Elements(t) PROVE e \in Elements(t \o s)
    <3>1. PICK k \in 1..Len(t) : e = t[k]
      BY <2>1, <2>3 DEF Elements
    <3>2. k \in 1..(Len(t) + Len(s)) /\ (t \o s)[k] = e
      BY <2>1, <3>1
    <3>3. QED
      BY <2>1, <3>2 DEF Elements
  <2>4. ASSUME NEW e \in Elements(s) PROVE e \in Elements(t \o s)
    <3>1. PICK k \in 1..Len(s) : e = s[k]
      BY <2>1, <2>4 DEF Elements
    <3>2. k + Len(t) \in 1..(Len(t) + Len(s)) /\ (t \o s)[k + Len(t)] = e
      BY <2>1, <3>1
    <3>3. QED
      BY <2>1, <3>2 DEF Elements
  <2>5. QED
    BY <2>2, <2>3, <2>4
<1>4. QED
  BY <1>1, <1>2, <1>3

(* The classes under a class are the class and those under its subclasses.  *)
LEMMA UnderStep ==
  ASSUME NEW c \in TagClass
  PROVE  /\ c \in IC12!Under(c)
         /\ \A e \in IC12!Under(c) : IC12!Subclasses(e) \subseteq IC12!Under(c)
         /\ \A e \in IC12!Under(c) : e = c \/ \E d \in IC12!Subclasses(c) : e \in IC12!Under(d)
<1> DEFINE Closed(S) == \A e \in S : IC12!Subclasses(e) \subseteq S
<1>1. \A d : IC12!Under(d) = {e \in TagClass :
                                \A S \in SUBSET TagClass : d \in S /\ Closed(S) => e \in S}
  BY DEF IC12!Under
<1>2. \A e : IC12!Subclasses(e) \subseteq TagClass
  BY DEF IC12!Subclasses
<1>3. \A d \in TagClass : d \in IC12!Under(d)
  BY <1>1
<1>4. \A d : IC12!Under(d) \subseteq TagClass /\ Closed(IC12!Under(d))
  <2>1. SUFFICES ASSUME NEW d, NEW e \in IC12!Under(d), NEW f \in IC12!Subclasses(e)
                 PROVE  f \in IC12!Under(d)
    BY <1>1
  <2>2. ASSUME NEW S \in SUBSET TagClass, d \in S, Closed(S) PROVE f \in S
    <3>1. e \in S
      <4> HIDE DEF Closed
      <4>1. QED
        BY <1>1, <2>2
    <3>2. QED
      BY <3>1, <2>2
  <2> HIDE DEF Closed
  <2>3. QED
    BY <1>1, <1>2, <2>2
<1>5. ASSUME NEW e \in IC12!Under(c)
      PROVE  e = c \/ \E d \in IC12!Subclasses(c) : e \in IC12!Under(d)
  <2> DEFINE S == {c} \cup UNION {IC12!Under(d) : d \in IC12!Subclasses(c)}
  <2>1. S \in SUBSET TagClass /\ c \in S
    BY <1>4
  <2>2. Closed(S)
    <3>1. ASSUME NEW f \in S, NEW g \in IC12!Subclasses(f) PROVE g \in S
      <4>1. CASE f = c
        BY <1>2, <1>3, <4>1
      <4>2. CASE f # c
        <5>1. PICK d \in IC12!Subclasses(c) : f \in IC12!Under(d)
          BY <4>2
        <5>2. g \in IC12!Under(d)
          BY <1>4, <5>1
        <5>3. QED
          BY <5>1, <5>2
      <4>3. QED
        BY <4>1, <4>2
    <3>2. QED
      BY <3>1
  <2>3. e \in S
    <3> HIDE DEF S, Closed
    <3>1. QED
      BY <1>1, <2>1, <2>2
  <2>4. QED
    BY <2>3
<1>6. QED
  BY <1>3, <1>4, <1>5

(* An order of the subclasses has them all.                                 *)
LEMMA OrderOf ==
  ASSUME NEW S \in SUBSET TagClass, NEW s \in IC12!Orders(S)
  PROVE  s \in Seq(TagClass) /\ Elements(s) = S
<1>1. Cardinality(S) \in Nat
  BY FiniteAssumption, FiniteSubset
<1>2. s \in [1..Cardinality(S) -> S] /\ {s[k] : k \in 1..Cardinality(S)} = S
  BY OneCardinality DEF IC12!Orders
<1>3. s \in [1..Cardinality(S) -> TagClass]
  BY <1>2
<1>4. QED
  BY <1>1, <1>2, <1>3 DEF Elements

(* As long as a class is in the queue, every tag under the root is marked   *)
(* or of a class under one that is in the queue.  Then the marked tags are  *)
(* those under the root, the friends done have a row exactly when they have *)
(* answers, and the counter is that of the answers looked at of the friend  *)
(* whose turn it is.                                                        *)
By(f) == {c \in Comment : world.creator[c] = f}

(* The row a call back offers.                                              *)
Row12(s) == <<Cardinality(IC12!Replies(s[1])), s>>

Answered ==
  {g \in IC12!Callbacks \ friends : IC12!Replies(g[1]) # {} /\ ~ (pc = "count" /\ g = friend)}

TagsOf(f) ==
  IF IC12!Replies(f) # {} THEN UNION {IC12!MarkedTags(c) : c \in By(f)} ELSE {}

Inv12 ==
  /\ pc = "classes" =>
       /\ friends = IC12!Callbacks
       /\ Elements(queue) \subseteq IC12!Under(Root)
       /\ tagSet \subseteq IC12!TagsUnderRoot
       /\ \A t \in IC12!TagsUnderRoot \ tagSet :
            \E c \in Elements(queue) : world.hasType[t] \in IC12!Under(c)
  /\ pc # "classes" => tagSet = IC12!TagsUnderRoot
  /\ pc = "count" => /\ friend \in IC12!Callbacks \ friends
                     /\ comments \subseteq By(friend[1])
                     /\ count = Cardinality(IC12!Replies(friend[1]) \ comments)
  /\ rows = {Row12(f) : f \in Answered}
  /\ pc = "done" => friends = {} /\ tagsOf = [f \in Friend |-> TagsOf(f)]

LEMMA IC12Init ==
  ASSUME IC12!Init
  PROVE  IC12!TypeOK /\ Inv12
<1>1. /\ queue = <<Root>> /\ tagSet = {} /\ friends = IC12!Callbacks /\ pc = "classes" /\ rows = {}
      /\ Root \in TagClass
  BY RootAssumption DEF IC12!Init
<1>2. IC12!TypeOK
  BY <1>1 DEF IC12!Init, IC12!TypeOK
<1>3. Elements(queue) = {Root}
  BY <1>1 DEF Elements
<1>4. Elements(queue) \subseteq IC12!Under(Root)
  BY <1>1, <1>3, UnderStep
<1>5. \A t \in IC12!TagsUnderRoot : world.hasType[t] \in IC12!Under(Root)
  BY DEF IC12!TagsUnderRoot
<1>6. Answered = {}
  BY <1>1 DEF Answered
<1>7. QED
  BY <1>1, <1>2, <1>3, <1>4, <1>5, <1>6 DEF Inv12

LEMMA IC12Next ==
  ASSUME IC12!TypeOK, Inv12, IC12!Next
  PROVE  IC12!TypeOK' /\ Inv12'
<1>1. /\ world \in IC12Worlds /\ world \in IC12!World
      /\ queue \in Seq(TagClass) /\ tagSet \subseteq Tag /\ friends \subseteq IC12!Callbacks
      /\ friend \in IC12!Callbacks \cup {none} /\ comments \subseteq Comment /\ count \in Nat
      /\ rows \subseteq Nat \X IC12!Callbacks
      /\ none \notin Post /\ none \notin Friend
  BY WorldsAssumption, MessageAssumption DEF IC12!TypeOK
<1>2. /\ world.hasType \in [Tag -> TagClass]
      /\ world.replyOf \in [Comment -> Post \cup {none}]
      /\ world.hasTag \in [Post -> SUBSET Tag]
  BY <1>1 DEF IC12!World
<1>3. world' = world =>
        /\ \A c : IC12!Under(c)' = IC12!Under(c)
        /\ IC12!TagsUnderRoot' = IC12!TagsUnderRoot
        /\ IC12!Callbacks' = IC12!Callbacks
        /\ \A f : /\ IC12!Replies(f)' = IC12!Replies(f)
                  /\ By(f)' = By(f) /\ Row12(f)' = Row12(f)
  BY DEF IC12!Under, IC12!Subclasses, IC12!TagsUnderRoot, IC12!Replies, By, Row12, IC12!Callbacks
<1>4. \A f : IC12!Replies(f) \in SUBSET Comment
  BY DEF IC12!Replies
<1>5. CASE IC12!ExpandClass
  <2>1. /\ pc = "classes" /\ queue # << >> /\ pc' = pc
        /\ tagSet' = tagSet \cup {t \in Tag : world.hasType[t] = Head(queue)}
        /\ world' = world /\ friends' = friends /\ friend' = friend /\ comments' = comments
        /\ count' = count /\ rows' = rows /\ tagsOf' = tagsOf
    BY <1>5 DEF IC12!ExpandClass
  <2>2. PICK h \in TagClass : h = Head(queue)
    BY <1>1, <2>1
  <2>3. PICK s \in IC12!Orders(IC12!Subclasses(h)) : queue' = Tail(queue) \o s
    BY <1>5, <2>2 DEF IC12!ExpandClass
  <2>4. IC12!Subclasses(h) \in SUBSET TagClass
    BY DEF IC12!Subclasses
  <2>5. s \in Seq(TagClass) /\ Elements(s) = IC12!Subclasses(h)
    BY <2>4, OrderOf
  <2>6. /\ queue' \in Seq(TagClass)
        /\ Elements(queue) = {h} \cup Elements(Tail(queue))
        /\ Elements(queue') = Elements(Tail(queue)) \cup IC12!Subclasses(h)
    BY <1>1, <2>1, <2>2, <2>3, <2>5, QueueStep
  <2>7. Elements(queue)' = Elements(queue')
    BY DEF Elements
  <2>8. h \in IC12!Under(Root)
    BY <2>1, <2>6 DEF Inv12
  <2>9. Elements(queue)' \subseteq IC12!Under(Root)
    BY <2>1, <2>6, <2>7, <2>8, UnderStep, RootAssumption DEF Inv12
  <2>10. tagSet' \subseteq IC12!TagsUnderRoot
    BY <2>1, <2>2, <2>8 DEF Inv12, IC12!TagsUnderRoot
  <2>11. ASSUME NEW t \in IC12!TagsUnderRoot \ tagSet'
         PROVE  \E c \in Elements(queue)' : world.hasType[t] \in IC12!Under(c)
    <3>1. t \in IC12!TagsUnderRoot \ tagSet /\ t \in Tag /\ world.hasType[t] # h
      BY <2>1, <2>2 DEF IC12!TagsUnderRoot
    <3>2. PICK c \in Elements(queue) : world.hasType[t] \in IC12!Under(c)
      BY <2>1, <3>1 DEF Inv12
    <3>3. CASE c = h
      <4>1. PICK d \in IC12!Subclasses(h) : world.hasType[t] \in IC12!Under(d)
        BY <3>1, <3>2, <3>3, UnderStep
      <4>2. QED
        BY <2>6, <2>7, <4>1
    <3>4. CASE c # h
      BY <2>6, <2>7, <3>2, <3>4
    <3>5. QED
      BY <3>3, <3>4
  <2>12. IC12!TypeOK'
    BY <1>1, <1>3, <2>1, <2>6 DEF IC12!TypeOK
  <2>13. Answered' = Answered
    BY <1>3, <2>1 DEF Answered
  <2>14. rows' = {Row12(f)' : f \in Answered'}
    BY <1>3, <2>1, <2>13 DEF Inv12
  <2>15. QED
    BY <1>3, <2>1, <2>9, <2>10, <2>11, <2>12, <2>14 DEF Inv12
<1>6. CASE IC12!EndOfClasses
  <2>1. /\ pc = "classes" /\ queue = << >> /\ pc' = "friends"
        /\ world' = world /\ queue' = queue /\ tagSet' = tagSet /\ friends' = friends
        /\ friend' = friend /\ comments' = comments
        /\ count' = count /\ rows' = rows /\ tagsOf' = tagsOf
    BY <1>6 DEF IC12!EndOfClasses
  <2>2. Elements(queue) = {}
    BY <2>1 DEF Elements
  <2>3. tagSet = IC12!TagsUnderRoot
    BY <2>1, <2>2 DEF Inv12
  <2>4. Answered' = Answered
    BY <1>3, <2>1 DEF Answered
  <2>5. rows' = {Row12(f)' : f \in Answered'}
    BY <1>3, <2>1, <2>4 DEF Inv12
  <2>6. IC12!TypeOK'
    BY <1>3, <2>1 DEF IC12!TypeOK
  <2>7. QED
    BY <1>3, <2>1, <2>3, <2>5, <2>6 DEF Inv12
<1>7. ASSUME NEW s \in Friend \X (1..2), IC12!TakeFriend(s)
      PROVE  IC12!TypeOK' /\ Inv12'
  <2>0. s \in IC12!Callbacks
    BY <1>1, <1>7 DEF IC12!TakeFriend
  <2>1. /\ pc = "friends" /\ s \in friends /\ friends' = friends \ {s} /\ friend' = s
        /\ comments' = By(s[1]) /\ count' = 0 /\ pc' = "count"
        /\ world' = world /\ queue' = queue /\ tagSet' = tagSet
        /\ rows' = rows /\ tagsOf' = tagsOf
    BY <1>7 DEF IC12!TakeFriend, By
  <2>2. IC12!TypeOK'
    BY <1>3, <2>1, <2>0 DEF IC12!TypeOK, By
  <2>3. Answered' = Answered
    BY <1>3, <2>1 DEF Answered
  <2>4. rows' = {Row12(g)' : g \in Answered'}
    BY <1>3, <2>1, <2>3 DEF Inv12
  <2>5. IC12!Replies(s[1]) \ By(s[1]) = {}
    BY DEF IC12!Replies, By
  <2>6. count' = Cardinality(IC12!Replies(s[1]) \ By(s[1]))
    BY <2>1, <2>5, FS_EmptySet
  <2>7. tagSet' = IC12!TagsUnderRoot'
    BY <1>3, <2>1 DEF Inv12
  <2>8. /\ friend' \in IC12!Callbacks' \ friends' /\ comments' \subseteq By(friend[1])'
        /\ count' = Cardinality(IC12!Replies(friend[1])' \ comments')
    BY <1>1, <1>3, <2>0, <2>1, <2>6
  <2>9. QED
    BY <2>1, <2>2, <2>4, <2>7, <2>8 DEF Inv12
<1>8. ASSUME NEW c \in Comment, IC12!CountReply(c)
      PROVE  IC12!TypeOK' /\ Inv12'
  <2>1. /\ pc = "count" /\ c \in comments /\ comments' = comments \ {c}
        /\ count' = IF IC12!MarkedTags(c) # {} THEN count + 1 ELSE count
        /\ world' = world /\ queue' = queue /\ tagSet' = tagSet /\ friends' = friends
        /\ friend' = friend /\ rows' = rows /\ tagsOf' = tagsOf /\ pc' = pc
    BY <1>8 DEF IC12!CountReply
  <2>2. IC12!TypeOK'
    BY <1>1, <1>3, <2>1 DEF IC12!TypeOK
  <2>3. Answered' = Answered
    BY <1>3, <2>1 DEF Answered
  <2>4. rows' = {Row12(g)' : g \in Answered'}
    BY <1>3, <2>1, <2>3 DEF Inv12
  <2>5. tagSet = IC12!TagsUnderRoot /\ c \in By(friend[1])
    BY <2>1 DEF Inv12
  <2>6. IC12!MarkedTags(c) # {} <=> c \in IC12!Replies(friend[1])
    BY <2>5 DEF IC12!MarkedTags, IC12!Replies, By
  <2>7. count' = Cardinality(IC12!Replies(friend[1]) \ comments')
    <3>1. count = Cardinality(IC12!Replies(friend[1]) \ comments)
      BY <2>1 DEF Inv12
    <3>2. CASE c \in IC12!Replies(friend[1])
      <4>1. IC12!Replies(friend[1]) \ comments' = (IC12!Replies(friend[1]) \ comments) \cup {c}
        BY <2>1, <3>2
      <4>2. IC12!Replies(friend[1]) \ comments \in SUBSET Comment
            /\ c \notin IC12!Replies(friend[1]) \ comments
        BY <1>4, <2>1
      <4>3. QED
        BY <2>1, <2>6, <3>1, <3>2, <4>1, <4>2, FiniteAssumption, OneMore
    <3>3. CASE c \notin IC12!Replies(friend[1])
      <4>1. IC12!Replies(friend[1]) \ comments' = IC12!Replies(friend[1]) \ comments
        BY <2>1, <3>3
      <4>2. QED
        BY <2>1, <2>6, <3>1, <3>3, <4>1
    <3>4. QED
      BY <3>2, <3>3
  <2>8. /\ friend' \in IC12!Callbacks' \ friends' /\ comments' \subseteq By(friend[1])'
        /\ count' = Cardinality(IC12!Replies(friend[1])' \ comments')
    BY <1>3, <2>1, <2>7 DEF Inv12
  <2>9. QED
    BY <1>3, <2>1, <2>2, <2>4, <2>5, <2>8 DEF Inv12
<1>9. CASE IC12!OfferFriend
  <2>1. /\ pc = "count" /\ comments = {}
        /\ rows' = IF count = 0 THEN rows ELSE rows \cup {<<count, friend>>}
        /\ friend' = none /\ pc' = "friends"
        /\ world' = world /\ queue' = queue /\ tagSet' = tagSet /\ friends' = friends
        /\ comments' = comments /\ count' = count /\ tagsOf' = tagsOf
    BY <1>9 DEF IC12!OfferFriend
  <2>2. /\ friend \in IC12!Callbacks \ friends /\ tagSet = IC12!TagsUnderRoot
        /\ count = Cardinality(IC12!Replies(friend[1]) \ comments)
        /\ rows = {Row12(f) : f \in Answered}
    BY <2>1 DEF Inv12
  <2>3. IC12!Replies(friend[1]) \ comments = IC12!Replies(friend[1])
    BY <2>1
  <2>4. count = 0 <=> IC12!Replies(friend[1]) = {}
    BY <1>4, <2>2, <2>3, FiniteAssumption, FiniteSubset
  <2>5. Answered' = IF count = 0 THEN Answered ELSE Answered \cup {friend}
    BY <1>3, <2>1, <2>2, <2>4 DEF Answered
  <2>6. <<count, friend>> = Row12(friend)
    BY <2>2, <2>3 DEF Row12
  <2>7. rows' = {Row12(f) : f \in Answered'}
    BY <2>1, <2>2, <2>5, <2>6
  <2>8. IC12!TypeOK'
    <3>1. rows' \subseteq Nat \X IC12!Callbacks
      BY <1>1, <2>1, <2>2
    <3>2. QED
      BY <1>3, <2>1, <3>1 DEF IC12!TypeOK
  <2>9. QED
    BY <1>3, <2>1, <2>2, <2>7, <2>8 DEF Inv12
<1>10. CASE IC12!Return
  <2>1. /\ pc = "friends" /\ friends = {} /\ pc' = "done"
        /\ tagsOf' = [f \in Friend |->
                        IF \E r \in rows : r[2][1] = f
                        THEN UNION {IC12!MarkedTags(c) : c \in By(f)} ELSE {}]
        /\ world' = world /\ queue' = queue /\ tagSet' = tagSet /\ friends' = friends
        /\ friend' = friend /\ comments' = comments /\ count' = count /\ rows' = rows
    BY <1>10 DEF IC12!Return, By
  <2>2. rows = {Row12(f) : f \in Answered} /\ tagSet = IC12!TagsUnderRoot
    BY <2>1 DEF Inv12
  <2>3. ASSUME NEW f \in Friend
        PROVE  (\E r \in rows : r[2][1] = f) <=> IC12!Replies(f) # {}
    <3>1. <<f, 1>> \in IC12!Callbacks
      BY <1>1, <2>3 DEF IC12!Callbacks, IC12!World
    <3>2. IC12!Replies(f) # {} => <<f, 1>> \in Answered
      BY <2>1, <3>1 DEF Answered
    <3>3. \A g \in Answered : IC12!Replies(g[1]) # {}
      BY DEF Answered
    <3>4. \A g : Row12(g)[2] = g
      BY DEF Row12
    <3>5. QED
      BY <2>2, <3>2, <3>3, <3>4
  <2>4. \A c : IC12!MarkedTags(c)' = IC12!MarkedTags(c)
    BY <2>1 DEF IC12!MarkedTags
  <2>5. \A f : TagsOf(f)' = TagsOf(f)
    BY <1>3, <2>1, <2>4 DEF TagsOf
  <2>6. tagsOf' = [f \in Friend |-> TagsOf(f)]
    BY <2>1, <2>3 DEF TagsOf
  <2>7. Answered' = Answered
    BY <1>3, <2>1 DEF Answered
  <2>8. rows' = {Row12(f)' : f \in Answered'}
    BY <1>3, <2>1, <2>2, <2>7
  <2>9. \A c : IC12!MarkedTags(c) \subseteq Tag
    BY <1>1 DEF IC12!MarkedTags
  <2>10. \A f : TagsOf(f) \in SUBSET Tag
    BY <2>9 DEF TagsOf
  <2>11. IC12!TypeOK'
    <3>1. tagsOf' \in [Friend -> SUBSET Tag]
      BY <2>6, <2>10
    <3>2. IC12!Callbacks' = IC12!Callbacks
      BY <1>3, <2>1
    <3>3. QED
      BY <2>1, <3>1, <3>2 DEF IC12!TypeOK
  <2>12. QED
    BY <1>3, <2>1, <2>2, <2>5, <2>6, <2>8, <2>11 DEF Inv12
<1>11. QED
  BY <1>5, <1>6, <1>7, <1>8, <1>9, <1>10 DEF IC12!Next

(* When no friend is left the rows and the tags are those of all.           *)
LEMMA IC12Result ==
  ASSUME Inv12
  PROVE  IC12!RowsAreReplies
<1>1. SUFFICES ASSUME pc = "done"
               PROVE  /\ rows = {<<IC12!Cardinality(IC12!Replies(s[1])), s>> :
                                   s \in {r \in IC12!Callbacks : IC12!Replies(r[1]) # {}}}
                      /\ \A f \in Friend :
                           tagsOf[f] = UNION {world.hasTag[world.replyOf[c]] \cap IC12!TagsUnderRoot
                                                : c \in IC12!Replies(f)}
  BY DEF IC12!RowsAreReplies
<1>2. /\ friends = {} /\ tagsOf = [f \in Friend |-> TagsOf(f)]
      /\ rows = {Row12(f) : f \in Answered} /\ tagSet = IC12!TagsUnderRoot
  BY <1>1 DEF Inv12
<1>3. Answered = {g \in IC12!Callbacks : IC12!Replies(g[1]) # {}}
  BY <1>1, <1>2 DEF Answered
<1>4. \A s : Row12(s) = <<IC12!Cardinality(IC12!Replies(s[1])), s>>
  BY OneCardinality DEF Row12
<1>5. ASSUME NEW f \in Friend
      PROVE  tagsOf[f] = UNION {world.hasTag[world.replyOf[c]] \cap IC12!TagsUnderRoot
                                  : c \in IC12!Replies(f)}
  <2>1. \A c \in By(f) : IC12!MarkedTags(c) = IF c \in IC12!Replies(f)
                          THEN world.hasTag[world.replyOf[c]] \cap IC12!TagsUnderRoot ELSE {}
    BY <1>2 DEF IC12!MarkedTags, IC12!Replies, By
  <2>2. IC12!Replies(f) \subseteq By(f)
    BY DEF IC12!Replies, By
  <2>3. QED
    BY <1>2, <2>1, <2>2 DEF TagsOf
<1>6. QED
  BY <1>2, <1>3, <1>4, <1>5

------------------------------------------------------------------------------
(****************************************************************************)
(* The other short reads.                                                   *)
(****************************************************************************)

(* What is counted one for one has the same number.                         *)
LEMMA SameNumber ==
  ASSUME NEW S, IsFiniteSet(S), NEW T, NEW f \in [S -> T],
         \A x, y \in S : f[x] = f[y] => x = y,
         \A z \in T : \E x \in S : f[x] = z
  PROVE  IsFiniteSet(T) /\ Cardinality(T) = Cardinality(S)
<1>1. f \in Bijection(S, T)
  BY DEF Bijection, Injection, Surjection, IsInjective
<1>2. ExistsBijection(S, T)
  BY <1>1 DEF ExistsBijection
<1>3. QED
  BY <1>2, FS_Bijection

LEMMA FiniteImage ==
  ASSUME NEW S, IsFiniteSet(S), NEW f, DOMAIN f = S, f = [x \in S |-> f[x]]
  PROVE  IsFiniteSet({f[x] : x \in S})
<1>1. f \in Surjection(S, {f[x] : x \in S})
  BY DEF Surjection
<1>2. QED
  BY <1>1, FS_Surjection

(* An arrangement of a finite set has every element once.                   *)
LEMMA Arrangement ==
  ASSUME NEW S, IsFiniteSet(S), NEW s \in Short!SetToSeqs(S)
  PROVE  /\ s \in Seq(S) /\ Len(s) = Cardinality(S) /\ DOMAIN s = 1..Len(s)
         /\ Elements(s) = S
         /\ \A k, n \in DOMAIN s : s[k] = s[n] => k = n
<1>1. PICK N \in Nat : N = Cardinality(S)
  BY FS_CardinalityType
<1>2. s \in [1..N -> S] /\ \A k, n \in 1..N : k # n => s[k] # s[n]
  BY <1>1, OneCardinality DEF Short!SetToSeqs
<1>3. s \in Injection(1..N, S)
  BY <1>2 DEF Injection, IsInjective
<1>4. IsFiniteSet(1..N) /\ Cardinality(1..N) = N
  BY FS_Interval
<1>5. s \in Surjection(1..N, S)
  BY <1>1, <1>3, <1>4, FS_Injection
<1>6. s \in Seq(S) /\ Len(s) = N /\ DOMAIN s = 1..N
  BY <1>2
<1>7. Elements(s) = S
  BY <1>2, <1>5, <1>6 DEF Elements, Surjection
<1>8. QED
  BY <1>1, <1>2, <1>6, <1>7

(* The rows of IS7, and those returned for an order of them.                *)
Answering == {c \in Comment : world.replyOf[c] = asked}

Authored(S) == {c \in S : world.creator[c] # none}

RowOf(c) == <<world.date[c], world.creator[c], c>>

ReplyRows == {RowOf(c) : c \in Authored(Answering)}

Flagged(s) ==
  [k \in DOMAIN s |-> <<s[k], s[k][2] \in Short!MarkKnows(world.creator[asked])>>]

(* What is collected are the rows of the edges looked at; what is returned  *)
(* is a sorted arrangement of the rows of all.                              *)
InvShort ==
  /\ asked \in (IF query \in {"is1", "is3"} THEN Person ELSE Post \cup Comment) \cup {none}
  /\ pc = "find" => collected = {}
  /\ pc = "collect" => asked # none /\ query \in {"is3", "is7"}
  /\ pc = "collect" /\ query = "is3" =>
       /\ todo \subseteq Short!FriendEdges(asked)
       /\ collected = Short!FriendEdges(asked) \ todo
  /\ pc = "collect" /\ query = "is7" =>
       /\ world.creator[asked] # none
       /\ todo \subseteq Answering
       /\ collected = {RowOf(c) : c \in Authored(Answering \ todo)}
  /\ pc = "done" /\ asked # none /\ query = "is3" =>
       answer \in Short!Sorted(Short!FriendEdges(asked))
  /\ pc = "done" /\ asked # none /\ query = "is7" =>
       IF world.creator[asked] = none THEN answer = << >>
       ELSE \E s \in Short!Sorted(ReplyRows) : answer = Flagged(s)

LEMMA ShortInit ==
  ASSUME Short!Init
  PROVE  Short!TypeOK /\ InvShort
<1>1. /\ world \in ShortWorlds
      /\ query \in {"is1", "is3", "is4", "is5", "is7"}
      /\ asked \in (IF query \in {"is1", "is3"} THEN Person ELSE Post \cup Comment) \cup {none}
      /\ todo = {} /\ collected = {} /\ answer = << >> /\ pc = "find"
  BY DEF Short!Init, Short!Message
<1>2. \A S : << >> \in Seq(S)
  OBVIOUS
<1>3. asked \in Person \cup (Post \cup Comment) \cup {none}
  BY <1>1
<1>4. Short!TypeOK
  BY <1>1, <1>2, <1>3 DEF Short!TypeOK, Short!Message
<1>5. QED
  BY <1>1, <1>4 DEF InvShort

(* The rows are of their kinds and finitely many.                           *)
LEMMA FriendEdgesFinite ==
  ASSUME world \in ShortWorlds, NEW p
  PROVE  /\ Short!FriendEdges(p) \subseteq Short!FriendRow
         /\ IsFiniteSet(Short!FriendEdges(p))
<1> DEFINE Out == {e \in world.knows : e[1] = p}
           In == {e \in world.knows : e[2] = p}
           fOut == [e \in Out |-> <<e[3], e[2], "out">>]
           fIn == [e \in In |-> <<e[3], e[1], "in">>]
<1>1. world.knows \subseteq Person \X Person \X Nat /\ IsFiniteSet(world.knows)
  BY WorldsAssumption, FiniteAssumption DEF Short!World
<1>2. IsFiniteSet(Out) /\ IsFiniteSet(In)
  BY <1>1, FS_Subset
<1>3. IsFiniteSet({fOut[e] : e \in Out}) /\ IsFiniteSet({fIn[e] : e \in In})
  <2>1. DOMAIN fOut = Out /\ fOut = [e \in Out |-> fOut[e]]
    OBVIOUS
  <2>2. DOMAIN fIn = In /\ fIn = [e \in In |-> fIn[e]]
    OBVIOUS
  <2> HIDE DEF fOut, fIn, Out, In
  <2>3. IsFiniteSet({fOut[e] : e \in Out})
    BY <1>2, <2>1, FiniteImage
  <2>4. IsFiniteSet({fIn[e] : e \in In})
    BY <1>2, <2>2, FiniteImage
  <2>5. QED
    BY <2>3, <2>4
<1>4. Short!FriendEdges(p) = {fOut[e] : e \in Out} \cup {fIn[e] : e \in In}
  BY DEF Short!FriendEdges
<1>5. IsFiniteSet(Short!FriendEdges(p))
  <2> HIDE DEF fOut, fIn, Out, In
  <2>1. QED
    BY <1>3, <1>4, FS_Union
<1>6. \A e \in world.knows : e[1] \in Person /\ e[2] \in Person /\ e[3] \in Nat
  BY <1>1
<1>7. Short!FriendEdges(p) \subseteq Short!FriendRow
  BY <1>6 DEF Short!FriendEdges, Short!FriendRow
<1>8. QED
  BY <1>5, <1>7

LEMMA ReplyRowsFinite ==
  ASSUME world \in ShortWorlds
  PROVE  /\ \A c \in Authored(Answering) : RowOf(c) \in Short!ReplyRow
         /\ IsFiniteSet(Authored(Answering)) /\ IsFiniteSet(ReplyRows)
<1> DEFINE A == Authored(Answering)
           f == [c \in A |-> RowOf(c)]
<1>1. /\ world.creator \in [Post \cup Comment -> Person \cup {none}]
      /\ world.date \in [Comment -> Nat]
  BY WorldsAssumption DEF Short!World, Short!Message
<1>2. A \subseteq Comment
  BY DEF Authored, Answering
<1>3. \A c \in A : RowOf(c) \in Short!ReplyRow
  BY <1>1, <1>2 DEF RowOf, Short!ReplyRow, Authored
<1>4. IsFiniteSet(A)
  BY <1>2, FiniteAssumption, FS_Subset
<1>5. DOMAIN f = A /\ f = [c \in A |-> f[c]] /\ ReplyRows = {f[c] : c \in A}
  BY DEF ReplyRows
<1> HIDE DEF f
<1>6. IsFiniteSet(ReplyRows)
  BY <1>4, <1>5, FiniteImage
<1>7. QED
  BY <1>3, <1>4, <1>6

LEMMA ShortNext ==
  ASSUME Short!TypeOK, InvShort, Short!Next
  PROVE  Short!TypeOK' /\ InvShort'
<1>1. /\ world \in ShortWorlds /\ world \in Short!World
      /\ query \in {"is1", "is3", "is4", "is5", "is7"}
      /\ todo \subseteq Short!FriendRow \cup Comment
      /\ collected \subseteq Short!FriendRow \cup Short!ReplyRow
      /\ none \notin Person /\ none \notin Post \cup Comment
  BY WorldsAssumption, MessageAssumption DEF Short!TypeOK
<1>2. /\ world.locatedIn \in [Person -> Nat \cup {none}]
      /\ world.creator \in [Post \cup Comment -> Person \cup {none}]
      /\ Person \subseteq Nat
  BY <1>1, PersonAssumption DEF Short!World, Short!Message
<1>3. world' = world /\ query' = query /\ asked' = asked
  BY DEF Short!Next, Short!Reject, Short!ReturnPerson, Short!ReturnContent,
         Short!ReturnAuthor, Short!OpenFriends, Short!OpenReplies, Short!CollectFriend,
         Short!CollectReply, Short!SortFriends, Short!SortReplies
<1>4. /\ \A p : Short!FriendEdges(p)' = Short!FriendEdges(p)
      /\ \A c : RowOf(c)' = RowOf(c)
      /\ \A S : Authored(S)' = Authored(S)
      /\ \A s : Flagged(s)' = Flagged(s)
      /\ Answering' = Answering /\ ReplyRows' = ReplyRows
  BY <1>3 DEF Short!FriendEdges, RowOf, Authored, Flagged, Short!MarkKnows, Answering, ReplyRows
<1>5. asked \in (IF query \in {"is1", "is3"} THEN Person ELSE Post \cup Comment) \cup {none}
  BY DEF InvShort
<1>6. CASE Short!Reject
  <2>1. /\ asked = none /\ pc' = "done" /\ answer' = << >>
        /\ todo' = todo /\ collected' = collected
    BY <1>6 DEF Short!Reject, Short!Return
  <2>2. \A S : << >> \in Seq(S)
    OBVIOUS
  <2>3. Short!TypeOK'
    BY <1>3, <2>1, <2>2 DEF Short!TypeOK
  <2>4. QED
    BY <1>3, <1>5, <2>1, <2>3 DEF InvShort
<1>7. CASE Short!ReturnPerson
  <2>1. /\ query = "is1" /\ asked # none /\ pc' = "done"
        /\ answer' = IF world.locatedIn[asked] = none THEN <<0>> ELSE <<world.locatedIn[asked]>>
        /\ todo' = todo /\ collected' = collected
    BY <1>7 DEF Short!ReturnPerson, Short!Return, Short!Found
  <2>2. answer' \in Seq(Nat)
    BY <1>2, <1>5, <2>1
  <2>3. Short!TypeOK'
    BY <1>3, <2>1, <2>2 DEF Short!TypeOK
  <2>4. QED
    BY <1>3, <1>5, <2>1, <2>3 DEF InvShort
<1>8. CASE Short!ReturnContent
  <2>1. /\ query = "is4" /\ asked # none /\ pc' = "done"
        /\ answer' = IF asked \in world.noText THEN <<"imageFile">> ELSE <<"content">>
        /\ todo' = todo /\ collected' = collected
    BY <1>8 DEF Short!ReturnContent, Short!Return, Short!Found
  <2>2. answer' \in Seq({"content", "imageFile"})
    <3>1. answer' = <<"imageFile">> \/ answer' = <<"content">>
      BY <2>1
    <3>2. /\ <<"imageFile">> \in Seq({"content", "imageFile"})
          /\ <<"content">> \in Seq({"content", "imageFile"})
      OBVIOUS
    <3>3. QED
      BY <3>1, <3>2
  <2>3. Short!TypeOK'
    BY <1>3, <2>1, <2>2 DEF Short!TypeOK
  <2>4. QED
    BY <1>3, <1>5, <2>1, <2>3 DEF InvShort
<1>9. CASE Short!ReturnAuthor
  <2>1. /\ query = "is5" /\ asked # none /\ pc' = "done"
        /\ answer' = IF world.creator[asked] = none THEN << >> ELSE <<world.creator[asked]>>
        /\ todo' = todo /\ collected' = collected
    BY <1>9 DEF Short!ReturnAuthor, Short!Return, Short!Found
  <2>2. answer' \in Seq(Nat)
    <3>1. world.creator[asked] \in Person \cup {none}
      BY <1>2, <1>5, <2>1
    <3>2. << >> \in Seq(Nat) /\ \A n \in Nat : <<n>> \in Seq(Nat)
      OBVIOUS
    <3>3. QED
      BY <1>2, <2>1, <3>1, <3>2
  <2>3. Short!TypeOK'
    BY <1>3, <2>1, <2>2 DEF Short!TypeOK
  <2>4. QED
    BY <1>3, <1>5, <2>1, <2>3 DEF InvShort
<1>10. CASE Short!OpenFriends
  <2>1. /\ pc = "find" /\ query = "is3" /\ asked # none /\ pc' = "collect"
        /\ todo' = Short!FriendEdges(asked) /\ collected' = collected /\ answer' = answer
    BY <1>10 DEF Short!OpenFriends, Short!Found
  <2>2. Short!FriendEdges(asked) \subseteq Short!FriendRow
    BY <1>1, FriendEdgesFinite
  <2>3. Short!TypeOK'
    BY <1>3, <2>1, <2>2 DEF Short!TypeOK
  <2>4. collected = {}
    BY <2>1 DEF InvShort
  <2>5. /\ todo' \subseteq Short!FriendEdges(asked)'
        /\ collected' = Short!FriendEdges(asked)' \ todo'
    BY <1>3, <1>4, <2>1, <2>4
  <2>6. QED
    BY <1>3, <1>5, <2>1, <2>3, <2>5 DEF InvShort
<1>11. CASE Short!OpenReplies
  <2>1. /\ pc = "find" /\ query = "is7" /\ asked # none /\ collected' = collected
        /\ IF world.creator[asked] = none
           THEN pc' = "done" /\ answer' = << >> /\ todo' = {}
           ELSE todo' = Answering /\ pc' = "collect" /\ answer' = answer
    BY <1>11 DEF Short!OpenReplies, Short!Found, Short!Return, Answering
  <2>2. Answering \subseteq Comment /\ << >> \in Seq(Short!ReplyRow \X BOOLEAN)
    BY DEF Answering
  <2>3. collected = {}
    BY <2>1 DEF InvShort
  <2>4. Short!TypeOK'
    BY <1>3, <2>1, <2>2 DEF Short!TypeOK
  <2>5. {RowOf(c) : c \in Authored(Answering \ Answering)} = {}
    BY DEF Authored
  <2>6. pc' = "collect" =>
          /\ world.creator[asked] # none
          /\ todo' \subseteq Answering'
          /\ collected' = {RowOf(c)' : c \in Authored(Answering \ todo)'}
    BY <1>3, <1>4, <2>1, <2>3, <2>5
  <2>7. QED
    BY <1>3, <1>5, <2>1, <2>4, <2>6 DEF InvShort
<1>12. ASSUME NEW e \in todo, Short!CollectFriend(e)
       PROVE  Short!TypeOK' /\ InvShort'
  <2>1. /\ pc = "collect" /\ query = "is3" /\ todo' = todo \ {e}
        /\ collected' = collected \cup {e} /\ answer' = answer /\ pc' = pc
    BY <1>12 DEF Short!CollectFriend
  <2>2. /\ todo \subseteq Short!FriendEdges(asked) /\ asked # none
        /\ collected = Short!FriendEdges(asked) \ todo
    BY <2>1 DEF InvShort
  <2>3. e \in Short!FriendRow
    BY <1>1, <2>2, FriendEdgesFinite
  <2>4. Short!TypeOK'
    BY <1>3, <2>1, <2>3 DEF Short!TypeOK
  <2>5. /\ todo' \subseteq Short!FriendEdges(asked)'
        /\ collected' = Short!FriendEdges(asked)' \ todo'
    BY <1>3, <1>4, <2>1, <2>2
  <2>6. QED
    BY <1>3, <1>5, <2>1, <2>2, <2>4, <2>5 DEF InvShort
<1>13. ASSUME NEW e \in todo, Short!CollectReply(e)
       PROVE  Short!TypeOK' /\ InvShort'
  <2>1. /\ pc = "collect" /\ query = "is7" /\ todo' = todo \ {e} /\ answer' = answer /\ pc' = pc
        /\ collected' = IF world.creator[e] = none THEN collected
                        ELSE collected \cup {RowOf(e)}
    BY <1>13 DEF Short!CollectReply, RowOf
  <2>2. /\ todo \subseteq Answering /\ asked # none /\ world.creator[asked] # none
        /\ collected = {RowOf(c) : c \in Authored(Answering \ todo)}
    BY <2>1 DEF InvShort
  <2>3. Authored(Answering \ todo') = IF world.creator[e] = none THEN Authored(Answering \ todo)
                                      ELSE Authored(Answering \ todo) \cup {e}
    BY <2>1, <2>2 DEF Authored
  <2>4. collected' = {RowOf(c) : c \in Authored(Answering \ todo')}
    BY <2>1, <2>2, <2>3
  <2>5. world.creator[e] # none => RowOf(e) \in Short!ReplyRow
    BY <1>1, <2>2, ReplyRowsFinite DEF Authored
  <2>6. Short!TypeOK'
    BY <1>3, <2>1, <2>5 DEF Short!TypeOK
  <2>7. collected' = {RowOf(c)' : c \in Authored(Answering \ todo)'}
    BY <1>3, <1>4, <2>4 DEF Authored
  <2>8. QED
    BY <1>3, <1>4, <1>5, <2>1, <2>2, <2>6, <2>7 DEF InvShort
<1>14. CASE Short!SortFriends
  <2>1. /\ pc = "collect" /\ query = "is3" /\ todo = {} /\ pc' = "done"
        /\ answer' \in Short!Sorted(collected) /\ todo' = todo /\ collected' = collected
    BY <1>14 DEF Short!SortFriends, Short!Return
  <2>2. collected = Short!FriendEdges(asked)
    BY <2>1 DEF InvShort
  <2>3. answer' \in Short!SetToSeqs(collected)
    BY <2>1 DEF Short!Sorted
  <2>4. collected \subseteq Short!FriendRow /\ IsFiniteSet(collected)
    BY <1>1, <2>2, FriendEdgesFinite
  <2>5. answer' \in Seq(collected)
    BY <2>3, <2>4, Arrangement
  <2>6. answer' \in Seq(Short!FriendRow)
    BY <2>4, <2>5
  <2>7. Short!TypeOK'
    BY <1>3, <2>1, <2>6 DEF Short!TypeOK
  <2>8. answer' \in Short!Sorted(Short!FriendEdges(asked)')
    BY <1>3, <1>4, <2>1, <2>2
  <2>9. QED
    BY <1>3, <1>5, <2>1, <2>7, <2>8 DEF InvShort
<1>15. CASE Short!SortReplies
  <2>1. /\ pc = "collect" /\ query = "is7" /\ todo = {} /\ pc' = "done"
        /\ todo' = todo /\ collected' = collected
    BY <1>15 DEF Short!SortReplies, Short!Return
  <2>2. PICK s \in Short!Sorted(collected) : answer' = Flagged(s)
    BY <1>15 DEF Short!SortReplies, Short!Return, Flagged
  <2>3. collected = ReplyRows /\ world.creator[asked] # none /\ asked # none
    BY <2>1 DEF InvShort, ReplyRows
  <2>4. collected \subseteq Short!ReplyRow /\ IsFiniteSet(collected)
    BY <1>1, <2>3, ReplyRowsFinite DEF ReplyRows
  <2>5. s \in Seq(collected)
    BY <2>4, Arrangement DEF Short!Sorted
  <2>6. Flagged(s) \in Seq(Short!ReplyRow \X BOOLEAN)
    <3>1. DOMAIN s = 1..Len(s) /\ Len(s) \in Nat /\ \A k \in DOMAIN s : s[k] \in Short!ReplyRow
      BY <2>4, <2>5
    <3>2. \A B, y : (y \in B) \in BOOLEAN
      OBVIOUS
    <3>3. \A k \in DOMAIN s : Flagged(s)[k] \in Short!ReplyRow \X BOOLEAN
      BY <3>1, <3>2 DEF Flagged
    <3>4. Flagged(s) \in [1..Len(s) -> Short!ReplyRow \X BOOLEAN]
      BY <3>1, <3>3 DEF Flagged
    <3>5. QED
      BY <3>1, <3>4
  <2>7. Short!TypeOK'
    BY <1>3, <2>1, <2>2, <2>6 DEF Short!TypeOK
  <2>8. \E t \in Short!Sorted(ReplyRows') : answer' = Flagged(t)'
    BY <1>4, <2>2, <2>3
  <2>9. QED
    BY <1>3, <1>5, <2>1, <2>3, <2>7, <2>8 DEF InvShort
<1>16. QED
  BY <1>6, <1>7, <1>8, <1>9, <1>10, <1>11, <1>12, <1>13, <1>14, <1>15 DEF Short!Next

(* A sorted arrangement has the newest first.                               *)
LEMMA SortedInOrder ==
  ASSUME NEW S, IsFiniteSet(S), NEW s \in Short!Sorted(S),
         \A r \in S : r[1] \in Nat /\ r[2] \in Nat
  PROVE  Short!InOrder(s)
<1>1. /\ s \in Short!SetToSeqs(S)
      /\ \A k, n \in DOMAIN s : k < n => ~ Short!Precedes(s[n], s[k])
  BY DEF Short!Sorted
<1>2. DOMAIN s = 1..Len(s) /\ Len(s) \in Nat /\ \A k \in DOMAIN s : s[k] \in S
  BY <1>1, Arrangement
<1>3. SUFFICES ASSUME NEW k \in DOMAIN s, NEW n \in DOMAIN s, k < n
               PROVE  \/ s[k][1] > s[n][1]
                      \/ s[k][1] = s[n][1] /\ s[k][2] <= s[n][2]
  BY DEF Short!InOrder
<1>4. ~ (s[n][1] > s[k][1] \/ (s[n][1] = s[k][1] /\ s[n][2] < s[k][2]))
  BY <1>1, <1>3 DEF Short!Precedes
<1>5. s[k][1] \in Nat /\ s[k][2] \in Nat /\ s[n][1] \in Nat /\ s[n][2] \in Nat
  BY <1>2, <1>3
<1>6. QED
  BY <1>4, <1>5

(* Every friendship with another person is one row, and the row tells which.*)
LEMMA FriendsListed ==
  ASSUME world \in ShortWorlds, asked \in Person,
         answer \in Short!Sorted(Short!FriendEdges(asked))
  PROVE  Short!FriendsInOrder
<1>1. /\ world.knows \subseteq Person \X Person \X Nat
      /\ Person \subseteq Nat
  BY WorldsAssumption, PersonAssumption DEF Short!World
<1>2. /\ Short!FriendEdges(asked) \subseteq Nat \X Person \X {"out", "in"}
      /\ IsFiniteSet(Short!FriendEdges(asked))
  BY FriendEdgesFinite DEF Short!FriendRow
<1>3. \A r \in Short!FriendEdges(asked) :
        /\ r[1] \in Nat /\ r[2] \in Nat
        /\ r[3] = "out" \/ r[3] = "in"
        /\ r = <<r[1], r[2], r[3]>>
  BY <1>1, <1>2
<1>4. Short!InOrder(answer)
  BY <1>2, <1>3, SortedInOrder
<1>5. answer \in Short!SetToSeqs(Short!FriendEdges(asked))
  BY DEF Short!Sorted
<1>6. /\ DOMAIN answer = 1..Len(answer) /\ Len(answer) \in Nat
      /\ Elements(answer) = Short!FriendEdges(asked)
      /\ \A k, n \in DOMAIN answer : answer[k] = answer[n] => k = n
  BY <1>2, <1>5, Arrangement
<1>7. \A r : r \in Short!FriendEdges(asked) <=> \E k \in DOMAIN answer : answer[k] = r
  BY <1>6 DEF Elements
<1>8. ASSUME NEW v \in Person \ {asked}
      PROVE  Short!Cardinality({k \in DOMAIN answer : answer[k][2] = v})
               = Short!Cardinality(Short!Knows(asked, v))
  <2> DEFINE S == {k \in DOMAIN answer : answer[k][2] = v}
             T == Short!Knows(asked, v)
             edge(r) == IF r[3] = "out" THEN <<asked, v, r[1]>> ELSE <<v, asked, r[1]>>
             f == [k \in S |-> edge(answer[k])]
  <2>1. \A e \in world.knows : e = <<e[1], e[2], e[3]>>
    BY <1>1
  <2>2. T = {e \in world.knows : \/ e[1] = asked /\ e[2] = v
                                 \/ e[1] = v /\ e[2] = asked}
    BY DEF Short!Knows
  <2>3. IsFiniteSet(S)
    <3>1. IsFiniteSet(1..Len(answer))
      BY <1>6, FS_Interval
    <3>2. S \subseteq 1..Len(answer)
      BY <1>6
    <3>3. QED
      BY <3>1, <3>2, FS_Subset
  <2>4. ASSUME NEW k \in S PROVE f[k] \in T
    <3>1. answer[k] \in Short!FriendEdges(asked) /\ answer[k][2] = v
      BY <1>7, <2>4
    <3>2. CASE answer[k][3] = "out"
      <4>1. PICK e \in world.knows : e[1] = asked /\ answer[k] = <<e[3], e[2], "out">>
        BY <3>1, <3>2 DEF Short!FriendEdges
      <4>2. edge(answer[k]) = e /\ e[2] = v
        BY <2>1, <3>1, <3>2, <4>1
      <4>3. QED
        BY <2>2, <4>1, <4>2
    <3>3. CASE answer[k][3] = "in"
      <4>1. PICK e \in world.knows : e[2] = asked /\ answer[k] = <<e[3], e[1], "in">>
        BY <3>1, <3>3 DEF Short!FriendEdges
      <4>2. edge(answer[k]) = e /\ e[1] = v
        BY <2>1, <3>1, <3>3, <4>1
      <4>3. QED
        BY <2>2, <4>1, <4>2
    <3>4. QED
      BY <1>3, <3>1, <3>2, <3>3
  <2>5. ASSUME NEW k \in S, NEW n \in S, f[k] = f[n] PROVE k = n
    <3>1. /\ answer[k] \in Short!FriendEdges(asked) /\ answer[k][2] = v
          /\ answer[n] \in Short!FriendEdges(asked) /\ answer[n][2] = v
      BY <1>7
    <3>2. edge(answer[k]) = edge(answer[n]) /\ asked # v
      BY <2>5
    <3>3. answer[k][1] = answer[n][1] /\ answer[k][3] = answer[n][3]
      BY <1>3, <3>1, <3>2
    <3>4. answer[k] = answer[n]
      BY <1>3, <3>1, <3>3
    <3>5. QED
      BY <1>6, <3>4
  <2>6. ASSUME NEW e \in T PROVE \E k \in S : f[k] = e
    <3>1. CASE e[1] = asked /\ e[2] = v
      <4>1. <<e[3], e[2], "out">> \in Short!FriendEdges(asked)
        BY <2>2, <3>1 DEF Short!FriendEdges
      <4>2. PICK k \in DOMAIN answer : answer[k] = <<e[3], e[2], "out">>
        BY <1>7, <4>1
      <4>3. k \in S /\ edge(answer[k]) = <<e[1], e[2], e[3]>>
        BY <3>1, <4>2
      <4>4. QED
        BY <2>1, <2>2, <4>3
    <3>2. CASE e[1] = v /\ e[2] = asked
      <4>1. <<e[3], e[1], "in">> \in Short!FriendEdges(asked)
        BY <2>2, <3>2 DEF Short!FriendEdges
      <4>2. PICK k \in DOMAIN answer : answer[k] = <<e[3], e[1], "in">>
        BY <1>7, <4>1
      <4>3. k \in S /\ edge(answer[k]) = <<e[1], e[2], e[3]>>
        BY <3>2, <4>2
      <4>4. QED
        BY <2>1, <2>2, <4>3
    <3>3. QED
      BY <2>2, <3>1, <3>2
  <2>7. f \in [S -> T]
    BY <2>4
  <2> HIDE DEF S, T, f
  <2>8. Cardinality(S) = Cardinality(T)
    BY <2>3, <2>5, <2>6, <2>7, SameNumber
  <2>9. Short!Cardinality(S) = Short!Cardinality(T)
    BY <2>8, OneCardinality
  <2>10. QED
    BY <2>9 DEF S, T
<1>9. QED
  BY <1>4, <1>8 DEF Short!FriendsInOrder

(* Every reply with an author, of a message that has one, is one row.       *)
LEMMA RepliesListed ==
  ASSUME world \in ShortWorlds, asked \in Post \cup Comment,
         IF world.creator[asked] = none THEN answer = << >>
         ELSE \E s \in Short!Sorted(ReplyRows) : answer = Flagged(s)
  PROVE  Short!RepliesInOrder
<1> DEFINE author == world.creator[asked]
           list == [k \in DOMAIN answer |-> answer[k][1]]
           wanted == {c \in Comment : /\ world.replyOf[c] = asked
                                      /\ none \notin {author, world.creator[c]}}
<1>1. SUFFICES /\ Short!InOrder(list)
               /\ {list[k][3] : k \in DOMAIN list} = wanted
               /\ Len(list) = Short!Cardinality(wanted)
               /\ \A k \in DOMAIN list :
                    /\ list[k][2] = world.creator[list[k][3]]
                    /\ answer[k][2] <=> Short!Knows(author, list[k][2]) # {}
  BY DEF Short!RepliesInOrder
<1>2. /\ \A r \in Short!ReplyRow : r[1] \in Nat /\ r[2] \in Person
      /\ Person \subseteq Nat
      /\ world.knows \subseteq Person \X Person \X Nat
  BY WorldsAssumption, PersonAssumption DEF Short!ReplyRow, Short!World
<1>3. CASE author = none
  <2>1. answer = << >> /\ wanted = {}
    BY <1>3
  <2>2. list = << >> /\ DOMAIN list = {} /\ Len(list) = 0
    BY <2>1
  <2>3. Short!Cardinality(wanted) = 0
    BY <2>1, OneCardinality, FS_EmptySet
  <2>4. Short!InOrder(list)
    BY <2>2 DEF Short!InOrder
  <2>5. QED
    BY <2>1, <2>2, <2>3, <2>4
<1>4. CASE author # none
  <2>1. PICK s \in Short!Sorted(ReplyRows) : answer = Flagged(s)
    BY <1>4
  <2>2. /\ \A r \in ReplyRows : r \in Short!ReplyRow
        /\ IsFiniteSet(ReplyRows) /\ IsFiniteSet(Authored(Answering))
    BY ReplyRowsFinite DEF ReplyRows
  <2>3. /\ s \in Seq(ReplyRows) /\ Len(s) = Cardinality(ReplyRows)
        /\ DOMAIN s = 1..Len(s) /\ Elements(s) = ReplyRows
    BY <2>2, Arrangement DEF Short!Sorted
  <2>4. DOMAIN answer = DOMAIN s /\ \A k \in DOMAIN s :
          answer[k] = <<s[k], s[k][2] \in Short!MarkKnows(author)>>
    BY <2>1 DEF Flagged
  <2>5. list = s
    BY <2>3, <2>4
  <2>6. wanted = Authored(Answering)
    BY <1>4 DEF Authored, Answering
  <2>7. Short!InOrder(s)
    BY <1>2, <2>2, SortedInOrder
  <2>8. \A r : r \in ReplyRows <=> \E k \in DOMAIN s : s[k] = r
    BY <2>3 DEF Elements
  <2>9. {s[k][3] : k \in DOMAIN s} = wanted
    <3>1. \A c : RowOf(c)[3] = c
      BY DEF RowOf
    <3>2. ASSUME NEW k \in DOMAIN s PROVE s[k][3] \in wanted
      <4>1. PICK c \in Authored(Answering) : s[k] = RowOf(c)
        BY <2>8 DEF ReplyRows
      <4>2. QED
        BY <2>6, <3>1, <4>1
    <3>3. ASSUME NEW c \in wanted PROVE \E k \in DOMAIN s : s[k][3] = c
      <4>1. RowOf(c) \in ReplyRows
        BY <2>6 DEF ReplyRows
      <4>2. PICK k \in DOMAIN s : s[k] = RowOf(c)
        BY <2>8, <4>1
      <4>3. QED
        BY <3>1, <4>2
    <3> HIDE DEF wanted
    <3>4. QED
      BY <3>2, <3>3
  <2>10. Len(s) = Short!Cardinality(wanted)
    <3> DEFINE A == Authored(Answering)
               f == [c \in A |-> RowOf(c)]
    <3>1. f \in [A -> ReplyRows]
      BY DEF ReplyRows
    <3>2. \A b, c \in A : f[b] = f[c] => b = c
      BY DEF RowOf
    <3>3. \A r \in ReplyRows : \E c \in A : f[c] = r
      BY DEF ReplyRows
    <3> HIDE DEF f
    <3>4. Cardinality(ReplyRows) = Cardinality(A)
      BY <2>2, <3>1, <3>2, <3>3, SameNumber
    <3>5. QED
      BY <2>3, <2>6, <3>4, OneCardinality
  <2>11. ASSUME NEW k \in DOMAIN s
         PROVE  /\ s[k][2] = world.creator[s[k][3]]
                /\ answer[k][2] <=> Short!Knows(author, s[k][2]) # {}
    <3>1. PICK c \in Authored(Answering) : s[k] = RowOf(c)
      BY <2>8 DEF ReplyRows
    <3>2. s[k][2] = world.creator[s[k][3]]
      BY <3>1 DEF RowOf
    <3>3. answer[k][2] <=> s[k][2] \in Short!MarkKnows(author)
      <4>1. answer[k] = <<s[k], s[k][2] \in Short!MarkKnows(author)>>
        BY <2>4
      <4> HIDE DEF author
      <4>2. CASE s[k][2] \in Short!MarkKnows(author)
        <5>1. answer[k] = <<s[k], TRUE>>
          BY <4>1, <4>2, Zenon
        <5>2. QED
          BY <4>2, <5>1
      <4>3. CASE s[k][2] \notin Short!MarkKnows(author)
        <5>1. (s[k][2] \in Short!MarkKnows(author)) = FALSE
          BY <4>3
        <5>2. answer[k] = <<s[k], FALSE>>
          BY <4>1, <5>1, Zenon
        <5>3. QED
          BY <4>3, <5>2
      <4>4. QED
        BY <4>2, <4>3
    <3>4. ASSUME NEW v
          PROVE  v \in Short!MarkKnows(author) <=> Short!Knows(author, v) # {}
      <4>1. v \in Short!MarkKnows(author) <=>
              \E e \in world.knows : \/ e[1] = author /\ e[2] = v
                                     \/ e[1] = v /\ e[2] = author
        <5> HIDE DEF author
        <5>1. QED
          BY DEF Short!MarkKnows
      <4>2. Short!Knows(author, v) = {e \in world.knows : \/ e[1] = author /\ e[2] = v
                                                          \/ e[1] = v /\ e[2] = author}
        <5> HIDE DEF author
        <5>1. QED
          BY DEF Short!Knows
      <4>3. QED
        BY <4>1, <4>2
    <3>5. QED
      BY <3>2, <3>3, <3>4
  <2> HIDE DEF list, wanted
  <2>12. QED
    BY <2>5, <2>7, <2>9, <2>10, <2>11
<1>5. QED
  BY <1>3, <1>4

LEMMA ShortResult ==
  ASSUME Short!TypeOK, InvShort
  PROVE  Short!ListsInOrder
<1>1. SUFFICES ASSUME pc = "done", asked # none
               PROVE  /\ query = "is3" => Short!FriendsInOrder
                      /\ query = "is7" => Short!RepliesInOrder
  BY DEF Short!ListsInOrder
<1>2. world \in ShortWorlds
  BY DEF Short!TypeOK
<1>3. query = "is3" => Short!FriendsInOrder
  BY <1>1, <1>2, FriendsListed DEF InvShort
<1>4. query = "is7" => Short!RepliesInOrder
  BY <1>1, <1>2, RepliesListed DEF InvShort
<1>5. QED
  BY <1>3, <1>4

------------------------------------------------------------------------------
(****************************************************************************)
(* IC7.                                                                     *)
(****************************************************************************)

(* Likes are in a strict order for std::sort, and those of different        *)
(* persons for the heap.                                                    *)
LEMMA SortOrder ==
  ASSUME NEW r \in Like, NEW t \in Like, NEW u \in Like
  PROVE  /\ ~ IC7!ByPersonNewestFirst(r, r)
         /\ IC7!ByPersonNewestFirst(r, t) /\ IC7!ByPersonNewestFirst(t, u)
              => IC7!ByPersonNewestFirst(r, u)
         /\ r # t => IC7!ByPersonNewestFirst(r, t) \/ IC7!ByPersonNewestFirst(t, r)
         /\ IC7!ByPersonNewestFirst(r, t) => r[1] <= t[1]
<1>1. /\ r = <<r[1], r[2], r[3]>> /\ r[1] \in Nat /\ r[2] \in Nat /\ r[3] \in Nat
      /\ t = <<t[1], t[2], t[3]>> /\ t[1] \in Nat /\ t[2] \in Nat /\ t[3] \in Nat
      /\ u[1] \in Nat /\ u[2] \in Nat /\ u[3] \in Nat
  BY LikeAssumption
<1>2. r # t => r[1] # t[1] \/ r[2] # t[2] \/ r[3] # t[3]
  BY <1>1
<1>3. QED
  BY <1>1, <1>2 DEF IC7!ByPersonNewestFirst

LEMMA HeapOrder ==
  ASSUME NEW r \in Like, NEW t \in Like, NEW u \in Like
  PROVE  /\ ~ IC7!Precedes(r, r)
         /\ IC7!Precedes(r, t) /\ IC7!Precedes(t, u) => IC7!Precedes(r, u)
         /\ r[1] # t[1] => IC7!Precedes(r, t) \/ IC7!Precedes(t, r)
<1>1. /\ r[1] \in Nat /\ r[2] \in Nat /\ t[1] \in Nat /\ t[2] \in Nat
      /\ u[1] \in Nat /\ u[2] \in Nat
  BY LikeAssumption
<1>2. QED
  BY <1>1 DEF IC7!Precedes

(* A like stands at the place given by the number of those before it, and   *)
(* no two have the same number: the sorted list has every like once, in     *)
(* order.                                                                   *)
LEMMA SortedList ==
  ASSUME NEW S \in SUBSET Like
  PROVE  /\ IC7!Sorted(S) \in Seq(S) /\ Elements(IC7!Sorted(S)) = S
         /\ \A k, n \in DOMAIN IC7!Sorted(S) :
              k < n => IC7!ByPersonNewestFirst(IC7!Sorted(S)[k], IC7!Sorted(S)[n])
<1> DEFINE Before(l) == {m \in S : IC7!ByPersonNewestFirst(m, l)}
           rank == [l \in S |-> Cardinality(Before(l))]
           s == IC7!Sorted(S)
<1>1. IsFiniteSet(S)
  BY FiniteAssumption, FS_Subset
<1>2. PICK N \in Nat : N = Cardinality(S)
  BY <1>1, FS_CardinalityType
<1>3. ASSUME NEW l \in S
      PROVE  /\ Before(l) \in SUBSET S /\ IsFiniteSet(Before(l))
             /\ Cardinality(Before(l)) \in 0..(N - 1)
  <2>1. Before(l) \subseteq S \ {l}
    BY SortOrder
  <2>2. IsFiniteSet(S \ {l}) /\ Cardinality(S \ {l}) = N - 1
    BY <1>1, <1>2, FS_RemoveElement
  <2>3. IsFiniteSet(Before(l)) /\ Cardinality(Before(l)) <= Cardinality(S \ {l})
    BY <2>1, <2>2, FS_Subset
  <2>4. Cardinality(Before(l)) \in Nat
    BY <2>3, FS_CardinalityType
  <2>5. QED
    BY <1>2, <2>1, <2>2, <2>3, <2>4
<1>4. ASSUME NEW l \in S, NEW k \in S, IC7!ByPersonNewestFirst(l, k)
      PROVE  Cardinality(Before(l)) < Cardinality(Before(k))
  <2>1. l \notin Before(l) /\ Before(l) \cup {l} \subseteq Before(k)
    BY <1>4, SortOrder
  <2>2. Cardinality(Before(l) \cup {l}) = Cardinality(Before(l)) + 1
    BY <1>3, <2>1, FS_AddElement
  <2>3. Cardinality(Before(l) \cup {l}) <= Cardinality(Before(k))
    BY <1>3, <2>1, FS_Subset
  <2>4. Cardinality(Before(l)) \in Nat /\ Cardinality(Before(k)) \in Nat
    BY <1>3, FS_CardinalityType
  <2> HIDE DEF Before
  <2>5. QED
    BY <2>2, <2>3, <2>4
<1>5. ASSUME NEW l \in S, NEW k \in S, Cardinality(Before(l)) = Cardinality(Before(k))
      PROVE  l = k
  <2>1. Cardinality(Before(l)) \in Nat
    BY <1>3, FS_CardinalityType
  <2>2. ~ IC7!ByPersonNewestFirst(l, k) /\ ~ IC7!ByPersonNewestFirst(k, l)
    <3> HIDE DEF Before
    <3>1. QED
      BY <1>4, <1>5, <2>1
  <2>3. QED
    BY <2>2, SortOrder
<1>6. \A n \in 0..(N - 1) : \E l \in S : Cardinality(Before(l)) = n
  <2>1. rank \in [S -> 0..(N - 1)]
    BY <1>3
  <2>2. rank \in Injection(S, 0..(N - 1))
    BY <1>5, <2>1 DEF Injection, IsInjective
  <2>3. IsFiniteSet(0..(N - 1)) /\ Cardinality(0..(N - 1)) = N
    <3>1. 0 \in Int /\ N - 1 \in Int
      BY <1>2
    <3>2. /\ IsFiniteSet(0..(N - 1))
          /\ Cardinality(0..(N - 1)) = IF 0 > N - 1 THEN 0 ELSE (N - 1) - 0 + 1
      BY <3>1, FS_Interval
    <3>3. QED
      BY <1>2, <3>2
  <2> HIDE DEF rank
  <2>4. rank \in Surjection(S, 0..(N - 1))
    BY <1>2, <2>2, <2>3, FS_Injection
  <2>5. \A n \in 0..(N - 1) : \E l \in S : rank[l] = n
    BY <2>4 DEF Surjection
  <2> USE DEF rank
  <2>6. QED
    BY <2>5
<1>7. \A l : Before(l) = {m \in S : IC7!ByPersonNewestFirst(m, l)}
  OBVIOUS
<1>8. s = [k \in 1..N |-> CHOOSE l \in S : IC7!Cardinality(Before(l)) = k - 1]
  BY <1>2, OneCardinality DEF IC7!Sorted
<1>9. ASSUME NEW k \in 1..N
      PROVE  s[k] \in S /\ Cardinality(Before(s[k])) = k - 1
  <2>1. k - 1 \in 0..(N - 1)
    BY <1>2
  <2>2. \E l \in S : IC7!Cardinality(Before(l)) = k - 1
    BY <1>6, <2>1, OneCardinality
  <2>3. s[k] = CHOOSE l \in S : IC7!Cardinality(Before(l)) = k - 1
    BY <1>8
  <2> HIDE DEF Before, s
  <2>4. s[k] \in S /\ IC7!Cardinality(Before(s[k])) = k - 1
    BY <2>2, <2>3
  <2>5. QED
    BY <2>4, OneCardinality
<1>10. DOMAIN s = 1..N /\ s \in Seq(S) /\ Len(s) = N
  <2>1. s \in [1..N -> S]
    BY <1>8, <1>9
  <2> HIDE DEF s
  <2>2. QED
    BY <2>1, <1>2
<1>11. Elements(s) = S
  <2>1. ASSUME NEW l \in S PROVE \E k \in DOMAIN s : s[k] = l
    <3>1. PICK k \in 1..N : k - 1 = Cardinality(Before(l))
      <4>1. PICK n \in 0..(N - 1) : n = Cardinality(Before(l))
        BY <1>3
      <4>2. n + 1 \in 1..N /\ (n + 1) - 1 = n
        BY <1>2
      <4>3. \E k \in 1..N : k - 1 = n
        BY <4>2
      <4>4. QED
        BY <4>1, <4>3
    <3>2. s[k] \in S /\ Cardinality(Before(s[k])) = Cardinality(Before(l))
      BY <1>9, <3>1
    <3>3. s[k] = l
      BY <1>5, <3>2
    <3>4. QED
      BY <1>10, <3>3
  <2>2. \A k \in DOMAIN s : s[k] \in S
    BY <1>9, <1>10
  <2> HIDE DEF s
  <2>3. QED
    BY <2>1, <2>2 DEF Elements
<1>12. ASSUME NEW k \in DOMAIN s, NEW n \in DOMAIN s, k < n
       PROVE  IC7!ByPersonNewestFirst(s[k], s[n])
  <2>1. /\ s[k] \in S /\ Cardinality(Before(s[k])) = k - 1
        /\ s[n] \in S /\ Cardinality(Before(s[n])) = n - 1
        /\ k \in Nat /\ n \in Nat
    BY <1>9, <1>10
  <2>2. s[k] # s[n] /\ ~ IC7!ByPersonNewestFirst(s[n], s[k])
    <3> HIDE DEF Before, s
    <3>1. QED
      BY <1>4, <1>12, <2>1
  <2>3. QED
    BY <2>1, <2>2, SortOrder
<1>13. QED
  BY <1>10, <1>11, <1>12

(* The newest kTopN of K, or all when there are fewer.                      *)
Newest(H, K) ==
  /\ H \subseteq K
  /\ Cardinality(H) <= kTopN
  /\ Cardinality(H) < kTopN => H = K
  /\ \A l \in H, k \in K \ H : IC7!Precedes(l, k)

OnePerPerson(L) == \A r, t \in L : r[1] = t[1] => r = t

LEMMA PushStep ==
  ASSUME NEW K \in SUBSET Like, NEW H, Newest(H, K), Cardinality(H) < kTopN,
         NEW l \in Like \ K
  PROVE  Newest(H \cup {l}, K \cup {l})
<1>1. H = K /\ IsFiniteSet(H)
  BY FiniteAssumption, FS_Subset DEF Newest
<1>2. Cardinality(H \cup {l}) = Cardinality(H) + 1 /\ Cardinality(H) \in Nat
  BY <1>1, FS_AddElement, FS_CardinalityType
<1>3. Cardinality(H \cup {l}) <= kTopN
  BY <1>2, LimitAssumption
<1>4. QED
  BY <1>1, <1>3 DEF Newest

LEMMA ReplaceStep ==
  ASSUME NEW K \in SUBSET Like, NEW H, Newest(H, K), Cardinality(H) = kTopN,
         NEW l \in Like \ K, OnePerPerson(K \cup {l}),
         NEW w \in H, \A r \in H \ {w} : IC7!Precedes(r, w)
  PROVE  Newest(IF IC7!Precedes(l, w) THEN (H \ {w}) \cup {l} ELSE H, K \cup {l})
<1>1. /\ H \subseteq K /\ IsFiniteSet(H) /\ w \in Like /\ l # w
      /\ \A g \in H, k \in K \ H : IC7!Precedes(g, k)
  BY FiniteAssumption, FS_Subset DEF Newest
<1>2. IC7!Precedes(l, w) \/ IC7!Precedes(w, l)
  <2>1. l[1] # w[1]
    BY <1>1 DEF OnePerPerson
  <2>2. QED
    BY <1>1, <2>1, HeapOrder
<1>3. CASE IC7!Precedes(l, w)
  <2> DEFINE G == (H \ {w}) \cup {l}
  <2>1. Cardinality(G) = kTopN
    <3>1. IsFiniteSet(H \ {w}) /\ Cardinality(H \ {w}) = Cardinality(H) - 1
      BY <1>1, FS_RemoveElement
    <3>2. Cardinality(G) = Cardinality(H \ {w}) + 1
      BY <1>1, <3>1, FS_AddElement
    <3>3. QED
      BY <3>1, <3>2, LimitAssumption
  <2>2. ASSUME NEW g \in G, NEW k \in (K \cup {l}) \ G
        PROVE  IC7!Precedes(g, k)
    <3>1. k = w \/ k \in K \ H
      BY <1>1, <2>2
    <3>2. g \in Like /\ k \in Like
      BY <1>1, <2>2
    <3>3. CASE g = l
      <4>1. k = w \/ IC7!Precedes(w, k)
        BY <1>1, <3>1
      <4>2. QED
        BY <1>1, <1>3, <3>2, <3>3, <4>1, HeapOrder
    <3>4. CASE g # l
      BY <1>1, <3>1, <3>4
    <3>5. QED
      BY <3>3, <3>4
  <2>3. G \subseteq K \cup {l}
    BY <1>1
  <2> HIDE DEF G
  <2>4. Newest(G, K \cup {l})
    BY <2>1, <2>2, <2>3, LimitAssumption DEF Newest
  <2>5. QED
    BY <1>3, <2>4 DEF G
<1>4. CASE ~ IC7!Precedes(l, w)
  <2>1. ASSUME NEW g \in H, NEW k \in (K \cup {l}) \ H
        PROVE  IC7!Precedes(g, k)
    <3>1. g \in Like /\ (g = w \/ IC7!Precedes(g, w))
      BY <1>1
    <3>2. k = l => IC7!Precedes(g, k)
      BY <1>1, <1>2, <1>4, <3>1, HeapOrder
    <3>3. QED
      BY <1>1, <3>2
  <2>2. Newest(H, K \cup {l})
    BY <1>1, <2>1, LimitAssumption DEF Newest
  <2>3. QED
    BY <1>4, <2>2
<1>5. QED
  BY <1>3, <1>4

LEMMA LatestOnePerPerson ==
  ASSUME likes \subseteq Like
  PROVE  IC7!Latest \subseteq Like /\ OnePerPerson(IC7!Latest)
BY SortOrder DEF IC7!Latest, OnePerPerson

(* A like is the latest of its person exactly when the like before it in    *)
(* the list is another person's.                                            *)
LEMMA NeighbourTest ==
  ASSUME likes \subseteq Like, messages = IC7!Sorted(likes), i \in DOMAIN messages
  PROVE  IC7!SamePersonAsBefore <=> messages[i] \notin IC7!Latest
<1>1. /\ messages \in Seq(likes) /\ Elements(messages) = likes
      /\ \A k, n \in DOMAIN messages :
           k < n => IC7!ByPersonNewestFirst(messages[k], messages[n])
  BY SortedList
<1>2. /\ DOMAIN messages = 1..Len(messages) /\ Len(messages) \in Nat
      /\ \A n \in DOMAIN messages : messages[n] \in likes /\ messages[n] \in Like
      /\ i \in 1..Len(messages) /\ i \in Nat
  BY <1>1
<1>3. ASSUME IC7!SamePersonAsBefore
      PROVE  messages[i] \notin IC7!Latest
  <2>1. i > 1 /\ messages[i][1] = messages[i - 1][1]
    BY <1>3 DEF IC7!SamePersonAsBefore
  <2>2. i - 1 \in DOMAIN messages /\ i - 1 < i
    BY <1>2, <2>1
  <2>3. IC7!ByPersonNewestFirst(messages[i - 1], messages[i]) /\ messages[i - 1] \in likes
    BY <1>1, <1>2, <2>2
  <2>4. QED
    BY <2>1, <2>3 DEF IC7!Latest
<1>4. ASSUME messages[i] \notin IC7!Latest
      PROVE  IC7!SamePersonAsBefore
  <2>1. PICK k \in likes : k[1] = messages[i][1] /\ IC7!ByPersonNewestFirst(k, messages[i])
    BY <1>2, <1>4 DEF IC7!Latest
  <2>2. PICK n \in DOMAIN messages : messages[n] = k
    BY <1>1 DEF Elements
  <2>3. n < i
    <3>1. n # i
      BY <1>2, <2>1, <2>2, SortOrder
    <3>2. ~ (i < n)
      <4>1. SUFFICES ASSUME i < n PROVE FALSE
        OBVIOUS
      <4>2. IC7!ByPersonNewestFirst(messages[i], k)
        BY <1>1, <2>2, <4>1
      <4>3. QED
        BY <1>2, <2>1, <2>2, <4>2, SortOrder
    <3>3. n \in Nat /\ i \in Nat
      BY <1>2, <2>2
    <3>4. QED
      BY <3>1, <3>2, <3>3
  <2>4. i > 1 /\ i - 1 \in DOMAIN messages /\ i - 1 < i /\ (n = i - 1 \/ n < i - 1)
    BY <1>2, <2>2, <2>3
  <2>5. k[1] <= messages[i - 1][1]
    <3>1. CASE n = i - 1
      BY <1>2, <2>2, <3>1, LikeAssumption
    <3>2. CASE n < i - 1
      BY <1>1, <1>2, <2>2, <2>4, <3>2, SortOrder
    <3>3. QED
      BY <2>4, <3>1, <3>2
  <2>6. messages[i - 1][1] <= messages[i][1]
    BY <1>1, <1>2, <2>4, SortOrder
  <2>7. messages[i][1] \in Nat /\ messages[i - 1][1] \in Nat
    BY <1>2, <2>4, LikeAssumption
  <2>8. messages[i][1] = messages[i - 1][1]
    BY <2>1, <2>5, <2>6, <2>7
  <2>9. QED
    BY <2>4, <2>8 DEF IC7!SamePersonAsBefore
<1>5. QED
  BY <1>3, <1>4

(* The latest likes among those scanned, and the likes output.              *)
Seen == {l \in IC7!Latest : \E n \in 1..(i - 1) : messages[n] = l}

Found == {rows[n][1] : n \in DOMAIN rows}

(* The rows are the likes output, once each, in order, all after those in   *)
(* the heap, each flagged.                                                  *)
RowsRight ==
  /\ rows \in Seq(Like \X BOOLEAN)
  /\ Len(rows) = Cardinality(Found)
  /\ heap \cap Found = {}
  /\ \A l \in heap, k \in Found : IC7!Precedes(l, k)
  /\ \A n, k \in DOMAIN rows : n < k => IC7!Precedes(rows[n][1], rows[k][1])
  /\ \A n \in DOMAIN rows : rows[n][2] <=> rows[n][1][1] \notin friends

(* While the list is scanned the heap holds the newest of the latest likes  *)
(* seen, then the heap and the rows together hold the newest of all.        *)
Inv7 ==
  /\ i \in 1..(Len(messages) + 1)
  /\ pc = "sort" => heap = {} /\ i = 1
  /\ pc # "sort" => messages = IC7!Sorted(likes)
  /\ pc = "scan" => Newest(heap, Seen)
  /\ pc \in {"output", "done"} => Newest(heap \cup Found, IC7!Latest)
  /\ pc \in {"sort", "scan"} => rows = << >>
  /\ pc = "done" => heap = {}
  /\ RowsRight

LEMMA IC7Init ==
  ASSUME IC7!Init
  PROVE  IC7!TypeOK /\ Inv7
<1>1. /\ likes \subseteq Like /\ friends \in Friends /\ messages = << >> /\ i = 1
      /\ heap = {} /\ rows = << >> /\ pc = "sort"
  BY DEF IC7!Init
<1>2. << >> \in Seq(Like) /\ << >> \in Seq(Like \X BOOLEAN)
      /\ DOMAIN << >> = {} /\ Len(<< >>) = 0
  OBVIOUS
<1>3. IC7!TypeOK
  BY <1>1, <1>2 DEF IC7!TypeOK
<1>4. Found = {} /\ Cardinality(Found) = 0
  BY <1>1, <1>2, FS_EmptySet DEF Found
<1>5. RowsRight
  BY <1>1, <1>2, <1>4 DEF RowsRight
<1>6. QED
  BY <1>1, <1>2, <1>3, <1>5 DEF Inv7

(* A row is put before the others.                                          *)
LEMMA Prepend ==
  ASSUME NEW S, NEW q \in Seq(S), NEW x \in S, NEW s, s = <<x>> \o q
  PROVE  /\ s \in Seq(S) /\ Len(s) = Len(q) + 1 /\ DOMAIN s = 1..(Len(q) + 1)
         /\ DOMAIN q = 1..Len(q) /\ Len(q) \in Nat
         /\ s[1] = x /\ \A n \in DOMAIN q : n + 1 \in DOMAIN s /\ s[n + 1] = q[n]
         /\ \A n \in DOMAIN s : n # 1 => n - 1 \in DOMAIN q /\ s[n] = q[n - 1]
<1>1. <<x>> \in Seq(S) /\ Len(<<x>>) = 1 /\ <<x>>[1] = x
  OBVIOUS
<1>2. /\ s \in Seq(S) /\ Len(s) = Len(q) + 1 /\ Len(q) \in Nat
      /\ DOMAIN s = 1..(Len(q) + 1) /\ DOMAIN q = 1..Len(q)
      /\ \A n \in 1..(Len(q) + 1) : s[n] = IF n <= 1 THEN <<x>>[n] ELSE q[n - 1]
  BY <1>1
<1>3. QED
  BY <1>1, <1>2

LEMMA IC7Next ==
  ASSUME IC7!TypeOK, Inv7, IC7!Next
  PROVE  IC7!TypeOK' /\ Inv7'
<1>1. /\ likes \subseteq Like /\ friends \in Friends /\ messages \in Seq(Like)
      /\ heap \subseteq likes /\ rows \in Seq(Like \X BOOLEAN)
      /\ i \in 1..(Len(messages) + 1) /\ Len(messages) \in Nat
      /\ DOMAIN messages = 1..Len(messages) /\ i \in Nat
  <2>1. messages \in Seq(Like) /\ i \in 1..(Len(messages) + 1)
    BY DEF IC7!TypeOK, Inv7
  <2>2. QED
    BY <2>1 DEF IC7!TypeOK
<1>2. likes' = likes /\ friends' = friends
  BY DEF IC7!Next, IC7!CollectAndSort, IC7!Scan, IC7!Skip, IC7!Push, IC7!Replace,
         IC7!EndOfScan, IC7!Output, IC7!Return
<1>3. IC7!Latest' = IC7!Latest
  BY <1>2 DEF IC7!Latest
<1>4. /\ IC7!Latest \subseteq likes /\ IC7!Latest \subseteq Like
      /\ OnePerPerson(IC7!Latest)
  BY <1>1, LatestOnePerPerson DEF IC7!Latest
<1>5. \A S : IC7!Cardinality(S) = Cardinality(S)
  BY OneCardinality
<1>6. CASE IC7!CollectAndSort
  <2>1. /\ pc = "sort" /\ messages' = IC7!Sorted(likes) /\ pc' = "scan"
        /\ i' = i /\ heap' = heap /\ rows' = rows
    BY <1>6 DEF IC7!CollectAndSort
  <2>2. messages' \in Seq(likes)
    BY <1>1, <2>1, SortedList
  <2>3. messages' \in Seq(Like) /\ Len(messages') \in Nat
    BY <1>1, <2>2
  <2>4. heap = {} /\ i = 1 /\ rows = << >>
    BY <2>1 DEF Inv7
  <2>5. Seen' = {}
    BY <2>1, <2>4 DEF Seen
  <2>6. Newest(heap, Seen)'
    BY <2>1, <2>4, <2>5, FS_EmptySet, LimitAssumption DEF Newest
  <2>7. RowsRight'
    BY <1>2, <2>1 DEF Inv7, RowsRight, Found
  <2>8. i' \in 1..(Len(messages') + 1)
    BY <2>1, <2>3, <2>4
  <2>9. IC7!TypeOK'
    BY <1>2, <2>1, <2>3 DEF IC7!TypeOK
  <2>10. QED
    BY <1>2, <2>1, <2>4, <2>6, <2>7, <2>8, <2>9 DEF Inv7
<1>7. CASE IC7!Skip \/ IC7!Push \/ IC7!Replace
  <2>1. /\ pc = "scan" /\ i <= Len(messages) /\ i' = i + 1
        /\ messages' = messages /\ rows' = rows /\ pc' = pc
    BY <1>7 DEF IC7!Skip, IC7!Push, IC7!Replace, IC7!Scan
  <2>2. /\ messages = IC7!Sorted(likes) /\ Newest(heap, Seen) /\ rows = << >>
    BY <2>1 DEF Inv7
  <2>3. /\ messages \in Seq(likes)
        /\ \A k, n \in DOMAIN messages :
             k < n => IC7!ByPersonNewestFirst(messages[k], messages[n])
    BY <1>1, <2>2, SortedList
  <2>4. /\ i \in DOMAIN messages /\ messages[i] \in likes /\ messages[i] \in Like
        /\ i' \in 1..(Len(messages') + 1)
    BY <1>1, <2>1, <2>3
  <2>5. messages[i] \notin Seen
    <3>1. ASSUME NEW n \in 1..(i - 1) PROVE messages[n] # messages[i]
      <4>1. n \in DOMAIN messages /\ n < i
        BY <1>1, <2>1
      <4>2. IC7!ByPersonNewestFirst(messages[n], messages[i])
        BY <2>3, <2>4, <4>1
      <4>3. QED
        BY <2>4, <4>2, SortOrder
    <3>2. QED
      BY <3>1 DEF Seen
  <2>6. Seen' = IF messages[i] \in IC7!Latest THEN Seen \cup {messages[i]} ELSE Seen
    <3>1. 1..(i' - 1) = 1..(i - 1) \cup {i}
      BY <1>1, <2>1, <2>4
    <3>2. Seen' = {l \in IC7!Latest : \E n \in 1..(i' - 1) : messages[n] = l}
      BY <1>3, <2>1 DEF Seen
    <3>3. QED
      BY <3>1, <3>2 DEF Seen
  <2>7. IC7!SamePersonAsBefore <=> messages[i] \notin IC7!Latest
    BY <1>1, <2>2, <2>4, NeighbourTest
  <2>8. heap' \subseteq likes /\ Newest(heap', Seen')
    <3>1. CASE IC7!Skip
      BY <1>1, <2>2, <2>6, <2>7, <3>1 DEF IC7!Skip
    <3>2. Seen \in SUBSET Like /\ Seen \subseteq IC7!Latest
      BY <1>4 DEF Seen
    <3>3. CASE IC7!Push
      <4>1. /\ Cardinality(heap) < kTopN /\ heap' = heap \cup {messages[i]}
            /\ messages[i] \in IC7!Latest
        BY <1>5, <2>7, <3>3 DEF IC7!Push
      <4>2. Newest(heap \cup {messages[i]}, Seen \cup {messages[i]})
        BY <2>2, <2>4, <2>5, <3>2, <4>1, PushStep
      <4>3. QED
        BY <1>1, <2>4, <2>6, <4>1, <4>2
    <3>4. CASE IC7!Replace
      <4>1. Cardinality(heap) = kTopN /\ messages[i] \in IC7!Latest
        BY <1>5, <2>7, <3>4 DEF IC7!Replace
      <4>2. PICK w \in heap :
              /\ IC7!IsTop(w)
              /\ heap' = IF IC7!Precedes(messages[i], w)
                         THEN (heap \ {w}) \cup {messages[i]} ELSE heap
        BY <3>4 DEF IC7!Replace
      <4>3. \A r \in heap \ {w} : IC7!Precedes(r, w)
        BY <4>2 DEF IC7!IsTop
      <4>4. OnePerPerson(Seen \cup {messages[i]})
        BY <1>4, <3>2, <4>1 DEF OnePerPerson
      <4>5. Newest(IF IC7!Precedes(messages[i], w) THEN (heap \ {w}) \cup {messages[i]} ELSE heap,
                   Seen \cup {messages[i]})
        BY <2>2, <2>4, <2>5, <3>2, <4>1, <4>3, <4>4, ReplaceStep
      <4>6. heap' \subseteq likes
        BY <1>1, <2>4, <4>2
      <4>7. Newest(heap', Seen \cup {messages[i]})
        BY <4>2, <4>5
      <4>8. QED
        BY <2>6, <4>1, <4>6, <4>7
    <3>5. QED
      BY <1>7, <3>1, <3>3, <3>4
  <2>9. RowsRight'
    <3>1. Found' = {} /\ Found = {}
      BY <2>1, <2>2 DEF Found
    <3>2. RowsRight
      BY DEF Inv7
    <3>3. QED
      BY <1>2, <2>1, <3>1, <3>2 DEF RowsRight
  <2>10. IC7!TypeOK'
    BY <1>1, <1>2, <2>1, <2>8 DEF IC7!TypeOK
  <2>11. QED
    BY <1>2, <2>1, <2>2, <2>4, <2>8, <2>9, <2>10 DEF Inv7
<1>8. CASE IC7!EndOfScan
  <2>1. /\ pc = "scan" /\ i > Len(messages) /\ pc' = "output" /\ i' = i
        /\ messages' = messages /\ heap' = heap /\ rows' = rows
    BY <1>8 DEF IC7!EndOfScan
  <2>2. messages = IC7!Sorted(likes) /\ Newest(heap, Seen) /\ rows = << >>
    BY <2>1 DEF Inv7
  <2>3. Seen = IC7!Latest
    <3>1. Elements(messages) = likes /\ 1..(i - 1) = DOMAIN messages
      BY <1>1, <2>1, <2>2, SortedList
    <3>2. \A l \in likes : \E n \in 1..(i - 1) : messages[n] = l
      BY <3>1 DEF Elements
    <3>3. QED
      BY <1>4, <3>2 DEF Seen
  <2>4. Found' = {} /\ Found = {}
    BY <2>1, <2>2 DEF Found
  <2>5. Newest(heap \cup Found, IC7!Latest)'
    <3>1. heap \cup {} = heap
      OBVIOUS
    <3>2. Newest(heap \cup {}, IC7!Latest)
      BY <2>2, <2>3, <3>1
    <3>3. QED
      BY <1>3, <2>1, <2>4, <3>2 DEF Newest
  <2>6. RowsRight'
    BY <1>2, <2>1, <2>4 DEF RowsRight, Inv7
  <2>7. IC7!TypeOK'
    BY <1>1, <1>2, <2>1 DEF IC7!TypeOK
  <2>8. QED
    BY <1>1, <1>2, <2>1, <2>2, <2>5, <2>6, <2>7 DEF Inv7
<1>9. ASSUME NEW w \in heap, IC7!Output(w)
      PROVE  IC7!TypeOK' /\ Inv7'
  <2> DEFINE row == <<w, w[1] \notin friends>>
  <2>1. /\ pc = "output" /\ IC7!IsTop(w) /\ heap' = heap \ {w} /\ rows' = <<row>> \o rows
        /\ messages' = messages /\ i' = i /\ pc' = pc
    BY <1>9 DEF IC7!Output
  <2>2. /\ messages = IC7!Sorted(likes) /\ Newest(heap \cup Found, IC7!Latest) /\ RowsRight
    BY <2>1 DEF Inv7
  <2>3. w \in Like /\ w \in likes
    BY <1>1
  <2>4. row \in Like \X BOOLEAN /\ row[1] = w /\ (row[2] <=> w[1] \notin friends)
    <3>1. CASE w[1] \in friends
      <4>1. (w[1] \notin friends) = FALSE
        BY <3>1
      <4>2. row = <<w, FALSE>>
        BY <4>1, Zenon
      <4> HIDE DEF row
      <4>3. QED
        BY <2>3, <3>1, <4>2
    <3>2. CASE w[1] \notin friends
      <4>1. (w[1] \notin friends) = TRUE
        BY <3>2
      <4>2. row = <<w, TRUE>>
        BY <4>1, Zenon
      <4> HIDE DEF row
      <4>3. QED
        BY <2>3, <3>2, <4>2
    <3>3. QED
      BY <3>1, <3>2
  <2> HIDE DEF row
  <2>5. PICK s : s = rows'
    OBVIOUS
  <2>6. /\ s \in Seq(Like \X BOOLEAN) /\ Len(s) = Len(rows) + 1 /\ DOMAIN s = 1..(Len(rows) + 1)
        /\ DOMAIN rows = 1..Len(rows) /\ Len(rows) \in Nat
        /\ s[1] = row /\ \A n \in DOMAIN rows : n + 1 \in DOMAIN s /\ s[n + 1] = rows[n]
        /\ \A n \in DOMAIN s : n # 1 => n - 1 \in DOMAIN rows /\ s[n] = rows[n - 1]
    BY <1>1, <2>1, <2>4, <2>5, Prepend
  <2>7. Found' = Found \cup {w}
    <3>1. Found' = {s[n][1] : n \in DOMAIN s}
      BY <2>5 DEF Found
    <3>2. ASSUME NEW n \in DOMAIN s PROVE s[n][1] \in Found \cup {w}
      BY <2>4, <2>6 DEF Found
    <3>3. ASSUME NEW l \in Found \cup {w} PROVE \E n \in DOMAIN s : s[n][1] = l
      <4>1. CASE l = w
        <5>1. 1 \in DOMAIN s
          BY <2>6
        <5>2. QED
          BY <2>4, <2>6, <4>1, <5>1
      <4>2. CASE l \in Found
        <5>1. PICK n \in DOMAIN rows : l = rows[n][1]
          BY <4>2 DEF Found
        <5>2. QED
          BY <2>6, <5>1
      <4>3. QED
        BY <4>1, <4>2
    <3>4. QED
      BY <3>1, <3>2, <3>3
  <2>8. \A r \in heap \ {w} : IC7!Precedes(r, w)
    BY <2>1 DEF IC7!IsTop
  <2>9. w \notin Found /\ \A k \in Found : IC7!Precedes(w, k)
    BY <2>2 DEF RowsRight
  <2>10. Cardinality(Found \cup {w}) = Cardinality(Found) + 1
    <3>1. Found \subseteq Like
      BY <1>4, <2>2 DEF Newest
    <3>2. IsFiniteSet(Found)
      BY <3>1, FiniteAssumption, FS_Subset
    <3>3. QED
      BY <2>9, <3>2, FS_AddElement
  <2>11. RowsRight'
    <3>1. /\ s \in Seq(Like \X BOOLEAN)
          /\ Len(s) = Cardinality(Found \cup {w})
          /\ (heap \ {w}) \cap (Found \cup {w}) = {}
          /\ \A l \in heap \ {w}, k \in Found \cup {w} : IC7!Precedes(l, k)
      BY <2>2, <2>6, <2>8, <2>10 DEF RowsRight
    <3>2. ASSUME NEW n \in DOMAIN s, NEW k \in DOMAIN s, n < k
          PROVE  IC7!Precedes(s[n][1], s[k][1])
      <4>1. k # 1 /\ k - 1 \in DOMAIN rows /\ s[k] = rows[k - 1]
        BY <2>6, <3>2
      <4>2. CASE n = 1
        BY <2>4, <2>6, <2>9, <4>1, <4>2 DEF Found
      <4>3. CASE n # 1
        <5>1. n - 1 \in DOMAIN rows /\ s[n] = rows[n - 1] /\ n - 1 < k - 1
          BY <2>6, <3>2, <4>3
        <5>2. QED
          BY <2>2, <4>1, <5>1 DEF RowsRight
      <4>4. QED
        BY <4>2, <4>3
    <3>3. ASSUME NEW n \in DOMAIN s
          PROVE  s[n][2] <=> s[n][1][1] \notin friends
      BY <2>2, <2>4, <2>6 DEF RowsRight
    <3>4. QED
      BY <1>2, <2>1, <2>5, <2>7, <3>1, <3>2, <3>3 DEF RowsRight
  <2>12. heap' \cup Found' = heap \cup Found
    BY <2>1, <2>7
  <2>13. Newest(heap \cup Found, IC7!Latest)'
    BY <1>3, <2>2, <2>12 DEF Newest
  <2>14. IC7!TypeOK'
    BY <1>1, <1>2, <2>1, <2>5, <2>6 DEF IC7!TypeOK
  <2>15. QED
    BY <1>1, <1>2, <2>1, <2>2, <2>11, <2>13, <2>14 DEF Inv7
<1>10. CASE IC7!Return
  <2>1. /\ pc = "output" /\ heap = {} /\ pc' = "done" /\ heap' = heap
        /\ messages' = messages /\ i' = i /\ rows' = rows
    BY <1>10 DEF IC7!Return
  <2>2. /\ messages = IC7!Sorted(likes) /\ Newest(heap \cup Found, IC7!Latest) /\ RowsRight
    BY <2>1 DEF Inv7
  <2>3. Found' = Found
    BY <2>1 DEF Found
  <2>4. RowsRight'
    BY <1>2, <2>1, <2>2, <2>3 DEF RowsRight
  <2>5. Newest(heap \cup Found, IC7!Latest)'
    BY <1>3, <2>1, <2>2, <2>3 DEF Newest
  <2>6. IC7!TypeOK'
    BY <1>1, <1>2, <2>1 DEF IC7!TypeOK
  <2>7. QED
    BY <1>1, <1>2, <2>1, <2>2, <2>4, <2>5, <2>6 DEF Inv7
<1>11. QED
  BY <1>6, <1>7, <1>8, <1>9, <1>10 DEF IC7!Next

(* When the heap is empty the rows are the newest of the latest likes.      *)
LEMMA IC7Result ==
  ASSUME Inv7
  PROVE  IC7!ReturnsTheLatest
<1>1. SUFFICES ASSUME pc = "done"
               PROVE  /\ Found \subseteq IC7!Latest
                      /\ Len(rows) = IC7!Cardinality(Found)
                      /\ Len(rows) < kTopN => Found = IC7!Latest
                      /\ \A l \in Found, k \in IC7!Latest \ Found : IC7!Precedes(l, k)
                      /\ \A j, k \in DOMAIN rows : j < k => IC7!Precedes(rows[j][1], rows[k][1])
                      /\ \A j \in DOMAIN rows : rows[j][2] <=> rows[j][1][1] \notin friends
  BY DEF IC7!ReturnsTheLatest, Found
<1>2. heap = {} /\ Newest(heap \cup Found, IC7!Latest) /\ RowsRight
  BY <1>1 DEF Inv7
<1>3. heap \cup Found = Found
  BY <1>2
<1>4. Newest(Found, IC7!Latest)
  BY <1>2, <1>3
<1>5. Len(rows) = IC7!Cardinality(Found) /\ Len(rows) = Cardinality(Found)
  BY <1>2, OneCardinality DEF RowsRight
<1>6. QED
  BY <1>2, <1>4, <1>5 DEF Newest, RowsRight

------------------------------------------------------------------------------
(****************************************************************************)
(* All the queries.                                                         *)
(****************************************************************************)

(* The inductive invariant: the variables of the running query have their   *)
(* types, and what holds of them in the steps of the query; a call for what *)
(* is not there makes none of these steps.                                  *)
IInv ==
  /\ call = "ic3" => IC3!TypeOK /\ (known => Inv3)
  /\ call = "ic4" => IC4!TypeOK /\ (known => Inv4)
  /\ call = "ic6" => IC6!TypeOK /\ (known => Inv6)
  /\ call = "ic7" => IC7!TypeOK /\ (known => Inv7)
  /\ call = "lookup" => Lookup!TypeOK /\ InvLookup /\ known
  /\ call = "short" => Short!TypeOK /\ InvShort /\ known
  /\ call = "ic12" => IC12!TypeOK /\ (known => Inv12)

LEMMA InitIInv == Init => IInv
<1> SUFFICES ASSUME Init PROVE IInv
  OBVIOUS
<1>1. CASE call = "ic3"
  BY <1>1, IC3Init DEF Init, IInv
<1>2. CASE call = "ic4"
  BY <1>2, IC4Init DEF Init, IInv
<1>3. CASE call = "ic6"
  BY <1>3, IC6Init DEF Init, IInv
<1>4. CASE call = "ic7"
  BY <1>4, IC7Init DEF Init, IInv
<1>5. CASE call = "lookup"
  BY <1>5, LookupInit DEF Init, IInv
<1>6. CASE call = "short"
  BY <1>6, ShortInit DEF Init, IInv
<1>7. CASE call = "ic12"
  BY <1>7, IC12Init DEF Init, IInv
<1>8. QED
  BY <1>1, <1>2, <1>3, <1>4, <1>5, <1>6, <1>7 DEF Init

(* A step that leaves a query's variables alone leaves its invariant alone. *)
LEMMA StutterIC3 ==
  ASSUME IC3!TypeOK, UNCHANGED <<world, pc, rows, OfIC3>>
  PROVE  IC3!TypeOK' /\ (Inv3 => Inv3')
<1>1. /\ world' = world /\ pc' = pc /\ rows' = rows /\ places' = places
      /\ countryX' = countryX /\ countryY' = countryY /\ abroad' = abroad
      /\ person' = person /\ unread' = unread /\ xCount' = xCount /\ yCount' = yCount
  BY DEF OfIC3
<1>2. IC3!TypeOK'
  BY <1>1 DEF IC3!TypeOK
<1>3. \A x, y, f : /\ Eligible(x, y)' = Eligible(x, y) /\ Located(f, x)' = Located(f, x)
                  /\ Row3(x, y, f)' = Row3(x, y, f)
                  /\ IC3!MessagesOf(f)' = IC3!MessagesOf(f)
  BY <1>1 DEF Eligible, Located, Row3, IC3!MessagesOf
<1>4. ASSUME NEW x, NEW y
      PROVE  /\ Offered(x, y)' = Offered(x, y)
             /\ Counting(x, y) => Counting(x, y)'
  BY <1>1, <1>3 DEF Offered, Counting
<1>5. ASSUME NEW x, NEW y, CountsFor(x, y) PROVE CountsFor(x, y)'
  BY <1>1, <1>3, <1>4, <1>5 DEF CountsFor
<1>6. QED
  BY <1>1, <1>2, <1>5 DEF Inv3

LEMMA StutterIC4 ==
  ASSUME IC4!TypeOK, UNCHANGED <<world, pc, rows, OfIC4>>
  PROVE  IC4!TypeOK' /\ (Inv4 => Inv4')
BY DEF OfIC4, IC4!TypeOK, Inv4, IC4!Tagged, IC4!Scans, IC4!OldScans

LEMMA StutterIC6 ==
  ASSUME IC6!TypeOK, UNCHANGED <<world, pc, rows, OfIC6>>
  PROVE  IC6!TypeOK' /\ (Inv6 => Inv6')
BY DEF OfIC6, IC6!TypeOK, Inv6, IC6!With

LEMMA StutterIC7 ==
  ASSUME IC7!TypeOK, UNCHANGED <<pc, rows, friends, OfIC7>>
  PROVE  IC7!TypeOK' /\ (Inv7 => Inv7')
<1>1. /\ pc' = pc /\ rows' = rows /\ friends' = friends
      /\ likes' = likes /\ messages' = messages /\ i' = i /\ heap' = heap
  BY DEF OfIC7
<1>2. IC7!TypeOK'
  BY <1>1 DEF IC7!TypeOK
<1>3. IC7!Latest' = IC7!Latest /\ Found' = Found
  BY <1>1 DEF IC7!Latest, Found
<1>4. Seen' = Seen
  BY <1>1, <1>3 DEF Seen
<1>5. /\ Newest(heap, Seen) => Newest(heap, Seen)'
      /\ Newest(heap \cup Found, IC7!Latest) => Newest(heap \cup Found, IC7!Latest)'
  BY <1>1, <1>3, <1>4 DEF Newest
<1>6. RowsRight => RowsRight'
  BY <1>1, <1>3 DEF RowsRight
<1>7. QED
  BY <1>1, <1>2, <1>5, <1>6 DEF Inv7

LEMMA StutterLookup ==
  ASSUME Lookup!TypeOK, InvLookup, UNCHANGED <<world, pc, OfReads, OfLookup>>
  PROVE  Lookup!TypeOK' /\ InvLookup'
BY DEF OfReads, OfLookup, Lookup!TypeOK, InvLookup, Roots, Lookup!Thread,
       Lookup!AnswersForTheRoot

LEMMA StutterShort ==
  ASSUME Short!TypeOK, InvShort, UNCHANGED <<world, pc, OfReads, OfShort>>
  PROVE  Short!TypeOK' /\ InvShort'
BY DEF OfReads, OfShort, Short!TypeOK, InvShort, Short!FriendEdges, Answering, Authored,
       RowOf, ReplyRows, Flagged, Short!MarkKnows

LEMMA StutterIC12 ==
  ASSUME IC12!TypeOK, UNCHANGED <<world, pc, rows, friends, OfIC12>>
  PROVE  IC12!TypeOK' /\ (Inv12 => Inv12')
<1>1. /\ world' = world /\ pc' = pc /\ rows' = rows /\ friends' = friends
      /\ queue' = queue /\ tagSet' = tagSet /\ friend' = friend
      /\ comments' = comments /\ count' = count /\ tagsOf' = tagsOf
  BY DEF OfIC12
<1>2. IC12!TypeOK'
  BY <1>1 DEF IC12!TypeOK, IC12!Callbacks
<1>3. /\ \A c : IC12!Under(c)' = IC12!Under(c) /\ IC12!MarkedTags(c)' = IC12!MarkedTags(c)
      /\ IC12!TagsUnderRoot' = IC12!TagsUnderRoot /\ Elements(queue)' = Elements(queue)
      /\ IC12!Callbacks' = IC12!Callbacks
      /\ \A f : /\ IC12!Replies(f)' = IC12!Replies(f)
                /\ By(f)' = By(f) /\ Row12(f)' = Row12(f)
  BY <1>1 DEF IC12!Under, IC12!Subclasses, IC12!TagsUnderRoot, IC12!Replies, By, Row12,
              IC12!MarkedTags, Elements, IC12!Callbacks
<1>4. Answered' = Answered /\ \A f : TagsOf(f)' = TagsOf(f)
  BY <1>1, <1>3 DEF Answered, TagsOf
<1>5. ASSUME Inv12 PROVE Inv12'
  <2>1. rows = {Row12(f) : f \in Answered} => rows' = {Row12(f)' : f \in Answered'}
    BY <1>1, <1>3, <1>4
  <2>2. tagsOf = [f \in Friend |-> TagsOf(f)] => tagsOf' = [f \in Friend |-> TagsOf(f)']
    BY <1>1, <1>4
  <2>3. /\ By(friend)' = By(friend) /\ IC12!Replies(friend)' = IC12!Replies(friend)
    BY <1>1, <1>3 DEF By, IC12!Replies, IC12!TagsUnderRoot, IC12!Under, IC12!Subclasses
  <2>4. QED
    BY <1>1, <1>3, <1>5, <2>1, <2>2, <2>3 DEF Inv12
<1>6. QED
  BY <1>2, <1>5

LEMMA Stutter == IInv /\ UNCHANGED vars => IInv'
BY StutterIC3, StutterIC4, StutterIC6, StutterIC7, StutterLookup, StutterShort, StutterIC12
   DEF IInv, vars

LEMMA NextIInv == IInv /\ Next => IInv'
<1> SUFFICES ASSUME IInv, Next PROVE IInv'
  OBVIOUS
<1>1. CASE Reject
  <2>1. ~ known /\ call' = call /\ known' = known /\ pc' = "done"
    BY <1>1 DEF Reject
  <2>2. call = "ic3" => IC3!TypeOK'
    BY <1>1 DEF Reject, IInv, IC3!TypeOK, OfIC3
  <2>3. call = "ic4" => IC4!TypeOK'
    BY <1>1 DEF Reject, IInv, IC4!TypeOK, OfIC4, IC4!Scans
  <2>4. call = "ic6" => IC6!TypeOK'
    BY <1>1 DEF Reject, IInv, IC6!TypeOK, OfIC6
  <2>5. call = "ic7" => IC7!TypeOK'
    BY <1>1 DEF Reject, IInv, IC7!TypeOK, OfIC7
  <2>6. call = "ic12" => IC12!TypeOK'
    BY <1>1 DEF Reject, IInv, IC12!TypeOK, OfIC12, IC12!Callbacks
  <2>7. call # "lookup" /\ call # "short"
    BY <2>1 DEF IInv
  <2>8. QED
    BY <2>1, <2>2, <2>3, <2>4, <2>5, <2>6, <2>7 DEF IInv
<1>2. CASE RunIC3
  <2>1. known /\ call = "ic3" /\ IC3!Next /\ call' = call
    BY <1>2 DEF RunIC3
  <2>2. IC3!TypeOK' /\ Inv3'
    BY <2>1, IC3Next DEF IInv
  <2>3. QED
    BY <2>1, <2>2 DEF IInv
<1>3. CASE RunIC4
  <2>1. known /\ call = "ic4" /\ IC4!Next /\ call' = call
    BY <1>3 DEF RunIC4
  <2>2. IC4!TypeOK' /\ Inv4'
    BY <2>1, IC4Next DEF IInv
  <2>3. QED
    BY <2>1, <2>2 DEF IInv
<1>4. CASE RunIC6
  <2>1. known /\ call = "ic6" /\ IC6!Next /\ call' = call
    BY <1>4 DEF RunIC6
  <2>2. IC6!TypeOK' /\ Inv6'
    BY <2>1, IC6Next DEF IInv
  <2>3. QED
    BY <2>1, <2>2 DEF IInv
<1>5. CASE RunIC7
  <2>1. known /\ call = "ic7" /\ IC7!Next /\ call' = call
    BY <1>5 DEF RunIC7
  <2>2. IC7!TypeOK' /\ Inv7'
    BY <2>1, IC7Next DEF IInv
  <2>3. QED
    BY <2>1, <2>2 DEF IInv
<1>6. CASE RunLookup
  <2>1. known /\ call = "lookup" /\ Lookup!Next /\ call' = call /\ known' = known
    BY <1>6 DEF RunLookup
  <2>2. Lookup!TypeOK' /\ InvLookup'
    BY <2>1, LookupNext DEF IInv
  <2>3. QED
    BY <2>1, <2>2 DEF IInv
<1>7. CASE RunShort
  <2>1. known /\ call = "short" /\ Short!Next /\ call' = call /\ known' = known
    BY <1>7 DEF RunShort
  <2>2. Short!TypeOK' /\ InvShort'
    BY <2>1, ShortNext DEF IInv
  <2>3. QED
    BY <2>1, <2>2 DEF IInv
<1>8. CASE RunIC12
  <2>1. known /\ call = "ic12" /\ IC12!Next /\ call' = call
    BY <1>8 DEF RunIC12
  <2>2. IC12!TypeOK' /\ Inv12'
    BY <2>1, IC12Next DEF IInv
  <2>3. QED
    BY <2>1, <2>2 DEF IInv
<1>9. QED
  BY <1>1, <1>2, <1>3, <1>4, <1>5, <1>6, <1>7, <1>8 DEF Next

LEMMA Invariance == Spec => []IInv
<1>1. IInv /\ [Next]_vars => IInv'
  BY NextIInv, Stutter
<1>2. QED
  BY InitIInv, <1>1, PTL DEF Spec

(* The variables of the running query have their types: counts never go     *)
(* below zero, the heap holds likes of the call, what resolve_root_post     *)
(* leaves is a post, and an answer has the columns of its query.            *)
THEOREM TypeCorrect == Spec => []TypeOK
<1>1. IInv => TypeOK
  BY DEF IInv, TypeOK
<1>2. QED
  BY Invariance, <1>1, PTL

(* IC3: where each name is that of one place, the rows are those of the     *)
(* friends abroad with messages from both, with the numbers of these.       *)
THEOREM CountriesCounted == Spec => []CountsBothCountries
<1>1. IInv => CountsBothCountries
  BY IC3Result DEF IInv, CountsBothCountries
<1>2. QED
  BY Invariance, <1>1, PTL

(* IC4: a tag has a row exactly when a post of the period has it and no     *)
(* older post does, whichever of the posts are scanned first, and its count *)
(* is that of the scans of its posts: one for each post, two where the      *)
(* friendship with the author is stored in both directions.                 *)
THEOREM NewTagsOnly == Spec => []OnlyNewTags
<1>1. IInv => OnlyNewTags
  BY IC4Result DEF IInv, OnlyNewTags
<1>2. QED
  BY Invariance, <1>1, PTL

(* IC6: every other tag of the friends' posts with the tag has a row, with  *)
(* the number of these posts.                                               *)
THEOREM OtherTagsCounted == Spec => []CountsOtherTags
<1>1. IInv => CountsOtherTags
  BY IC6Result DEF IInv, CountsOtherTags
<1>2. QED
  BY Invariance, <1>1, PTL

(* IC7: to compare neighbours in the sorted list is to keep the latest like *)
(* of each person, and the heap leaves the newest kTopN of these, in order. *)
THEOREM LatestReturned == Spec => []ReturnsTheLatest
<1>1. IInv => ReturnsTheLatest
  BY IC7Result DEF IInv, ReturnsTheLatest
<1>2. QED
  BY Invariance, <1>1, PTL

(* IC12: the tags marked by way of the queue are those of the classes under *)
(* the one asked for, the rows are the friends with answers to posts that   *)
(* have one, a row for every stored edge of the friendship, and each is     *)
(* output with the tags of the answers counted.                             *)
THEOREM RepliesCounted == Spec => []RowsAreReplies
<1>1. IInv => RowsAreReplies
  BY IC12Result DEF IInv, RowsAreReplies
<1>2. QED
  BY Invariance, <1>1, PTL

(* IS6: when the loop up the thread ends it has found the post the thread   *)
(* began with, and the row is this post's forum and moderator.              *)
THEOREM RootAnswered == Spec => []AnswersForTheRoot
<1>1. IInv => AnswersForTheRoot
  <2>1. Lookup!TypeOK /\ InvLookup => Lookup!AnswersForTheRoot
    BY DEF InvLookup, Lookup!AnswersForTheRoot
  <2>2. QED
    BY <2>1 DEF IInv, AnswersForTheRoot
<1>2. QED
  BY Invariance, <1>1, PTL

(* IS3 and IS7: every friendship and every reply is listed once, newest     *)
(* first, and replies by those who know the author are flagged.             *)
THEOREM ListsSorted == Spec => []ListsInOrder
<1>1. IInv => ListsInOrder
  BY ShortResult DEF IInv, ListsInOrder
<1>2. QED
  BY Invariance, <1>1, PTL
================================================================================
