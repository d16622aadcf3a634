---------------------------- MODULE PathScoreProofs ----------------------------
(****************************************************************************)
(* The scores of ic14, for every set of paths and every thread of messages. *)
(*                                                                          *)
(* The weight of two persons counts the comments they wrote in answer to    *)
(* each other.  The code reaches it in three ways: by the comments of both  *)
(* (PairScore), by the messages of the one who wrote fewer (PairScoreOne),  *)
(* and by one reading of the messages of a person for all his pairs at once *)
(* (Accumulate).  The last two give the weight because a message that is    *)
(* read adds just the exchanges it takes part in: Learnt below is what the  *)
(* messages read so far tell, and it grows by MessageGain.                  *)
(****************************************************************************)
EXTENDS PathScore, FiniteSetTheorems, TLAPS

------------------------------------------------------------------------------
(****************************************************************************)
(* Sums.                                                                    *)
(****************************************************************************)

(* A family of subsets of a finite set has a member without a smaller one.  *)
LEMMA SmallestSubset ==
  ASSUME NEW S, IsFiniteSet(S), NEW F \in SUBSET (SUBSET S), F # {}
  PROVE  \E T \in F : \A m \in T : T \ {m} \notin F
<1>1. F \subseteq FiniteSubsetsOf(S)
  BY FS_Subset DEF FiniteSubsetsOf
<1>2. IsWellFoundedOn(StrictSubsetOrdering(S), FiniteSubsetsOf(S))
  BY FS_StrictSubsetOrderingWellFounded
<1>3. PICK T \in F : \A U \in F : <<U, T>> \notin StrictSubsetOrdering(S)
  BY <1>1, <1>2, WFMin
<1>4. ASSUME NEW m \in T, T \ {m} \in F PROVE FALSE
  <2>1. T \ {m} \subseteq T /\ T \ {m} # T
    OBVIOUS
  <2>2. <<T \ {m}, T>> \in StrictSubsetOrdering(S)
    BY <2>1, <1>4 DEF StrictSubsetOrdering
  <2>3. QED
    BY <2>2, <1>3, <1>4
<1>5. QED
  BY <1>4

(* A quantity of the subsets of S that starts at 0 and grows by f[m] with   *)
(* every element m.                                                         *)
GrowsBy(S, f, h) ==
  /\ DOMAIN f = S
  /\ h \in [SUBSET S -> Nat]
  /\ h[{}] = 0
  /\ \A T \in SUBSET S : \A m \in T : h[T] = f[m] + h[T \ {m}]

(* It comes to the sum of f.                                                *)
LEMMA SumOf ==
  ASSUME NEW S, NEW f, NEW h, IsFiniteSet(S), GrowsBy(S, f, h)
  PROVE  SumFunction(f) = h[S]
<1> DEFINE First(s) == CHOOSE x \in s : TRUE
           Step(g) == [s \in SUBSET S |->
                         IF s = {} THEN 0 ELSE f[First(s)] + g[s \ {First(s)}]]
           g0 == CHOOSE g : g = Step(g)
<1>1. SumFunction(f) = g0[S]
  BY DEF GrowsBy, SumFunction, SumFunctionOnSet, FoldFunctionOnSet, MapThenFoldSet
<1>2. \A s \in SUBSET S : s # {} => First(s) \in s
  OBVIOUS
<1>3. \A s \in SUBSET S : s \ {First(s)} \in SUBSET S
  OBVIOUS
<1>4. h = Step(h)
  <2>1. ASSUME NEW s \in SUBSET S
        PROVE  h[s] = IF s = {} THEN 0 ELSE f[First(s)] + h[s \ {First(s)}]
    <3>1. CASE s = {}
      BY <3>1 DEF GrowsBy
    <3>2. CASE s # {}
      <4>1. First(s) \in s
        BY <3>2, <1>2
      <4> HIDE DEF First
      <4>2. QED
        BY <3>2, <4>1 DEF GrowsBy
    <3>3. QED
      BY <3>1, <3>2
  <2> HIDE DEF First
  <2>2. QED
    BY <2>1 DEF GrowsBy
<1>5. g0 = Step(g0)
  <2> HIDE DEF Step
  <2>1. QED
    BY <1>4
<1> HIDE DEF g0
<1> DEFINE Bad == {s \in SUBSET S : g0[s] # h[s]}
<1>6. Bad = {}
  <2>1. SUFFICES ASSUME Bad # {} PROVE FALSE
    OBVIOUS
  <2>2. PICK s \in Bad : \A m \in s : s \ {m} \notin Bad
    <3> HIDE DEF Bad
    <3>1. Bad \in SUBSET (SUBSET S)
      BY DEF Bad
    <3>2. QED
      BY <2>1, <3>1, SmallestSubset
  <2>3. g0[s] = IF s = {} THEN 0 ELSE f[First(s)] + g0[s \ {First(s)}]
    <3> HIDE DEF First
    <3>1. QED
      BY <1>5
  <2>4. h[s] = IF s = {} THEN 0 ELSE f[First(s)] + h[s \ {First(s)}]
    <3> HIDE DEF First
    <3>1. QED
      BY <1>4
  <2>5. s # {} => g0[s \ {First(s)}] = h[s \ {First(s)}]
    <3>1. s # {} => First(s) \in s
      BY <1>2
    <3> HIDE DEF First
    <3>2. QED
      BY <2>2, <3>1
  <2>6. QED
    BY <2>2, <2>3, <2>4, <2>5
<1>7. QED
  BY <1>1, <1>6

------------------------------------------------------------------------------
(****************************************************************************)
(* What the messages read so far tell.                                      *)
(****************************************************************************)

(* The comments by which v and the author of the messages T answer each     *)
(* other, of those a reading of T comes across.                             *)
Heard(T, v) ==
  {c \in Comment : /\ world.replyOf[c] # none
                   /\ \/ c \in T /\ world.creator[world.replyOf[c]] = v
                      \/ world.creator[c] = v /\ world.replyOf[c] \in T}

OnPost(C) == {c \in C : world.replyOf[c] \in Post}

(* A comment on a post counts twice.                                        *)
Worth(C) == Cardinality(C) + Cardinality(OnPost(C))

Learnt(T, v) == Worth(Heard(T, v))

(* Comments are messages, and the messages are finitely many.               *)
LEMMA FiniteComments ==
  ASSUME NEW C \in SUBSET Comment
  PROVE  IsFiniteSet(C) /\ Cardinality(C) \in Nat
<1>1. C \in SUBSET Message
  BY DEF Message
<1>2. IsFiniteSet(C)
  BY <1>1, FiniteAssumption, FS_Subset
<1>3. QED
  BY <1>2, FS_CardinalityType

(* Sets of comments that share none add up.                                 *)
LEMMA WorthUnion ==
  ASSUME NEW C \in SUBSET Comment, NEW D \in SUBSET Comment, C \cap D = {}
  PROVE  Worth(C \cup D) = Worth(C) + Worth(D)
<1>1. OnPost(C \cup D) = OnPost(C) \cup OnPost(D) /\ OnPost(C) \cap OnPost(D) = {}
  BY DEF OnPost
<1>2. OnPost(C) \in SUBSET Comment /\ OnPost(D) \in SUBSET Comment
  BY DEF OnPost
<1>3. ASSUME NEW A \in SUBSET Comment, NEW B \in SUBSET Comment, A \cap B = {}
      PROVE  Cardinality(A \cup B) = Cardinality(A) + Cardinality(B)
  <2>1. /\ IsFiniteSet(A) /\ IsFiniteSet(B)
        /\ Cardinality(A) \in Nat /\ Cardinality(B) \in Nat
    BY FiniteComments
  <2>2. Cardinality(A \cup B) = Cardinality(A) + Cardinality(B) - Cardinality(A \cap B)
    BY <2>1, FS_Union
  <2>3. Cardinality(A \cap B) = 0
    BY <1>3, FS_EmptySet
  <2>4. QED
    BY <2>1, <2>2, <2>3
<1>4. Cardinality(C \cup D) = Cardinality(C) + Cardinality(D)
  BY <1>3
<1>5. Cardinality(OnPost(C \cup D)) = Cardinality(OnPost(C)) + Cardinality(OnPost(D))
  BY <1>3, <1>1, <1>2
<1>6. /\ Cardinality(C) \in Nat /\ Cardinality(D) \in Nat
      /\ Cardinality(OnPost(C)) \in Nat /\ Cardinality(OnPost(D)) \in Nat
  BY <1>2, FiniteComments
<1>7. QED
  BY <1>4, <1>5, <1>6 DEF Worth

(* A worth is a number, and no comments are worth nothing.                  *)
LEMMA WorthType ==
  ASSUME NEW C \in SUBSET Comment
  PROVE  Worth(C) \in Nat /\ Worth({}) = 0
<1>1. OnPost(C) \in SUBSET Comment
  BY DEF OnPost
<1>2. Worth(C) \in Nat
  BY <1>1, FiniteComments DEF Worth
<1>3. OnPost({}) = {}
  BY DEF OnPost
<1>4. QED
  BY <1>2, <1>3, FS_EmptySet DEF Worth

(* The ends of a pair, either way round.                                    *)
LEMMA PairEnds ==
  ASSUME NEW a, NEW b, NEW x, NEW y
  PROVE  {a, b} = {x, y} <=> ((a = x /\ b = y) \/ (a = y /\ b = x))
<1>1. ASSUME {a, b} = {x, y} PROVE (a = x /\ b = y) \/ (a = y /\ b = x)
  <2>1. a \in {x, y} /\ b \in {x, y} /\ x \in {a, b} /\ y \in {a, b}
    BY <1>1
  <2>2. QED
    BY <2>1
<1>2. QED
  BY <1>1

(* The weight of two persons is the worth of what they exchanged.           *)
LEMMA WeightIsWorth ==
  ASSUME NEW x \in Person, NEW y \in Person
  PROVE  Weight(x, y) = Worth(Exchanged(x, y)) /\ Weight(x, y) \in Nat
<1>1. Exchanged(x, y) \in SUBSET Comment
  BY DEF Exchanged
<1>2. Weight(x, y) = Worth(Exchanged(x, y))
  BY DEF Weight, Worth, OnPost
<1>3. QED
  BY <1>1, <1>2, WorthType

(* It does not matter whose answers are looked at first.                    *)
LEMMA WeightSymmetric ==
  ASSUME NEW x \in Person, NEW y \in Person
  PROVE  Weight(x, y) = Weight(y, x)
<1>1. {x, y} = {y, x}
  OBVIOUS
<1>2. Exchanged(x, y) = Exchanged(y, x)
  BY <1>1 DEF Exchanged
<1>3. QED
  BY <1>2 DEF Weight

(* The messages a message answers, and those who wrote them.                *)
LEMMA WorldType ==
  ASSUME world \in Worlds
  PROVE  /\ \A m \in Message : world.creator[m] \in Person
         /\ \A c \in Comment : /\ c \in Message /\ c \notin Post
                               /\ world.replyOf[c] \in Message \cup {none}
         /\ world.paths \in SUBSET Path
BY WorldsAssumption, MessageAssumption DEF World, Message

(* The messages of a person are among the messages.                         *)
LEMMA MessagesOfType ==
  ASSUME NEW x, NEW T \in SUBSET MessagesOf(x)
  PROVE  /\ T \in SUBSET Message /\ IsFiniteSet(T)
         /\ \A m \in T : world.creator[m] = x
<1>1. T \in SUBSET Message /\ \A m \in T : world.creator[m] = x
  BY DEF MessagesOf
<1>2. QED
  BY <1>1, FiniteAssumption, FS_Subset

(* A comment alone is worth what the code adds for it.                      *)
LEMMA WorthOne ==
  ASSUME NEW c \in Comment
  PROVE  Worth({c}) = Gain(c)
<1>1. OnPost({c}) = IF world.replyOf[c] \in Post THEN {c} ELSE {}
  BY DEF OnPost
<1>2. Cardinality({c}) = 1 /\ Cardinality({}) = 0
  BY FS_Singleton, FS_EmptySet
<1>3. QED
  BY <1>1, <1>2 DEF Worth, Gain

(* The answers to one message are worth as much each as the message makes   *)
(* them.                                                                    *)
LEMMA WorthReplies ==
  ASSUME NEW v, NEW m
  PROVE  Worth(RepliesBy(v, m))
           = (IF m \in Post THEN 2 ELSE 1) * Cardinality(RepliesBy(v, m))
<1> DEFINE R == RepliesBy(v, m)
<1>1. R \in SUBSET Comment
  BY DEF RepliesBy, CommentsOf
<1>2. Cardinality(R) \in Nat
  BY <1>1, FiniteComments
<1>3. OnPost(R) = IF m \in Post THEN R ELSE {}
  BY DEF OnPost, RepliesBy
<1>4. Cardinality({}) = 0
  BY FS_EmptySet
<1> HIDE DEF R
<1>5. CASE m \in Post
  BY <1>2, <1>3, <1>5 DEF Worth, R
<1>6. CASE m \notin Post
  BY <1>2, <1>3, <1>4, <1>6 DEF Worth, R
<1>7. QED
  BY <1>5, <1>6

(* A message that is read adds its gain, and no exchange is heard twice:    *)
(* its author is not the person asked for.                                  *)
LEMMA LearntGrows ==
  ASSUME world \in Worlds, NEW x \in Person, NEW v \in Person, x # v,
         NEW T \in SUBSET MessagesOf(x), NEW m \in T
  PROVE  Learnt(T, v) = MessageGain(m, v) + Learnt(T \ {m}, v)
<1> DEFINE H == Heard(T \ {m}, v)
           Own == IF m \in Comment /\ Answers(m, v) THEN {m} ELSE {}
           R == RepliesBy(v, m)
<1>1. /\ \A t \in T : t \in Message /\ world.creator[t] = x
      /\ none \notin Message
  BY MessagesOfType, MessageAssumption
<1>2. \A c \in Comment : c \in Message /\ world.replyOf[c] \in Message \cup {none}
  BY WorldType
<1>3. H \in SUBSET Comment /\ Own \in SUBSET Comment /\ R \in SUBSET Comment
  BY DEF Heard, RepliesBy, CommentsOf
<1>4. Heard(T, v) = (H \cup Own) \cup R
  BY <1>1, <1>2 DEF Heard, RepliesBy, CommentsOf, Answers
<1>5. H \cap Own = {}
  BY <1>1 DEF Heard
<1>6. (H \cup Own) \cap R = {}
  BY <1>1 DEF Heard, RepliesBy, CommentsOf
<1>7. Worth(Own) = IF m \in Comment /\ Answers(m, v) THEN Gain(m) ELSE 0
  BY WorthOne, WorthType, {} \in SUBSET Comment
<1>8. Worth(R) = (IF m \in Post THEN 2 ELSE 1) * Cardinality(R)
  BY WorthReplies
<1> HIDE DEF H, Own, R
<1>9. Worth(H \cup Own) = Worth(H) + Worth(Own)
  BY <1>3, <1>5, WorthUnion
<1>10. Worth((H \cup Own) \cup R) = Worth(H \cup Own) + Worth(R)
  <2>1. H \cup Own \in SUBSET Comment
    BY <1>3
  <2>2. QED
    BY <2>1, <1>3, <1>6, WorthUnion
<1>11. Worth(H) \in Nat /\ Worth(Own) \in Nat /\ Worth(R) \in Nat
  BY <1>3, WorthType
<1>12. MessageGain(m, v) = Worth(Own) + Worth(R)
  BY <1>7, <1>8 DEF MessageGain, R
<1>13. Learnt(T, v) = Worth((H \cup Own) \cup R)
  BY <1>4 DEF Learnt
<1>14. Learnt(T \ {m}, v) = Worth(H)
  BY DEF Learnt, H
<1>15. QED
  BY <1>9, <1>10, <1>11, <1>12, <1>13, <1>14

(* Nothing is learnt before the first message, and the messages of one of   *)
(* them tell all the two exchanged.                                         *)
LEMMA LearntEnds ==
  ASSUME world \in Worlds, NEW x \in Person, NEW v \in Person, x # v
  PROVE  Learnt({}, v) = 0 /\ Learnt(MessagesOf(x), v) = Weight(x, v)
<1>1. Heard({}, v) = {}
  BY DEF Heard
<1>2. Learnt({}, v) = 0
  BY <1>1, WorthType, {} \in SUBSET Comment DEF Learnt
<1>3. \A a, b : {a, b} = {x, v} <=> ((a = x /\ b = v) \/ (a = v /\ b = x))
  BY PairEnds
<1>4. \A c \in Comment : world.replyOf[c] # none =>
        /\ c \in Message /\ world.replyOf[c] \in Message
        /\ world.creator[c] \in Person
        /\ world.creator[world.replyOf[c]] \in Person
  BY WorldType
<1>5. Heard(MessagesOf(x), v) = Exchanged(x, v)
  BY <1>3, <1>4 DEF Heard, Exchanged, MessagesOf
<1>6. QED
  BY <1>2, <1>5, WeightIsWorth DEF Learnt

LEMMA LearntType ==
  ASSUME NEW T, NEW v
  PROVE  Learnt(T, v) \in Nat
<1>1. Heard(T, v) \in SUBSET Comment
  BY DEF Heard
<1>2. QED
  BY <1>1, WorthType DEF Learnt

(* The messages of either of the two give the weight.                       *)
LEMMA PairScoreOneIsWeight ==
  ASSUME world \in Worlds, NEW r \in Person, NEW other \in Person, r # other
  PROVE  PairScoreOne(r, other) = Weight(r, other)
<1>1. ASSUME NEW u \in Person, NEW v \in Person, u # v
      PROVE  SumFunction([m \in MessagesOf(u) |-> MessageGain(m, v)]) = Weight(u, v)
  <2> DEFINE S == MessagesOf(u)
             f == [m \in S |-> MessageGain(m, v)]
             h == [T \in SUBSET S |-> Learnt(T, v)]
  <2>1. IsFiniteSet(S)
    BY MessagesOfType
  <2>2. h[{}] = 0 /\ h[S] = Weight(u, v)
    BY <1>1, LearntEnds
  <2>3. ASSUME NEW T \in SUBSET S, NEW m \in T
        PROVE  h[T] = f[m] + h[T \ {m}]
    <3>1. Learnt(T, v) = MessageGain(m, v) + Learnt(T \ {m}, v)
      BY <1>1, LearntGrows
    <3>2. QED
      BY <3>1
  <2>4. DOMAIN f = S /\ h \in [SUBSET S -> Nat]
    BY LearntType
  <2> HIDE DEF S, f, h
  <2>5. GrowsBy(S, f, h)
    BY <2>2, <2>3, <2>4 DEF GrowsBy
  <2>6. SumFunction(f) = h[S]
    BY <2>1, <2>5, SumOf
  <2>7. QED
    BY <2>2, <2>6 DEF f, S
<1>2. SumFunction([m \in MessagesOf(r) |-> MessageGain(m, other)]) = Weight(r, other)
  BY <1>1
<1>3. SumFunction([m \in MessagesOf(other) |-> MessageGain(m, r)]) = Weight(other, r)
  BY <1>1
<1>4. QED
  BY <1>2, <1>3, WeightSymmetric DEF PairScoreOne

(* So do the comments of both.                                              *)
LEMMA PairScoreIsWeight ==
  ASSUME world \in Worlds, NEW x \in Person, NEW y \in Person, x # y
  PROVE  PairScore(x, y) = Weight(x, y)
<1> DEFINE A(u, v) == {c \in CommentsOf(u) : Answers(c, v)}
<1>1. ASSUME NEW u \in Person, NEW v \in Person
      PROVE  AnswersTo(u, v) = Worth(A(u, v))
  <2> DEFINE S == A(u, v)
             f == [c \in S |-> Gain(c)]
             h == [C \in SUBSET S |-> Worth(C)]
  <2>1. S \in SUBSET Comment
    BY DEF CommentsOf
  <2>2. IsFiniteSet(S)
    BY <2>1, FiniteComments
  <2>3. h[{}] = 0
    BY WorthType, {} \in SUBSET Comment
  <2>4. ASSUME NEW C \in SUBSET S, NEW m \in C
        PROVE  h[C] = f[m] + h[C \ {m}]
    <3>1. C \ {m} \in SUBSET Comment /\ {m} \in SUBSET Comment /\ m \in Comment
      BY <2>1
    <3>2. Worth((C \ {m}) \cup {m}) = Worth(C \ {m}) + Worth({m})
      BY <3>1, WorthUnion
    <3>3. Worth({m}) = Gain(m) /\ Worth({m}) \in Nat /\ Worth(C \ {m}) \in Nat
      BY <3>1, WorthOne, WorthType
    <3>4. (C \ {m}) \cup {m} = C /\ C \ {m} \in SUBSET S /\ m \in S
      OBVIOUS
    <3> HIDE DEF S
    <3>5. QED
      BY <3>2, <3>3, <3>4
  <2>5. DOMAIN f = S /\ h \in [SUBSET S -> Nat]
    BY <2>1, WorthType
  <2>6. AnswersTo(u, v) = SumFunction(f)
    BY DEF AnswersTo
  <2>7. h[S] = Worth(S)
    OBVIOUS
  <2> HIDE DEF S, f, h
  <2>8. GrowsBy(S, f, h)
    BY <2>3, <2>4, <2>5 DEF GrowsBy
  <2>9. SumFunction(f) = h[S]
    BY <2>2, <2>8, SumOf
  <2>10. QED
    BY <2>6, <2>7, <2>9 DEF S
<1>2. A(x, y) \in SUBSET Comment /\ A(y, x) \in SUBSET Comment
  BY DEF CommentsOf
<1>3. A(x, y) \cap A(y, x) = {}
  BY DEF CommentsOf
<1>4. \A a, b : {a, b} = {x, y} <=> ((a = x /\ b = y) \/ (a = y /\ b = x))
  BY PairEnds
<1>5. \A c \in Comment : world.replyOf[c] # none =>
        /\ c \in Message /\ world.replyOf[c] \in Message
        /\ world.creator[c] \in Person
        /\ world.creator[world.replyOf[c]] \in Person
  BY WorldType
<1>6. A(x, y) \cup A(y, x) = Exchanged(x, y)
  BY <1>4, <1>5 DEF Exchanged, CommentsOf, Answers
<1>7. AnswersTo(x, y) = Worth(A(x, y)) /\ AnswersTo(y, x) = Worth(A(y, x))
  BY <1>1
<1> HIDE DEF A
<1>8. Worth(A(x, y) \cup A(y, x)) = Worth(A(x, y)) + Worth(A(y, x))
  BY <1>2, <1>3, WorthUnion
<1>9. QED
  BY <1>6, <1>7, <1>8, WeightIsWorth DEF PairScore

------------------------------------------------------------------------------
(****************************************************************************)
(* The inductive invariant.                                                 *)
(****************************************************************************)

(* Nothing is scored before the pairs are built.                            *)
Fresh == pc = "start" => pairs = NoPairs /\ cache = << >>

(* The counters are shared by the rounds.  Between two rounds they are all  *)
(* at 0; in the round of root the counter of a neighbour holds the mark and *)
(* what the messages read so far tell of the two, and every other counter   *)
(* is still at 0, however often that person occurs in the messages.         *)
Counting ==
  IF pc = "accumulate"
  THEN /\ root \in Person
       /\ todo \subseteq MessagesOf(root)
       /\ \A v \in Person :
            counts[v] = IF v \in pairs[root]
                        THEN 1 + Learnt(MessagesOf(root) \ todo, v) ELSE 0
  ELSE counts = Zero

IInv ==
  /\ TypeOK
  /\ Fresh
  /\ Counting
  /\ PendingOrCached
  /\ CacheIsWeight
  /\ ScoresAreWeights

(* A step of a path joins two persons, never one with himself.              *)
LEMMA StepsArePairs ==
  ASSUME world \in Worlds
  PROVE  /\ \A p \in world.paths : \A i \in 1..(Len(p) - 1) :
              /\ p[i] \in Person /\ p[i+1] \in Person /\ p[i] # p[i+1]
              /\ {p[i], p[i+1]} \in PathPairs
         /\ \A x : {x, x} \notin PathPairs
<1>1. ASSUME NEW p \in world.paths, NEW i \in 1..(Len(p) - 1)
      PROVE  /\ p[i] \in Person /\ p[i+1] \in Person /\ p[i] # p[i+1]
             /\ {p[i], p[i+1]} \in PathPairs
  <2>1. p \in Path
    BY WorldType
  <2>2. p \in Seq(Person) /\ Len(p) \in Nat /\ p[i] # p[i+1]
    BY <2>1 DEF Path
  <2>3. i \in 1..Len(p) /\ i+1 \in 1..Len(p)
    BY <2>2
  <2>4. p[i] \in Person /\ p[i+1] \in Person
    BY <2>2, <2>3
  <2>5. {p[i], p[i+1]} \in StepsOf(p)
    BY DEF StepsOf
  <2>6. QED
    BY <2>2, <2>4, <2>5 DEF PathPairs
<1>2. ASSUME NEW x, {x, x} \in PathPairs PROVE FALSE
  <2>1. PICK p \in world.paths : {x, x} \in StepsOf(p)
    BY <1>2 DEF PathPairs
  <2>2. PICK i \in 1..(Len(p) - 1) : {x, x} = {p[i], p[i+1]}
    BY <2>1 DEF StepsOf
  <2>3. p[i] \in {x, x} /\ p[i+1] \in {x, x}
    BY <2>2
  <2>4. QED
    BY <1>1, <2>3
<1>3. QED
  BY <1>1, <1>2

(* Two persons make a pair.                                                 *)
LEMMA TwoMakeAPair ==
  ASSUME NEW x \in Person, NEW y \in Person, x # y
  PROVE  {x, y} \in Pair
<1>1. IsFiniteSet({x}) /\ Cardinality({x}) = 1
  BY FS_Singleton
<1>2. Cardinality({x} \cup {y}) = 2
  BY <1>1, FS_AddElement
<1>3. {x} \cup {y} = {x, y}
  OBVIOUS
<1>4. QED
  BY <1>2, <1>3 DEF Pair

(* The scores of new pairs are entered, and those there are stay.           *)
LEMMA CacheGrows ==
  ASSUME \A p \in DOMAIN cache : cache[p] \in Nat,
         NEW r \in Person, NEW gain,
         \A v \in DOMAIN gain : gain[v] \in Nat /\ {r, v} \notin DOMAIN cache,
         AddToCache(r, gain)
  PROVE  /\ DOMAIN cache' = DOMAIN cache \cup {{r, v} : v \in DOMAIN gain}
         /\ \A p \in DOMAIN cache : cache'[p] = cache[p]
         /\ \A v \in DOMAIN gain : cache'[{r, v}] = gain[v]
<1>1. DOMAIN cache' = DOMAIN cache \cup {{r, v} : v \in DOMAIN gain}
  BY DEF AddToCache
<1>2. ASSUME NEW p \in DOMAIN cache PROVE cache'[p] = cache[p]
  <2>1. ~ \E v \in DOMAIN gain : p = {r, v}
    OBVIOUS
  <2>2. cache'[p] = cache[p] + 0
    BY <2>1 DEF AddToCache
  <2>3. QED
    BY <2>2
<1>3. ASSUME NEW v \in DOMAIN gain PROVE cache'[{r, v}] = gain[v]
  <2> DEFINE w == CHOOSE x \in DOMAIN gain : {r, v} = {r, x}
  <2>1. w \in DOMAIN gain /\ {r, v} = {r, w}
    OBVIOUS
  <2>2. cache'[{r, v}] = 0 + gain[w]
    BY DEF AddToCache
  <2> HIDE DEF w
  <2>3. w = v
    BY <2>1, PairEnds
  <2>4. QED
    BY <2>2, <2>3
<1>4. QED
  BY <1>1, <1>2, <1>3

(* A path weighs the same under scores that agree on its steps.             *)
LEMMA SameWeight ==
  ASSUME NEW p, NEW f, NEW g,
         \A i \in 1..(Len(p) - 1) : f[<<p[i], p[i+1]>>] = g[<<p[i], p[i+1]>>]
  PROVE  PathWeight(p, f) = PathWeight(p, g)
<1>1. [i \in 1..(Len(p) - 1) |-> f[<<p[i], p[i+1]>>]]
        = [i \in 1..(Len(p) - 1) |-> g[<<p[i], p[i+1]>>]]
  OBVIOUS
<1>2. QED
  BY <1>1 DEF PathWeight

------------------------------------------------------------------------------
(****************************************************************************)
(* The steps.                                                               *)
(****************************************************************************)

(* The definitions that look at the world alone do not change.              *)
LEMMA SameWorld ==
  ASSUME world' = world
  PROVE  /\ PathPairs' = PathPairs
         /\ \A x, y : Weight(x, y)' = Weight(x, y)
         /\ \A x : MessagesOf(x)' = MessagesOf(x)
         /\ \A T, v : Learnt(T, v)' = Learnt(T, v)
BY DEF PathPairs, Weight, Exchanged, MessagesOf, Learnt, Worth, OnPost, Heard

(* At the end of a round the pairs of r go from the map to the cache, with  *)
(* their weights.                                                           *)
LEMMA RoundOver ==
  ASSUME IInv, NEW r \in Person, pc \in {"pick", "accumulate"},
         AddToCache(r, [v \in pairs[r] |-> Weight(r, v)]),
         DropPairs(r), world' = world
  PROVE  /\ pairs' \in [Person -> SUBSET Person]
         /\ DOMAIN cache' \subseteq Pair
         /\ \A p \in DOMAIN cache' : cache'[p] \in Nat
         /\ PendingOrCached'
         /\ CacheIsWeight'
<1> DEFINE gain == [v \in pairs[r] |-> Weight(r, v)]
<1>1. /\ world \in Worlds
      /\ pairs \in [Person -> SUBSET Person]
      /\ DOMAIN cache \subseteq Pair
      /\ \A p \in DOMAIN cache : cache[p] \in Nat
  BY DEF IInv, TypeOK
<1>2. \A x, y \in Person :
        /\ y \in pairs[x] => x \in pairs[y]
        /\ {x, y} \in PathPairs <=> (y \in pairs[x] \/ {x, y} \in DOMAIN cache)
        /\ ~ (y \in pairs[x] /\ {x, y} \in DOMAIN cache)
  BY DEF IInv, PendingOrCached
<1>3. pairs[r] \subseteq Person /\ r \notin pairs[r]
  BY <1>1, <1>2, StepsArePairs
<1>4. \A v \in pairs[r] : Weight(r, v) \in Nat /\ {r, v} \notin DOMAIN cache
  BY <1>2, <1>3, WeightIsWorth
<1>5. /\ DOMAIN cache' = DOMAIN cache \cup {{r, v} : v \in pairs[r]}
      /\ \A p \in DOMAIN cache : cache'[p] = cache[p]
      /\ \A v \in pairs[r] : cache'[{r, v}] = Weight(r, v)
  <2>1. DOMAIN gain = pairs[r] /\ \A v \in pairs[r] : gain[v] = Weight(r, v)
    OBVIOUS
  <2>2. AddToCache(r, gain)
    OBVIOUS
  <2> HIDE DEF gain
  <2>3. \A v \in DOMAIN gain : gain[v] \in Nat /\ {r, v} \notin DOMAIN cache
    BY <2>1, <1>4
  <2>4. /\ DOMAIN cache' = DOMAIN cache \cup {{r, v} : v \in DOMAIN gain}
        /\ \A p \in DOMAIN cache : cache'[p] = cache[p]
        /\ \A v \in DOMAIN gain : cache'[{r, v}] = gain[v]
    BY <1>1, <2>2, <2>3, CacheGrows
  <2>5. QED
    BY <2>1, <2>4
<1>6. /\ pairs' \in [Person -> SUBSET Person]
      /\ \A x, y \in Person : y \in pairs'[x] <=> (x # r /\ y # r /\ y \in pairs[x])
  BY <1>1 DEF DropPairs
<1>7. DOMAIN cache' \subseteq Pair
  BY <1>1, <1>3, <1>5, TwoMakeAPair
<1>8. \A p \in DOMAIN cache' : cache'[p] \in Nat
  BY <1>1, <1>4, <1>5
<1>9. \A x, y \in Person :
        {x, y} \in DOMAIN cache' <=>
          \/ {x, y} \in DOMAIN cache
          \/ x = r /\ y \in pairs[r]
          \/ y = r /\ x \in pairs[r]
  BY <1>5, PairEnds
<1>10. PendingOrCached'
  <2>1. ASSUME NEW x \in Person, NEW y \in Person
        PROVE  /\ y \in pairs'[x] => x \in pairs'[y]
               /\ {x, y} \in PathPairs <=> (y \in pairs'[x] \/ {x, y} \in DOMAIN cache')
               /\ ~ (y \in pairs'[x] /\ {x, y} \in DOMAIN cache')
    BY <1>2, <1>6, <1>9
  <2>2. PathPairs' = PathPairs
    BY SameWorld
  <2>3. QED
    BY <2>1, <2>2 DEF PendingOrCached
<1>11. CacheIsWeight'
  <2>1. ASSUME NEW x \in Person, NEW y \in Person, {x, y} \in DOMAIN cache'
        PROVE  cache'[{x, y}] = Weight(x, y)
    <3>1. CASE {x, y} \in DOMAIN cache
      <4>1. cache[{x, y}] = Weight(x, y)
        BY <3>1 DEF IInv, CacheIsWeight
      <4>2. QED
        BY <4>1, <3>1, <1>5
    <3>2. CASE x = r /\ y \in pairs[r]
      BY <3>2, <1>5
    <3>3. CASE y = r /\ x \in pairs[r]
      <4>1. {x, y} = {r, x}
        BY <3>3
      <4>2. cache'[{x, y}] = Weight(y, x)
        BY <4>1, <3>3, <1>5
      <4>3. QED
        BY <4>2, WeightSymmetric
    <3>4. QED
      BY <2>1, <1>9, <3>1, <3>2, <3>3
  <2>2. QED
    BY <2>1, SameWorld DEF CacheIsWeight
<1>12. QED
  BY <1>6, <1>7, <1>8, <1>10, <1>11

(* Nothing is scored, and no pair is known.                                 *)
LEMMA InitIInv ==
  ASSUME Init
  PROVE  IInv
<1>1. DOMAIN cache = {} /\ DOMAIN scores = {}
  BY DEF Init
<1>2. TypeOK
  BY <1>1 DEF Init, TypeOK, NoPairs, Zero
<1>3. Fresh /\ Counting
  BY DEF Init, Fresh, Counting
<1>4. PendingOrCached /\ ScoresAreWeights
  BY DEF Init, PendingOrCached, ScoresAreWeights
<1>5. CacheIsWeight
  BY <1>1 DEF CacheIsWeight
<1>6. QED
  BY <1>2, <1>3, <1>4, <1>5 DEF IInv

(* A single path is scored by the comments of both ends of its steps.       *)
LEMMA SinglePathStep ==
  ASSUME IInv, SinglePath
  PROVE  IInv'
<1> DEFINE score == [e \in Person \X Person |-> PairScore(e[1], e[2])]
           weight == [e \in Person \X Person |-> Weight(e[1], e[2])]
<1>1. world \in Worlds
  BY DEF IInv, TypeOK
<1>2. scores' = [p \in world.paths |-> PathWeight(p, score)]
  BY DEF SinglePath
<1>3. \A p \in world.paths : PathWeight(p, score) = PathWeight(p, weight)
  <2>1. SUFFICES ASSUME NEW p \in world.paths
                 PROVE  PathWeight(p, score) = PathWeight(p, weight)
    OBVIOUS
  <2>2. ASSUME NEW i \in 1..(Len(p) - 1)
        PROVE  score[<<p[i], p[i+1]>>] = weight[<<p[i], p[i+1]>>]
    <3>1. p[i] \in Person /\ p[i+1] \in Person /\ p[i] # p[i+1]
      BY <1>1, StepsArePairs
    <3>2. PairScore(p[i], p[i+1]) = Weight(p[i], p[i+1])
      BY <1>1, <3>1, PairScoreIsWeight
    <3>3. QED
      BY <3>1, <3>2
  <2> HIDE DEF score, weight
  <2>3. QED
    BY <2>2, SameWeight
<1>4. ScoresAreWeights'
  <2>1. weight' = weight
    BY SameWorld DEF SinglePath
  <2>2. scores' = [p \in world.paths |-> PathWeight(p, weight)]
    BY <1>2, <1>3
  <2>3. scores' = [p \in world'.paths |-> PathWeight(p, weight')]
    BY <2>1, <2>2 DEF SinglePath
  <2>4. QED
    BY <2>3 DEF ScoresAreWeights, PathWeight
<1>5. TypeOK'
  BY <1>2 DEF IInv, TypeOK, SinglePath
<1>6. Fresh' /\ PendingOrCached' /\ Counting'
  BY DEF SinglePath, IInv, Fresh, PendingOrCached, Counting, Zero
<1>7. CacheIsWeight'
  BY SameWorld DEF SinglePath, IInv, CacheIsWeight
<1>8. QED
  BY <1>4, <1>5, <1>6, <1>7 DEF IInv

(* Several paths: every pair of theirs waits at both of its ends.           *)
LEMMA BuildPairsStep ==
  ASSUME IInv, BuildPairs
  PROVE  IInv'
<1>1. /\ world' = world /\ cache' = cache /\ scores' = scores /\ counts' = counts
      /\ pairs' = [v \in Person |-> {w \in Person : {v, w} \in PathPairs}]
      /\ pc = "start" /\ pc' = "pick" /\ root' = root /\ todo' = todo
  BY DEF BuildPairs
<1>2. DOMAIN cache = {}
  BY <1>1 DEF IInv, Fresh
<1>3. TypeOK'
  BY <1>1 DEF IInv, TypeOK
<1>4. PendingOrCached'
  <2>1. \A x, y : {x, y} = {y, x}
    OBVIOUS
  <2>2. PathPairs' = PathPairs
    BY <1>1, SameWorld
  <2>3. QED
    BY <1>1, <1>2, <2>1, <2>2 DEF PendingOrCached
<1>5. CacheIsWeight'
  BY <1>1, <1>2 DEF CacheIsWeight
<1>6. Fresh' /\ Counting' /\ ScoresAreWeights'
  BY <1>1 DEF IInv, Fresh, Counting, ScoresAreWeights, Zero
<1>7. QED
  BY <1>3, <1>4, <1>5, <1>6 DEF IInv

(* A person with one pair: the messages of one of the two are read.         *)
LEMMA ScoreOnePairStep ==
  ASSUME IInv, NEW r \in Person, ScoreOnePair(r)
  PROVE  IInv'
<1>1. /\ world' = world /\ scores' = scores /\ counts' = counts
      /\ pc = "pick" /\ pc' = pc /\ root' = root /\ todo' = todo
      /\ AddToCache(r, [v \in pairs[r] |-> PairScoreOne(r, v)])
      /\ DropPairs(r)
  BY DEF ScoreOnePair
<1>2. world \in Worlds /\ pairs[r] \in SUBSET Person
  BY DEF IInv, TypeOK
<1>3. r \notin pairs[r]
  BY <1>1, <1>2, StepsArePairs DEF IInv, PendingOrCached
<1>4. [v \in pairs[r] |-> PairScoreOne(r, v)] = [v \in pairs[r] |-> Weight(r, v)]
  BY <1>2, <1>3, PairScoreOneIsWeight
<1>5. /\ pairs' \in [Person -> SUBSET Person]
      /\ DOMAIN cache' \subseteq Pair
      /\ \A p \in DOMAIN cache' : cache'[p] \in Nat
      /\ PendingOrCached'
      /\ CacheIsWeight'
  BY <1>1, <1>4, RoundOver
<1>6. TypeOK'
  BY <1>1, <1>5 DEF IInv, TypeOK
<1>7. Fresh' /\ Counting' /\ ScoresAreWeights'
  BY <1>1 DEF IInv, Fresh, Counting, ScoresAreWeights, Zero
<1>8. QED
  BY <1>5, <1>6, <1>7 DEF IInv

(* The counters of the neighbours are marked, and all others are at 0.      *)
LEMMA StartRootStep ==
  ASSUME IInv, NEW r \in Person, StartRoot(r)
  PROVE  IInv'
<1>1. /\ world' = world /\ scores' = scores /\ cache' = cache /\ pairs' = pairs
      /\ pc = "pick" /\ pc' = "accumulate" /\ root' = r /\ todo' = MessagesOf(r)
      /\ counts' = [v \in Person |-> IF v \in pairs[r] THEN 1 ELSE counts[v]]
  BY DEF StartRoot
<1>2. world \in Worlds /\ pairs[r] \in SUBSET Person
  BY DEF IInv, TypeOK
<1>3. r \notin pairs[r]
  BY <1>1, <1>2, StepsArePairs DEF IInv, PendingOrCached
<1>4. \A v \in Person : counts[v] = 0
  BY <1>1 DEF IInv, Counting, Zero
<1>5. TypeOK'
  <2>1. counts' \in [Person -> Nat]
    BY <1>1, <1>4
  <2>2. todo' \subseteq Message
    BY <1>1 DEF MessagesOf
  <2>3. QED
    BY <1>1, <2>1, <2>2 DEF IInv, TypeOK
<1>6. Counting'
  <2>1. todo' \subseteq MessagesOf(root)' /\ (MessagesOf(root) \ todo)' = {}
    BY <1>1 DEF MessagesOf
  <2>2. ASSUME NEW v \in Person
        PROVE  counts'[v] = IF v \in pairs[r] THEN 1 + Learnt({}, v) ELSE 0
    <3>1. v \in pairs[r] => Learnt({}, v) = 0
      BY <1>2, <1>3, LearntEnds
    <3>2. QED
      BY <3>1, <1>1, <1>4
  <2>3. \A v : Learnt({}, v)' = Learnt({}, v)
    BY <1>1, SameWorld
  <2>4. ASSUME NEW v \in Person
        PROVE  counts'[v] = IF v \in pairs'[root']
                            THEN 1 + Learnt(MessagesOf(root) \ todo, v)' ELSE 0
    <3>1. Learnt(MessagesOf(root) \ todo, v)' = Learnt({}, v)'
      BY <2>1 DEF Learnt, Heard, Worth, OnPost
    <3>2. QED
      BY <1>1, <2>2, <2>3, <3>1
  <2>5. QED
    BY <1>1, <2>1, <2>4 DEF Counting
<1>7. Fresh' /\ ScoresAreWeights'
  BY <1>1 DEF Fresh, ScoresAreWeights
<1>8. PendingOrCached' /\ CacheIsWeight'
  BY <1>1, SameWorld DEF IInv, PendingOrCached, CacheIsWeight
<1>9. QED
  BY <1>5, <1>6, <1>7, <1>8 DEF IInv

(* A message of the root is read: the counters that are marked learn it.    *)
LEMMA AccumulateStep ==
  ASSUME IInv, NEW m \in Message, Accumulate(m)
  PROVE  IInv'
<1>1. /\ world' = world /\ scores' = scores /\ cache' = cache /\ pairs' = pairs
      /\ pc = "accumulate" /\ pc' = pc /\ root' = root
      /\ m \in todo /\ todo' = todo \ {m}
      /\ counts' = [v \in Person |->
                      IF counts[v] # 0 THEN counts[v] + MessageGain(m, v) ELSE 0]
  BY DEF Accumulate
<1>2. /\ world \in Worlds /\ pairs \in [Person -> SUBSET Person]
      /\ root \in Person /\ todo \subseteq MessagesOf(root)
      /\ \A v \in Person :
           counts[v] = IF v \in pairs[root]
                       THEN 1 + Learnt(MessagesOf(root) \ todo, v) ELSE 0
  BY <1>1 DEF IInv, TypeOK, Counting
<1>3. root \notin pairs[root]
  BY <1>1, <1>2, StepsArePairs DEF IInv, PendingOrCached
<1>4. ASSUME NEW v \in Person
      PROVE  counts'[v] = IF v \in pairs[root]
                          THEN 1 + Learnt(MessagesOf(root) \ (todo \ {m}), v) ELSE 0
  <2> DEFINE T == MessagesOf(root) \ (todo \ {m})
  <2>1. CASE v \in pairs[root]
    <3>1. T \in SUBSET MessagesOf(root) /\ m \in T /\ T \ {m} = MessagesOf(root) \ todo
      BY <1>1, <1>2
    <3>2. Learnt(T, v) = MessageGain(m, v) + Learnt(T \ {m}, v)
      BY <3>1, <1>2, <1>3, <2>1, LearntGrows
    <3>3. Learnt(T \ {m}, v) \in Nat /\ Learnt(T, v) \in Nat
      BY LearntType
    <3>4. counts[v] = 1 + Learnt(T \ {m}, v)
      BY <2>1, <3>1, <1>2
    <3> HIDE DEF T
    <3>5. counts'[v] = counts[v] + MessageGain(m, v)
      BY <1>1, <3>3, <3>4
    <3>6. MessageGain(m, v) = Learnt(T, v) - Learnt(T \ {m}, v)
      <4>1. MessageGain(m, v) \in Int
        <5>1. RepliesBy(v, m) \in SUBSET Comment
          BY DEF RepliesBy, CommentsOf
        <5>2. Cardinality(RepliesBy(v, m)) \in Nat
          BY <5>1, FiniteComments
        <5> DEFINE a == IF m \in Comment /\ Answers(m, v) THEN Gain(m) ELSE 0
                   b == IF m \in Post THEN 2 ELSE 1
        <5>3. a \in Nat /\ b \in Nat
          BY DEF Gain
        <5>4. MessageGain(m, v) = a + b * Cardinality(RepliesBy(v, m))
          BY DEF MessageGain
        <5> HIDE DEF a, b
        <5>5. QED
          BY <5>2, <5>3, <5>4
      <4>2. QED
        BY <3>2, <3>3, <4>1
    <3>7. QED
      BY <2>1, <3>3, <3>4, <3>5, <3>6 DEF T
  <2>2. CASE v \notin pairs[root]
    BY <2>2, <1>1, <1>2
  <2>3. QED
    BY <2>1, <2>2
<1>5. Counting'
  <2>1. MessagesOf(root)' = MessagesOf(root)
    BY <1>1 DEF MessagesOf
  <2>2. \A v \in Person : Learnt(MessagesOf(root) \ todo, v)'
                            = Learnt(MessagesOf(root) \ (todo \ {m}), v)
    BY <1>1, <2>1 DEF Learnt, Heard, Worth, OnPost
  <2>3. QED
    BY <1>1, <1>2, <1>4, <2>1, <2>2 DEF Counting
<1>6. TypeOK'
  <2>1. ASSUME NEW v \in Person PROVE counts'[v] \in Nat
    BY <1>4, LearntType
  <2>2. counts' \in [Person -> Nat]
    BY <1>1, <2>1
  <2>3. QED
    BY <1>1, <2>2 DEF IInv, TypeOK
<1>7. Fresh' /\ ScoresAreWeights'
  BY <1>1 DEF Fresh, ScoresAreWeights
<1>8. PendingOrCached' /\ CacheIsWeight'
  BY <1>1, SameWorld DEF IInv, PendingOrCached, CacheIsWeight
<1>9. QED
  BY <1>5, <1>6, <1>7, <1>8 DEF IInv

(* The round is over when all messages of the root are read: a counter less *)
(* its mark is a weight, and the counters are back at 0.                    *)
LEMMA HarvestStep ==
  ASSUME IInv, Harvest
  PROVE  IInv'
<1>1. /\ world' = world /\ scores' = scores
      /\ pc = "accumulate" /\ pc' = "pick" /\ root' = root /\ todo' = todo
      /\ todo = {}
      /\ AddToCache(root, [v \in pairs[root] |-> counts[v] - 1])
      /\ counts' = [v \in Person |-> IF v \in pairs[root] THEN 0 ELSE counts[v]]
      /\ DropPairs(root)
  BY DEF Harvest
<1>2. /\ world \in Worlds /\ root \in Person /\ pairs[root] \in SUBSET Person
      /\ \A v \in Person :
           counts[v] = IF v \in pairs[root]
                       THEN 1 + Learnt(MessagesOf(root) \ todo, v) ELSE 0
  BY <1>1 DEF IInv, TypeOK, Counting
<1>3. root \notin pairs[root]
  BY <1>1, <1>2, StepsArePairs DEF IInv, PendingOrCached
<1>4. MessagesOf(root) \ todo = MessagesOf(root)
  BY <1>1
<1>5. \A v \in pairs[root] : counts[v] - 1 = Weight(root, v)
  <2>1. SUFFICES ASSUME NEW v \in pairs[root] PROVE counts[v] - 1 = Weight(root, v)
    OBVIOUS
  <2>2. v \in Person /\ root # v
    BY <1>2, <1>3
  <2>3. counts[v] = 1 + Learnt(MessagesOf(root), v)
    BY <1>2, <1>4, <2>2
  <2>4. Learnt(MessagesOf(root), v) = Weight(root, v)
    BY <1>2, <2>2, LearntEnds
  <2>5. Weight(root, v) \in Nat
    BY <1>2, <2>2, WeightIsWorth
  <2>6. QED
    BY <2>3, <2>4, <2>5
<1>6. [v \in pairs[root] |-> counts[v] - 1] = [v \in pairs[root] |-> Weight(root, v)]
  BY <1>5
<1>7. /\ pairs' \in [Person -> SUBSET Person]
      /\ DOMAIN cache' \subseteq Pair
      /\ \A p \in DOMAIN cache' : cache'[p] \in Nat
      /\ PendingOrCached'
      /\ CacheIsWeight'
  BY <1>1, <1>2, <1>6, RoundOver
<1>8. counts' = Zero
  BY <1>1, <1>2 DEF Zero
<1>9. TypeOK'
  BY <1>1, <1>7, <1>8 DEF IInv, TypeOK, Zero
<1>10. Fresh' /\ Counting' /\ ScoresAreWeights'
  BY <1>1, <1>8 DEF Fresh, Counting, ScoresAreWeights, Zero
<1>11. QED
  BY <1>7, <1>9, <1>10 DEF IInv

(* With no pair left every step of a path is in the cache.                  *)
LEMMA SumPathsStep ==
  ASSUME IInv, SumPaths
  PROVE  IInv'
<1> DEFINE weight == [e \in Person \X Person |-> Weight(e[1], e[2])]
<1>1. /\ world' = world /\ cache' = cache /\ pairs' = pairs /\ counts' = counts
      /\ pc = "pick" /\ pc' = "done" /\ root' = root /\ todo' = todo
      /\ pairs = NoPairs
      /\ scores' = [p \in world.paths |-> PathWeight(p, Cached)]
  BY DEF SumPaths
<1>2. world \in Worlds
  BY DEF IInv, TypeOK
<1>3. \A p \in world.paths : PathWeight(p, Cached) = PathWeight(p, weight)
  <2>1. SUFFICES ASSUME NEW p \in world.paths
                 PROVE  PathWeight(p, Cached) = PathWeight(p, weight)
    OBVIOUS
  <2>2. ASSUME NEW i \in 1..(Len(p) - 1)
        PROVE  Cached[<<p[i], p[i+1]>>] = weight[<<p[i], p[i+1]>>]
    <3> DEFINE x == p[i]
               y == p[i+1]
    <3>1. x \in Person /\ y \in Person /\ {x, y} \in PathPairs
      BY <1>2, StepsArePairs
    <3> HIDE DEF x, y
    <3>2. y \notin pairs[x]
      BY <1>1, <3>1 DEF NoPairs
    <3>3. {x, y} \in DOMAIN cache
      BY <1>1, <3>1, <3>2 DEF IInv, PendingOrCached
    <3>4. cache[{x, y}] = Weight(x, y)
      BY <3>1, <3>3 DEF IInv, CacheIsWeight
    <3>5. Cached[<<x, y>>] = cache[{x, y}]
      BY <3>1, <3>3 DEF Cached
    <3>6. weight[<<x, y>>] = Weight(x, y)
      BY <3>1
    <3>7. QED
      BY <3>4, <3>5, <3>6 DEF x, y
  <2> HIDE DEF weight
  <2>3. QED
    BY <2>2, SameWeight
<1>4. ScoresAreWeights'
  <2>1. weight' = weight
    BY <1>1, SameWorld
  <2>2. scores' = [p \in world.paths |-> PathWeight(p, weight)]
    BY <1>1, <1>3
  <2>3. scores' = [p \in world'.paths |-> PathWeight(p, weight')]
    BY <1>1, <2>1, <2>2
  <2>4. QED
    BY <2>3 DEF ScoresAreWeights, PathWeight
<1>5. TypeOK'
  BY <1>1 DEF IInv, TypeOK
<1>6. Fresh' /\ Counting' /\ PendingOrCached'
  BY <1>1 DEF IInv, Fresh, Counting, PendingOrCached
<1>7. CacheIsWeight'
  BY <1>1, SameWorld DEF IInv, CacheIsWeight
<1>8. QED
  BY <1>4, <1>5, <1>6, <1>7 DEF IInv

(* Every step keeps the invariant.                                          *)
LEMMA NextIInv ==
  ASSUME IInv, [Next]_vars
  PROVE  IInv'
<1>1. CASE SinglePath
  BY <1>1, SinglePathStep
<1>2. CASE BuildPairs
  BY <1>2, BuildPairsStep
<1>3. ASSUME NEW r \in Person, ScoreOnePair(r) PROVE IInv'
  BY <1>3, ScoreOnePairStep
<1>4. ASSUME NEW r \in Person, StartRoot(r) PROVE IInv'
  BY <1>4, StartRootStep
<1>5. ASSUME NEW m \in Message, Accumulate(m) PROVE IInv'
  BY <1>5, AccumulateStep
<1>6. CASE Harvest
  BY <1>6, HarvestStep
<1>7. CASE SumPaths
  BY <1>7, SumPathsStep
<1>8. CASE UNCHANGED vars
  <2>1. TypeOK' /\ Fresh' /\ PendingOrCached'
    BY <1>8 DEF vars, IInv, TypeOK, Fresh, PendingOrCached, PathPairs
  <2>2. Counting'
    BY <1>8, SameWorld DEF vars, IInv, Counting, Learnt, Worth, OnPost, Heard, MessagesOf
  <2>3. CacheIsWeight'
    BY <1>8, SameWorld DEF vars, IInv, CacheIsWeight
  <2>4. ScoresAreWeights'
    <3> DEFINE weight == [e \in Person \X Person |-> Weight(e[1], e[2])]
    <3>1. weight' = weight
      BY <1>8, SameWorld DEF vars
    <3>2. pc = "done" => scores = [p \in world.paths |-> PathWeight(p, weight)]
      BY DEF IInv, ScoresAreWeights
    <3>3. pc' = "done" => scores' = [p \in world'.paths |-> PathWeight(p, weight')]
      BY <1>8, <3>1, <3>2 DEF vars
    <3>4. QED
      BY <3>3 DEF ScoresAreWeights, PathWeight
  <2>5. QED
    BY <2>1, <2>2, <2>3, <2>4 DEF IInv
<1>9. QED
  BY <1>1, <1>2, <1>3, <1>4, <1>5, <1>6, <1>7, <1>8 DEF Next

------------------------------------------------------------------------------
(* The invariant holds throughout a call.                                   *)
THEOREM Invariance == Spec => []IInv
<1>1. Init => IInv
  BY InitIInv
<1>2. IInv /\ [Next]_vars => IInv'
  BY NextIInv
<1>3. QED
  BY <1>1, <1>2, PTL DEF Spec

(* The variables have their types; above all the counters and the scores    *)
(* are natural numbers, so that a counter at 0 is never one that was        *)
(* counted, and taking the mark off leaves a number.                        *)
THEOREM TypeCorrect == Spec => []TypeOK
<1>1. IInv => TypeOK
  BY DEF IInv
<1>2. QED
  BY <1>1, Invariance, PTL

(* A pair is to be scored, at both of its ends, or it is in the cache: none *)
(* is scored twice, and no lookup of the last loop fails.                   *)
THEOREM PairsAccounted == Spec => []PendingOrCached
<1>1. IInv => PendingOrCached
  BY DEF IInv
<1>2. QED
  BY <1>1, Invariance, PTL

(* The cache holds the weights, whichever way a pair was scored and from    *)
(* whichever of its ends.                                                   *)
THEOREM CacheRight == Spec => []CacheIsWeight
<1>1. IInv => CacheIsWeight
  BY DEF IInv
<1>2. QED
  BY <1>1, Invariance, PTL

(* One path or many: every path is given the sum of its weights.            *)
THEOREM ScoresRight == Spec => []ScoresAreWeights
<1>1. IInv => ScoresAreWeights
  BY DEF IInv
<1>2. QED
  BY <1>1, Invariance, PTL
================================================================================
