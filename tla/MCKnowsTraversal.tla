--------------------------- MODULE MCKnowsTraversal ---------------------------
(* Instances of KnowsTraversal for TLC.                                     *)
EXTENDS KnowsTraversal

(* Every KNOWS relation on three of the persons, self loops and friendships *)
(* stored in both directions included, and every set of friendships among   *)
(* four, each stored once: there somebody may be three steps away.          *)
FourPersons == 1..4
MixedGraphs ==
  SUBSET ((1..3) \X (1..3)) \cup SUBSET {e \in FourPersons \X FourPersons : e[1] < e[2]}
===============================================================================
