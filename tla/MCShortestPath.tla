---------------------------- MODULE MCShortestPath ----------------------------
(* Instances of ShortestPath for TLC.                                       *)
EXTENDS ShortestPath

FivePersons == 1..5

(* Every KNOWS relation on three of the persons, self loops and friendships *)
(* stored in both directions included, the two others being without friends;*)
(* and every set of friendships among the five, each stored once, from the  *)
(* smaller to the greater number, so that a search meets both outgoing and  *)
(* incoming edges.                                                          *)
AllOnThree == SUBSET ((1..3) \X (1..3))
SimpleOnFive == SUBSET {e \in FivePersons \X FivePersons : e[1] < e[2]}
SmallGraphs == AllOnThree \cup SimpleOnFive
===============================================================================
