----------------------------- MODULE MCPathSearch -----------------------------
(* Instances of PathSearch for TLC.                                         *)
EXTENDS PathSearch

FivePersons == 1..5

(* As in MCShortestPath: every KNOWS relation on three of the persons, and  *)
(* every set of friendships among the five, each stored from the smaller to *)
(* the greater number.                                                      *)
AllOnThree == SUBSET ((1..3) \X (1..3))
SimpleOnFive == SUBSET {e \in FivePersons \X FivePersons : e[1] < e[2]}
SmallGraphs == AllOnThree \cup SimpleOnFive

(* Two pairs among all five and one among the three (the graphs on these    *)
(* are symmetric), the same person twice, an unknown person on either side. *)
SomePairs ==
  {<<2, 1>>, <<1, 5>>, <<2, 4>>, <<3, 3>>,
   <<kInvalidVid, 1>>, <<1, kInvalidVid>>}

(* A chain of 128 friendships, searched from one end to the other.          *)
ChainOfPersons == 1..129
Chain == {{<<i, i + 1>> : i \in 1..128}}
EndToEnd == {<<1, 129>>}
===============================================================================
