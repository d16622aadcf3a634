-------------------------------- MODULE MCTopN --------------------------------
(* Instances of TopN for TLC.                                               *)
EXTENDS TopN

(* Rows with equal keys and with different ones, with equal and different   *)
(* identifiers (IC11: a person may work at two companies).                  *)
SevenRows == {<<1, 1, 1>>, <<1, 1, 2>>, <<1, 2, 1>>, <<1, 3, 1>>, <<2, 1, 1>>, <<2, 4, 1>>,
              <<3, 2, 1>>}

SoundQueries == {IC2, IC3, IC4, IC6, IC7, IC9, IC10, IC11, IC12}
(* Those whose comparer and admission test disagree.                        *)
TiedQueries == {IC8, IS2}
===============================================================================
