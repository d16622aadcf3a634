----------------------------- MODULE DistanceQuery -----------------------------
(****************************************************************************)
(* What CALL ic13(person1, person2) promises: one answer, the length of a   *)
(* shortest KNOWS path, or -1 when a person is unknown or no path exists.   *)
(****************************************************************************)
EXTENDS KnowsGraph

CONSTANTS Graphs,        \* the KNOWS relations the query may run on
          kInvalidVid    \* the vertex a failed lookup yields

NotFound == -1
Pending  == -2           \* the call has not returned

VARIABLES knows, src, dst, answer

vars == <<knows, src, dst, answer>>

Init ==
  /\ knows \in Graphs
  /\ src \in Person \cup {kInvalidVid}
  /\ dst \in Person \cup {kInvalidVid}
  /\ answer = Pending

IsAnswer(n) ==
  IF kInvalidVid \in {src, dst} \/ Separated(knows, src, dst)
  THEN n = NotFound
  ELSE IsDistance(knows, n, src, dst)

Answer ==
  /\ answer = Pending
  /\ answer' \in Nat \cup {NotFound}
  /\ IsAnswer(answer')
  /\ UNCHANGED <<knows, src, dst>>

Spec == Init /\ [][Answer]_vars
===============================================================================
