------------------------------ MODULE KnowsGraph ------------------------------
(****************************************************************************)
(* The KNOWS relation the queries walk on.  The engine stores every edge    *)
(* once, with a direction; the extension always asks a vertex for its       *)
(* outgoing and for its incoming edges, so that KNOWS is used as an         *)
(* undirected relation.  A graph is a set of ordered pairs of persons; a    *)
(* parallel edge between the same two persons repeats a pair and never      *)
(* changes what a traversal does beyond visiting the neighbour again.       *)
(*                                                                          *)
(* The last part defines, without any algorithm, what "distance" means:     *)
(* these are the reference definitions the traversals are compared with.    *)
(****************************************************************************)
EXTENDS Integers, FiniteSets

CONSTANT Person          \* the vertices labelled PERSON

Graph == SUBSET (Person \X Person)

(****************************************************************************)
(* What CsrView::get_edges returns for a vertex of the outgoing and of the  *)
(* incoming view (the engine's storage, external to the extension).         *)
(****************************************************************************)
OutEdges(E, x) == {y \in Person : <<x, y>> \in E}

InEdges(E, x) == {y \in Person : <<y, x>> \in E}

Neighbours(E, x) == OutEdges(E, x) \cup InEdges(E, x)

(****************************************************************************)
(* A KNOWS relation as the LDBC data sets have it: nobody knows himself and *)
(* a friendship is stored in one direction only.                            *)
(****************************************************************************)
Simple(E) == \A e \in E : e[1] # e[2] /\ <<e[2], e[1]>> \notin E

------------------------------------------------------------------------------
(****************************************************************************)
(* Reference definitions.                                                   *)
(****************************************************************************)
Walks(E, n, x, y) ==
  {w \in [0..n -> Person] : /\ w[0] = x
                            /\ w[n] = y
                            /\ \A i \in 0..(n-1) : w[i+1] \in Neighbours(E, w[i])}

Connected(E, n, x, y) == Walks(E, n, x, y) # {}

IsDistance(E, n, x, y) ==
  /\ n \in Nat
  /\ Connected(E, n, x, y)
  /\ \A m \in 0..(n-1) : ~ Connected(E, m, x, y)

(* A set of persons that contains x, not y, and that no friendship leaves.  *)
Separated(E, x, y) ==
  \E C \in SUBSET Person : /\ x \in C
                           /\ y \notin C
                           /\ \A u \in C : Neighbours(E, u) \subseteq C
===============================================================================
