------------------------------ MODULE DepGraph ------------------------------
(***************************************************************************)
(* Reachability and strongly connected components of a finite digraph.     *)
(* A graph is a function from its nodes to the set of their successors.    *)
(* Reachability is stated by closed sets, not by a recursion over paths:   *)
(* y is reachable from x when every set of nodes that contains x and is    *)
(* closed under the edges contains y.  TLC enumerates the sets, and a      *)
(* proof picks the one it needs.                                           *)
(***************************************************************************)

\* No edge of G leaves S.
Closed(G, S) == \A x \in S : G[x] \subseteq S

Reach(G, x, y) ==
  \A S \in SUBSET DOMAIN G : x \in S /\ Closed(G, S) => y \in S

\* Everything that can be reached from some node of X.
ReachFrom(G, X) ==
  LET above == {S \in SUBSET DOMAIN G : X \subseteq S /\ Closed(G, S)}
  IN {y \in DOMAIN G : \A S \in above : y \in S}

Mutual(G, x, y) == Reach(G, x, y) /\ Reach(G, y, x)

\* The strongly connected component of x, and the components of G.
Component(G, x) == {y \in DOMAIN G : Mutual(G, x, y)}
Components(G) == {Component(G, x) : x \in DOMAIN G}
=============================================================================
