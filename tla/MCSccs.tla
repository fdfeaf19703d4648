------------------------------- MODULE MCSccs -------------------------------
(***************************************************************************)
(* Sccs on every graph over a small set of nodes whose adjacency lists     *)
(* have at most MaxDegree entries, in every order of the entries.          *)
(***************************************************************************)
EXTENDS Sccs, TLC

CONSTANT MaxDegree   \* longest adjacency list

Lists ==
  UNION {{s \in [1 .. k -> Node] :
            \A i, j \in 1 .. k : s[i] = s[j] => i = j} : k \in 0 .. MaxDegree}

MCGraphs == [Node -> Lists]

\* The nodes are interchangeable: nothing in the algorithm compares them.
Symmetry == Permutations(Node)
=============================================================================
