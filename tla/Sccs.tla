-------------------------------- MODULE Sccs --------------------------------
(***************************************************************************)
(* uv/private/graph/sccs.bzl: Kosaraju's algorithm written for Starlark,   *)
(* which has neither recursion nor while.  Each depth-first walk is a      *)
(* `for _ in range(bound)` that breaks when its stack is empty; if bound   *)
(* were too small the walk would be cut short in silence and nodes lost.   *)
(* One action is one iteration of a loop of the source.                    *)
(*                                                                         *)
(* Abstractions: the keys of the dict come in any order, so the outer loop *)
(* takes any unvisited node; the second walk only ever builds a sorted     *)
(* component, so its stack is a set from which any node may be popped.     *)
(***************************************************************************)
EXTENDS Naturals, Sequences, FiniteSets, DepGraph

CONSTANTS
  Node,    \* the keys of the graph
  Graphs   \* the adjacency lists it may be given

ASSUME NodeAssumption == IsFiniteSet(Node)
ASSUME GraphsAssumption == \A g \in Graphs : g \in [Node -> Seq(Node)]

VARIABLES
  pc,         \* which loop runs: "roots", "walk", "starts", "collect", "done"
  graph,      \* the argument
  visited,    \* first pass: 0 unvisited, 1 on the stack, 2 finished
  stack,      \* first pass: frames of a node and the cursor into its list
  iter,       \* iterations the running `for _ in range(bound)` has made
  order,      \* nodes in the order they finished
  left,       \* second pass: entries of order still to look at, from the end
  seen,       \* second pass: the nodes visited
  frontier,   \* second pass: the nodes on the stack
  component,  \* second pass: the component being collected
  sccs        \* the result

pass1 == <<visited, stack, order>>
pass2 == <<left, seen, frontier, component, sccs>>
vars == <<pc, graph, visited, stack, iter, order, left, seen, frontier,
          component, sccs>>

\* Wrong variants of the definitions, one beside each definition a property
\* depends on, have names that end in "Wrong"; no specification uses them.
boundWrong == IF Node = {} THEN 1 ELSE Cardinality(Node)

bound == IF Node = {} THEN 1 ELSE Cardinality(Node) * Cardinality(Node)

Frame(n, c) == [node |-> n, cursor |-> c]
Top == stack[Len(stack)]
Finished == {order[i] : i \in DOMAIN order}

\* The successors as sets, and the transposed graph (duplicate-free here:
\* the second pass skips what it has visited).
Succs == [n \in Node |-> {graph[n][i] : i \in DOMAIN graph[n]}]
transposeWrong == Succs
transpose_graph == [n \in Node |-> {m \in Node : n \in Succs[m]}]

\* Positions at or after the top frame's cursor that hold an unvisited node.
Unvisited ==
  {i \in Top.cursor .. Len(graph[Top.node]) : visited[graph[Top.node][i]] = 0}

Init ==
  /\ pc = "roots"
  /\ graph \in Graphs
  /\ visited = [n \in Node |-> 0]
  /\ stack = <<>>
  /\ iter = 0
  /\ order = <<>>
  /\ left = 0
  /\ seen = {}
  /\ frontier = {}
  /\ component = {}
  /\ sccs = <<>>

\* for node in nodes: if visited[node] == 0 ...
StartWalk(n) ==
  /\ pc = "roots"
  /\ visited[n] = 0
  /\ stack' = <<Frame(n, 1)>>
  /\ visited' = [visited EXCEPT ![n] = 1]
  /\ iter' = 0
  /\ pc' = "walk"
  /\ UNCHANGED <<graph, order, pass2>>

\* An unvisited neighbour is found: remember the place and descend into it.
Descend ==
  /\ pc = "walk" /\ stack # <<>> /\ iter < bound
  /\ \E i \in Unvisited :
       /\ \A j \in Unvisited : i <= j
       /\ visited' = [visited EXCEPT ![graph[Top.node][i]] = 1]
       /\ stack' = Append([stack EXCEPT ![Len(stack)] = Frame(Top.node, i + 1)],
                          Frame(graph[Top.node][i], 1))
  /\ iter' = iter + 1
  /\ UNCHANGED <<pc, graph, order, pass2>>

\* No unvisited neighbour: the node is finished.
FinishNode ==
  /\ pc = "walk" /\ stack # <<>> /\ iter < bound
  /\ Unvisited = {}
  /\ stack' = SubSeq(stack, 1, Len(stack) - 1)
  /\ visited' = [visited EXCEPT ![Top.node] = 2]
  /\ order' = Append(order, Top.node)
  /\ iter' = iter + 1
  /\ UNCHANGED <<pc, graph, pass2>>

\* The loop ends on an empty stack, or because range(bound) is used up.
EndWalk ==
  /\ pc = "walk"
  /\ stack = <<>> \/ iter = bound
  /\ pc' = "roots"
  /\ UNCHANGED <<graph, pass1, iter, pass2>>

\* Every node was looked at: transpose the graph and start the second pass.
Transpose ==
  /\ pc = "roots"
  /\ \A n \in Node : visited[n] # 0
  /\ left' = Len(order)
  /\ pc' = "starts"
  /\ UNCHANGED <<graph, pass1, iter, seen, frontier, component, sccs>>

StartComponent ==
  /\ pc = "starts" /\ left > 0
  /\ order[left] \notin seen
  /\ component' = {}
  /\ frontier' = {order[left]}
  /\ seen' = seen \cup {order[left]}
  /\ iter' = 0
  /\ pc' = "collect"
  /\ UNCHANGED <<graph, pass1, left, sccs>>

SkipVisited ==
  /\ pc = "starts" /\ left > 0
  /\ order[left] \in seen
  /\ left' = left - 1
  /\ UNCHANGED <<pc, graph, pass1, iter, seen, frontier, component, sccs>>

Collect(n) ==
  /\ pc = "collect" /\ iter < bound
  /\ n \in frontier
  /\ component' = component \cup {n}
  /\ frontier' = (frontier \ {n}) \cup (transpose_graph[n] \ seen)
  /\ seen' = seen \cup transpose_graph[n]
  /\ iter' = iter + 1
  /\ UNCHANGED <<pc, graph, pass1, left, sccs>>

EmitComponent ==
  /\ pc = "collect"
  /\ frontier = {} \/ iter = bound
  /\ sccs' = Append(sccs, component)
  /\ left' = left - 1
  /\ pc' = "starts"
  /\ UNCHANGED <<graph, pass1, iter, seen, frontier, component>>

Return ==
  /\ pc = "starts" /\ left = 0
  /\ pc' = "done"
  /\ UNCHANGED <<graph, pass1, iter, pass2>>

\* The call is over; only here may the specification stop.
Terminating == pc = "done" /\ UNCHANGED vars

Next ==
  \/ \E n \in Node : StartWalk(n)
  \/ Descend
  \/ FinishNode
  \/ EndWalk
  \/ Transpose
  \/ StartComponent
  \/ SkipVisited
  \/ \E n \in Node : Collect(n)
  \/ EmitComponent
  \/ Return
  \/ Terminating

Spec == Init /\ [][Next]_vars

-----------------------------------------------------------------------------
Frames == [node : Node, cursor : Nat \ {0}]

\* The types of the variables, and a frame's cursor stays within one past
\* the end of its node's list (a scan that overran would fault at i).
TypeOK ==
  /\ pc \in {"roots", "walk", "starts", "collect", "done"}
  /\ graph \in [Node -> Seq(Node)]
  /\ visited \in [Node -> 0 .. 2]
  /\ stack \in Seq(Frames)
  /\ \A i \in DOMAIN stack : stack[i].cursor <= Len(graph[stack[i].node]) + 1
  /\ iter \in Nat
  /\ order \in Seq(Node)
  /\ left \in 0 .. Len(order)
  /\ seen \subseteq Node
  /\ frontier \subseteq Node
  /\ component \subseteq Node
  /\ sccs \in Seq(SUBSET Node)

\* `for _ in range(bound)` always leaves by its break: when the range is used
\* up there is nothing left on the stack, so no walk is cut short in silence.
NeverCutShort ==
  iter >= bound => /\ pc = "walk" => stack = <<>>
                   /\ pc = "collect" => frontier = {}

\* The order in which nodes finish is what makes the second pass correct:
\* along an edge, either the target leads back to the source, or the target's
\* whole component finished before the source did.
FinishOrder ==
  \A j \in DOMAIN order : \A y \in Succs[order[j]] :
    \/ Reach(Succs, y, order[j])
    \/ \A r \in Component(Succs, y) : \E i \in 1 .. j - 1 : order[i] = r

\* Every list in the result is one strongly connected component, no component
\* is listed twice, and at the end none is missing.
ComponentsExact ==
  /\ \A i \in DOMAIN sccs : sccs[i] \in Components(Succs)
  /\ \A i, j \in DOMAIN sccs : i # j => sccs[i] \cap sccs[j] = {}
  /\ pc = "done" => Components(Succs) = {sccs[i] : i \in DOMAIN sccs}
=============================================================================
