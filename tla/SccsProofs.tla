----------------------------- MODULE SccsProofs -----------------------------
(***************************************************************************)
(* Kosaraju's algorithm of Sccs.tla is correct for every finite graph:     *)
(* no walk is cut short by its bound, and the result lists exactly the     *)
(* strongly connected components.                                          *)
(***************************************************************************)
EXTENDS Sccs, SequenceTheorems, FiniteSetTheorems, TLAPS

-----------------------------------------------------------------------------
(* Reachability: the facts that need a set chosen by hand.                 *)

LEMMA ReachRefl == ASSUME NEW G, NEW x PROVE Reach(G, x, x)
BY DEF Reach

LEMMA ReachTrans ==
  ASSUME NEW G, NEW x, NEW y, NEW z, Reach(G, x, y), Reach(G, y, z)
  PROVE  Reach(G, x, z)
BY DEF Reach

LEMMA ReachEdge ==
  ASSUME NEW G, NEW x, NEW y \in G[x] PROVE Reach(G, x, y)
BY DEF Reach, Closed

\* A set that x is in and y is not has an edge out of it on the way to y.
LEMMA ReachLeaves ==
  ASSUME NEW G, NEW x, NEW y, Reach(G, x, y),
         NEW S \in SUBSET DOMAIN G, x \in S, y \notin S
  PROVE  \E u \in S : \E v \in G[u] : v \notin S
BY DEF Reach, Closed

-----------------------------------------------------------------------------
(* Sequences: the two shapes a step gives the stack and the lists.         *)

LEMMA AppendSeq ==
  ASSUME NEW S, NEW s \in Seq(S), NEW e \in S
  PROVE  /\ Append(s, e) \in Seq(S)
         /\ Len(Append(s, e)) = Len(s) + 1
         /\ DOMAIN Append(s, e) = 1 .. Len(s) + 1
         /\ \A i \in 1 .. Len(s) : Append(s, e)[i] = s[i]
         /\ Append(s, e)[Len(s) + 1] = e
OBVIOUS

LEMMA NonEmptySeq ==
  ASSUME NEW S, NEW s \in Seq(S), s # <<>>
  PROVE  Len(s) \in Nat \ {0} /\ Len(s) \in DOMAIN s /\ s[Len(s)] \in S
OBVIOUS

LEMMA FrontSeq ==
  ASSUME NEW S, NEW s \in Seq(S), s # <<>>
  PROVE  /\ SubSeq(s, 1, Len(s) - 1) \in Seq(S)
         /\ Len(SubSeq(s, 1, Len(s) - 1)) = Len(s) - 1
         /\ DOMAIN SubSeq(s, 1, Len(s) - 1) = 1 .. Len(s) - 1
         /\ \A i \in 1 .. Len(s) - 1 : SubSeq(s, 1, Len(s) - 1)[i] = s[i]
<1> DEFINE n == Len(s) - 1
<1>1. n \in Nat /\ \A i \in 1 .. n : s[i] \in S
  OBVIOUS
<1> HIDE DEF n
<1>2. /\ SubSeq(s, 1, n) \in Seq(S)
      /\ Len(SubSeq(s, 1, n)) = IF 1 <= n THEN n - 1 + 1 ELSE 0
      /\ \A i \in 1 .. n - 1 + 1 : SubSeq(s, 1, n)[i] = s[1 + i - 1]
  <2>1. 1 \in Int /\ n \in Int
    BY <1>1
  <2> QED
    BY <1>1, <2>1, SubSeqProperties
<1>3. Len(SubSeq(s, 1, n)) = n /\ \A i \in 1 .. n : SubSeq(s, 1, n)[i] = s[i]
  BY <1>1, <1>2
<1>4. DOMAIN SubSeq(s, 1, n) = 1 .. n
  BY <1>2, <1>3
<1> QED
  BY <1>2, <1>3, <1>4 DEF n

LEMMA ReplaceLast ==
  ASSUME NEW S, NEW s \in Seq(S), s # <<>>, NEW e \in S
  PROVE  /\ [s EXCEPT ![Len(s)] = e] \in Seq(S)
         /\ Len([s EXCEPT ![Len(s)] = e]) = Len(s)
         /\ \A i \in 1 .. Len(s) - 1 : [s EXCEPT ![Len(s)] = e][i] = s[i]
         /\ [s EXCEPT ![Len(s)] = e][Len(s)] = e
OBVIOUS

LEMMA ReplaceLastPush ==
  ASSUME NEW S, NEW s \in Seq(S), s # <<>>, NEW a \in S, NEW b \in S,
         NEW t, t = Append([s EXCEPT ![Len(s)] = a], b)
  PROVE  /\ t \in Seq(S)
         /\ Len(t) = Len(s) + 1
         /\ DOMAIN t = 1 .. Len(s) + 1
         /\ \A i \in 1 .. Len(s) - 1 : t[i] = s[i]
         /\ t[Len(s)] = a
         /\ t[Len(s) + 1] = b
<1> DEFINE r == [s EXCEPT ![Len(s)] = a]
<1>1. /\ r \in Seq(S) /\ Len(r) = Len(s) /\ r[Len(s)] = a
      /\ \A i \in 1 .. Len(s) - 1 : r[i] = s[i]
  BY ReplaceLast
<1>2. Len(s) \in Nat \ {0} /\ t = Append(r, b)
  BY NonEmptySeq
<1> HIDE DEF r
<1>3. /\ t \in Seq(S) /\ Len(t) = Len(r) + 1 /\ DOMAIN t = 1 .. Len(r) + 1
      /\ \A i \in 1 .. Len(r) : t[i] = r[i]
      /\ t[Len(r) + 1] = b
  BY <1>1, <1>2, AppendSeq
<1> QED
  BY <1>1, <1>2, <1>3

-----------------------------------------------------------------------------
(* The inductive invariant, one named part for each idea of the argument.  *)

\* The colours say where a node is: 1 on the stack, 2 in order, once each.
Colours ==
  /\ \A i, j \in DOMAIN stack : stack[i].node = stack[j].node => i = j
  /\ \A i, j \in DOMAIN order : order[i] = order[j] => i = j
  /\ \A n \in Node : visited[n] = 1 <=> \E i \in DOMAIN stack : stack[i].node = n
  /\ \A n \in Node : visited[n] = 2 <=> \E i \in DOMAIN order : order[i] = n
  /\ pc # "walk" => stack = <<>>

\* A node on the stack reaches every node above it.
StackPath ==
  \A i, j \in DOMAIN stack :
    i <= j => Reach(Succs, stack[i].node, stack[j].node)

\* A cursor has passed visited neighbours only.
Scanned ==
  \A i \in DOMAIN stack : \A k \in 1 .. stack[i].cursor - 1 :
    visited[graph[stack[i].node][k]] # 0

\* No edge leads from a finished node to an unvisited one.
FinishedClosed ==
  \A x \in Node : visited[x] = 2 => \A y \in Succs[x] : visited[y] # 0

\* A walk has spent two iterations on each node it finished, one on each node
\* it holds on the stack, the root's first excepted.
WalkBudget ==
  pc = "walk" =>
    iter + Len(stack) + 1 <= 2 * Cardinality({n \in Node : visited[n] # 0})

Emitted == {n \in Node : \E i \in DOMAIN sccs : n \in sccs[i]}

\* What has been emitted is whole components, closed under the transposed edges.
EmittedClosed ==
  /\ \A i \in DOMAIN sccs : sccs[i] \in Components(Succs)
  /\ \A i, j \in DOMAIN sccs : i # j => sccs[i] \cap sccs[j] = {}
  /\ \A x \in Node, y \in Emitted : y \in Succs[x] => x \in Emitted

\* Between two components of the second pass.
BetweenComponents ==
  /\ pc \in {"roots", "walk"} => sccs = <<>>
  /\ pc \in {"roots", "walk"} => seen = {}
  /\ pc \in {"starts", "collect", "done"} => \A n \in Node : visited[n] = 2
  /\ pc \in {"starts", "done"} =>
       /\ seen = Emitted
       /\ \A k \in DOMAIN order : k > left => order[k] \in Emitted
  /\ pc = "done" => left = 0

\* While a component is collected: it grows backwards from its root, which
\* finished last among the nodes not emitted, and it holds nothing emitted.
Collecting ==
  pc = "collect" =>
    /\ left > 0
    /\ seen = Emitted \cup component \cup frontier
    /\ Emitted \cap (component \cup frontier) = {}
    /\ component \cap frontier = {}
    /\ order[left] \in component \cup frontier
    /\ \A k \in DOMAIN order : k > left => order[k] \in Emitted
    /\ \A v \in component \cup frontier : Reach(Succs, v, order[left])
    /\ \A v \in component : \A x \in Node : v \in Succs[x] => x \in seen
    /\ iter = Cardinality(component)

FirstPass == Colours /\ StackPath /\ Scanned /\ FinishedClosed /\ WalkBudget
SecondPass == EmittedClosed /\ BetweenComponents /\ Collecting
IInv == TypeOK /\ FirstPass /\ FinishOrder /\ SecondPass

-----------------------------------------------------------------------------
(* The range of the loops is long enough.                                  *)

LEMMA SuccsType ==
  ASSUME graph \in [Node -> Seq(Node)]
  PROVE  /\ DOMAIN Succs = Node
         /\ \A n \in Node : Succs[n] \subseteq Node
         /\ \A n \in Node : \A i \in 1 .. Len(graph[n]) : graph[n][i] \in Succs[n]
         /\ transpose_graph = [n \in Node |-> {m \in Node : n \in Succs[m]}]
BY DEF Succs, transpose_graph

LEMMA Squares ==
  ASSUME NEW n \in Nat, n >= 1
  PROVE  n * n \in Nat /\ n * n >= 2 * n - 1 /\ n * n >= n
<1>1. (n - 1) * (n - 1) >= 0
  BY Z3
<1>2. (n - 1) * (n - 1) = n * n - 2 * n + 1
  BY Z3
<1> QED
  BY <1>1, <1>2, Z3

LEMMA BoundLarge ==
  /\ Cardinality(Node) \in Nat
  /\ bound \in Nat
  /\ Node # {} => Cardinality(Node) >= 1
  /\ Node # {} => bound >= 2 * Cardinality(Node) - 1
  /\ Node # {} => bound >= Cardinality(Node)
<1>1. Cardinality(Node) \in Nat
  BY NodeAssumption, FS_CardinalityType
<1>2. Node # {} => Cardinality(Node) >= 1
  BY <1>1, NodeAssumption, FS_EmptySet
<1> QED
  BY <1>1, <1>2, Squares DEF bound

LEMMA NeverCut == IInv => NeverCutShort
<1> SUFFICES ASSUME IInv, iter >= bound
             PROVE  /\ pc = "walk" => stack = <<>>
                    /\ pc = "collect" => frontier = {}
  BY DEF NeverCutShort
<1>0. iter \in Nat /\ bound \in Nat /\ Cardinality(Node) \in Nat
  BY BoundLarge DEF IInv, TypeOK
<1>1. ASSUME pc = "walk", stack # <<>> PROVE FALSE
  <2> DEFINE V == {n \in Node : visited[n] # 0}
  <2>1. Cardinality(V) \in Nat /\ Cardinality(V) <= Cardinality(Node)
    BY V \subseteq Node, NodeAssumption, FS_Subset, FS_CardinalityType
  <2>2. Len(stack) \in Nat /\ Len(stack) >= 1 /\ stack[Len(stack)] \in Frames
    BY <1>1, NonEmptySeq DEF IInv, TypeOK
  <2>3. iter + Len(stack) + 1 <= 2 * Cardinality(V)
    BY <1>1 DEF IInv, FirstPass, WalkBudget
  <2>4. bound >= 2 * Cardinality(Node) - 1
    BY <2>2, BoundLarge DEF Frames
  <2> HIDE DEF V
  <2> QED
    BY <1>0, <2>1, <2>2, <2>3, <2>4
<1>2. ASSUME pc = "collect", frontier # {} PROVE FALSE
  <2>1. /\ component \subseteq Node /\ component # Node /\ Node # {}
        /\ iter = Cardinality(component)
    BY <1>2 DEF IInv, TypeOK, SecondPass, Collecting
  <2>2. /\ Cardinality(component) \in Nat
        /\ Cardinality(component) <= Cardinality(Node)
        /\ Cardinality(component) # Cardinality(Node)
    BY <2>1, NodeAssumption, FS_Subset, FS_CardinalityType
  <2>3. bound >= Cardinality(Node)
    BY <2>1, BoundLarge
  <2> QED
    BY <1>0, <2>1, <2>2, <2>3
<1> QED
  BY <1>1, <1>2

-----------------------------------------------------------------------------
(* Each action preserves the invariant.                                    *)

LEMMA InitIInv == Init => IInv
<1> SUFFICES ASSUME Init PROVE IInv
  OBVIOUS
<1>1. TypeOK
  BY GraphsAssumption DEF Init, TypeOK
<1>2. FirstPass /\ FinishOrder
  BY DEF Init, FirstPass, Colours, StackPath, Scanned, FinishedClosed,
         WalkBudget, FinishOrder
<1>3. SecondPass
  BY DEF Init, SecondPass, EmittedClosed, BetweenComponents, Collecting, Emitted
<1> QED
  BY <1>1, <1>2, <1>3 DEF IInv

LEMMA StartWalkIInv ==
  ASSUME IInv, NEW n \in Node, StartWalk(n) PROVE IInv'
<1> USE DEF IInv, FirstPass, StartWalk, pass2
<1>0. Succs' = Succs
  BY DEF Succs
<1>1. stack = <<>> /\ stack' = <<Frame(n, 1)>> /\ Frame(n, 1) \in Frames
  BY DEF Colours, Frame, Frames
<1>2. TypeOK'
  BY <1>1 DEF TypeOK, Frame
<1>3. Colours'
  BY <1>1 DEF TypeOK, Colours, Frame
<1>4. StackPath'
  BY <1>0, <1>1, ReachRefl DEF StackPath
<1>5. Scanned'
  BY <1>1 DEF Scanned, Frame
<1>6. FinishedClosed'
  BY <1>0, <1>2, SuccsType DEF FinishedClosed, TypeOK
<1>7. WalkBudget'
  <2> DEFINE V == {m \in Node : visited[m] # 0}
             W == {m \in Node : visited'[m] # 0}
  <2>1. W = V \cup {n} /\ n \notin V
    BY DEF TypeOK
  <2>2. IsFiniteSet(V) /\ Cardinality(V) \in Nat
    BY V \subseteq Node, NodeAssumption, FS_Subset, FS_CardinalityType
  <2>3. Cardinality(W) = Cardinality(V) + 1
    BY <2>1, <2>2, FS_AddElement
  <2>4. iter' = 0 /\ Len(stack') = 1
    BY <1>1
  <2> HIDE DEF V
  <2>5. iter' + Len(stack') + 1 <= 2 * Cardinality(W)
    BY <2>2, <2>3, <2>4
  <2> QED
    BY <2>5 DEF WalkBudget
<1>8. FinishOrder'
  BY <1>0 DEF FinishOrder
<1>9. SecondPass'
  BY <1>0 DEF SecondPass, EmittedClosed, BetweenComponents, Collecting, Emitted
<1> QED
  BY <1>2, <1>3, <1>4, <1>5, <1>6, <1>7, <1>8, <1>9

LEMMA FrameFacts ==
  ASSUME TypeOK, NEW j \in DOMAIN stack
  PROVE  /\ stack[j] \in Frames
         /\ stack[j].node \in Node
         /\ stack[j].cursor \in Nat \ {0}
         /\ stack[j].cursor <= Len(graph[stack[j].node]) + 1
         /\ graph[stack[j].node] \in Seq(Node)
<1>1. stack[j] \in Frames
  BY DEF TypeOK
<1>2. stack[j].node \in Node /\ stack[j].cursor \in Nat \ {0}
  BY <1>1 DEF Frames
<1>3. stack[j].cursor <= Len(graph[stack[j].node]) + 1
  BY DEF TypeOK
<1>4. graph[stack[j].node] \in Seq(Node)
  BY <1>2 DEF TypeOK
<1> QED
  BY <1>1, <1>2, <1>3, <1>4

LEMMA DescendIInv == ASSUME IInv, Descend PROVE IInv'
<1> USE DEF IInv, FirstPass, pass2
<1>0. Succs' = Succs
  BY DEF Descend, Succs
<1> DEFINE L == Len(stack)
<1>1. PICK i \in Unvisited :
        /\ \A j \in Unvisited : i <= j
        /\ visited' = [visited EXCEPT ![graph[Top.node][i]] = 1]
        /\ stack' = Append([stack EXCEPT ![L] = Frame(Top.node, i + 1)],
                           Frame(graph[Top.node][i], 1))
  BY DEF Descend
<1> DEFINE m == graph[Top.node][i]
<1>2. /\ L \in Nat \ {0} /\ L \in DOMAIN stack /\ Top \in Frames
      /\ DOMAIN stack = 1 .. L
  BY NonEmptySeq DEF Descend, TypeOK, Top
<1>3. /\ Top.node \in Node /\ graph[Top.node] \in Seq(Node)
      /\ i \in 1 .. Len(graph[Top.node]) /\ i >= Top.cursor
      /\ m \in Node /\ visited[m] = 0 /\ m \in Succs[Top.node]
  BY <1>2 DEF Unvisited, Frames, TypeOK, Succs
<1>4. /\ stack' \in Seq(Frames) /\ Len(stack') = L + 1
      /\ DOMAIN stack' = 1 .. L + 1
      /\ \A j \in 1 .. L - 1 : stack'[j] = stack[j]
      /\ stack'[L] = Frame(Top.node, i + 1)
      /\ stack'[L + 1] = Frame(m, 1)
  <2>1. Frame(Top.node, i + 1) \in Frames /\ Frame(m, 1) \in Frames
    BY <1>3 DEF Frame, Frames
  <2>2. stack \in Seq(Frames) /\ stack # <<>>
    BY DEF TypeOK, Descend
  <2> QED
    BY <1>1, <2>1, <2>2, ReplaceLastPush
<1>5. /\ \A j \in 1 .. L : stack'[j].node = stack[j].node
      /\ stack'[L + 1].node = m
  BY <1>2, <1>4 DEF Frame, Top
<1>m. m = graph[Top.node][i] /\ visited' = [visited EXCEPT ![m] = 1]
  BY <1>1
<1>L. 1 .. L - 1 \subseteq DOMAIN stack /\ L = Len(stack)
  BY <1>2
<1> HIDE DEF L, m
<1>6. TypeOK'
  <2>1. visited' \in [Node -> 0 .. 2]
    BY <1>m, <1>3 DEF TypeOK
  <2>2. \A j \in DOMAIN stack' :
          stack'[j].cursor <= Len(graph[stack'[j].node]) + 1
    <3>1. \A j \in 1 .. L - 1 :
            stack'[j].cursor <= Len(graph[stack'[j].node]) + 1
      BY <1>L, <1>4 DEF TypeOK
    <3>2. stack'[L].cursor <= Len(graph[stack'[L].node]) + 1
      BY <1>3, <1>4 DEF Frame
    <3>3. stack'[L + 1].cursor <= Len(graph[stack'[L + 1].node]) + 1
      BY <1>3, <1>4 DEF Frame, TypeOK
    <3> QED
      BY <1>2, <1>4, <3>1, <3>2, <3>3
  <2>3. graph' = graph /\ pc' = pc /\ iter' = iter + 1
        /\ order' = order /\ left' = left /\ seen' = seen
        /\ frontier' = frontier /\ component' = component /\ sccs' = sccs
    BY DEF Descend
  <2> QED
    BY <1>4, <2>1, <2>2, <2>3 DEF TypeOK
<1>7. Colours'
  <2>1. \A j \in 1 .. L : stack[j].node # m
    BY <1>2, <1>3 DEF Colours
  <2>2. \A j, k \in DOMAIN stack' : stack'[j].node = stack'[k].node => j = k
    BY <1>2, <1>4, <1>5, <2>1 DEF Colours
  <2>3. \A n \in Node : visited'[n] = 1 <=>
                           \E j \in DOMAIN stack' : stack'[j].node = n
    <3>1. ASSUME NEW n \in Node, visited'[n] = 1
          PROVE  \E j \in DOMAIN stack' : stack'[j].node = n
      <4>1. CASE n = m
        BY <1>2, <1>4, <1>5, <4>1
      <4>2. CASE n # m
        <5>1. visited[n] = 1
          BY <1>m, <1>3, <3>1, <4>2 DEF TypeOK
        <5>2. PICK j \in 1 .. L : stack[j].node = n
          BY <1>2, <5>1 DEF Colours
        <5> QED
          BY <1>2, <1>4, <1>5, <5>2
      <4> QED
        BY <4>1, <4>2
    <3>2. ASSUME NEW n \in Node, NEW j \in DOMAIN stack', stack'[j].node = n
          PROVE  visited'[n] = 1
      <4>1. CASE j = L + 1
        BY <1>m, <1>3, <1>5, <3>2, <4>1 DEF TypeOK
      <4>2. CASE j \in 1 .. L
        BY <1>m, <1>2, <1>3, <1>5, <3>2, <4>2 DEF Colours, TypeOK
      <4> QED
        BY <1>2, <1>4, <4>1, <4>2
    <3> QED
      BY <3>1, <3>2
  <2>4. \A n \in Node : visited'[n] = 2 <=> visited[n] = 2
    BY <1>m, <1>3 DEF TypeOK
  <2> QED
    BY <2>2, <2>3, <2>4 DEF Colours, Descend
<1>8. StackPath'
  <2>1. \A j \in 1 .. L : Reach(Succs, stack[j].node, Top.node)
    BY <1>2 DEF StackPath, Top, L
  <2>2. Reach(Succs, Top.node, m)
    BY <1>3, ReachEdge
  <2>3. \A j \in 1 .. L : Reach(Succs, stack[j].node, m)
    BY <2>1, <2>2, ReachTrans
  <2>4. ASSUME NEW j \in 1 .. L + 1, NEW k \in 1 .. L + 1, j <= k
        PROVE  Reach(Succs, stack'[j].node, stack'[k].node)
    <3>1. CASE k \in 1 .. L
      BY <1>2, <1>5, <2>4, <3>1 DEF StackPath
    <3>2. CASE k = L + 1 /\ j \in 1 .. L
      BY <1>5, <2>3, <3>2
    <3>3. CASE k = L + 1 /\ j = L + 1
      BY <3>3, ReachRefl
    <3> QED
      BY <1>2, <2>4, <3>1, <3>2, <3>3
  <2> QED
    BY <1>0, <1>4, <2>4 DEF StackPath
<1>9. Scanned'
  <2>1. \A n \in Node : visited[n] # 0 => visited'[n] # 0
    BY <1>m, <1>3 DEF TypeOK
  <2>2. \A j \in 1 .. L - 1 : \A k \in 1 .. stack'[j].cursor - 1 :
          visited'[graph[stack'[j].node][k]] # 0
    <3> SUFFICES ASSUME NEW j \in 1 .. L - 1, NEW k \in 1 .. stack[j].cursor - 1
                 PROVE  visited'[graph[stack[j].node][k]] # 0
      BY <1>4
    <3>0. j \in DOMAIN stack
      BY <1>L
    <3>1. visited[graph[stack[j].node][k]] # 0
      BY <3>0 DEF Scanned
    <3>2. graph[stack[j].node][k] \in Node
      BY <3>0, FrameFacts
    <3> QED
      BY <2>1, <3>1, <3>2
  <2>3. \A k \in 1 .. i : visited'[graph[Top.node][k]] # 0
    <3> SUFFICES ASSUME NEW k \in 1 .. i PROVE visited'[graph[Top.node][k]] # 0
      OBVIOUS
    <3>1. graph[Top.node][k] \in Node
      BY <1>3
    <3>2. CASE k = i
      BY <1>m, <1>3, <3>2 DEF TypeOK
    <3>3. CASE k \in Top.cursor .. i - 1
      <4>1. k \notin Unvisited
        BY <1>1, <1>3, <3>3 DEF Frames
      <4>2. k \in Top.cursor .. Len(graph[Top.node])
        BY <1>2, <1>3, <3>3 DEF Frames
      <4> QED
        BY <2>1, <3>1, <4>1, <4>2 DEF Unvisited
    <3>4. CASE k < Top.cursor
      <4>1. visited[graph[Top.node][k]] # 0
        BY <1>2, <3>4 DEF Scanned, Top, L, Frames
      <4> QED
        BY <2>1, <3>1, <4>1
    <3> QED
      BY <1>2, <1>3, <3>2, <3>3, <3>4 DEF Frames
  <2>4. \A k \in 1 .. stack'[L].cursor - 1 :
          visited'[graph[stack'[L].node][k]] # 0
    BY <1>3, <1>4, <2>3 DEF Frame
  <2>5. stack'[L + 1].cursor - 1 = 0
    BY <1>4 DEF Frame
  <2>6. \A j \in 1 .. L + 1 : j \in 1 .. L - 1 \/ j = L \/ j = L + 1
    BY <1>2
  <2>7. \A k \in 1 .. stack'[L + 1].cursor - 1 :
          visited'[graph[stack'[L + 1].node][k]] # 0
    BY <2>5
  <2>8. graph' = graph
    BY DEF Descend
  <2> QED
    BY <1>4, <2>2, <2>4, <2>6, <2>7, <2>8 DEF Scanned
<1>10. FinishedClosed'
  BY <1>0, <1>m, <1>3, SuccsType DEF FinishedClosed, TypeOK, Descend
<1>11. WalkBudget'
  <2> DEFINE V == {n \in Node : visited[n] # 0}
             W == {n \in Node : visited'[n] # 0}
  <2>1. W = V \cup {m} /\ m \notin V
    BY <1>m, <1>3 DEF TypeOK
  <2>2. IsFiniteSet(V) /\ Cardinality(V) \in Nat
    BY V \subseteq Node, NodeAssumption, FS_Subset, FS_CardinalityType
  <2>3. Cardinality(W) = Cardinality(V) + 1
    BY <2>1, <2>2, FS_AddElement
  <2>4. iter + L + 1 <= 2 * Cardinality(V)
    BY DEF WalkBudget, Descend, L
  <2>5. iter' = iter + 1 /\ iter \in Nat
    BY DEF Descend, TypeOK
  <2> HIDE DEF V, W
  <2>6. iter' + Len(stack') + 1 <= 2 * Cardinality(W)
    BY <1>2, <1>4, <2>2, <2>3, <2>4, <2>5
  <2> QED
    BY <2>6 DEF WalkBudget, W
<1>12. FinishOrder'
  BY <1>0 DEF FinishOrder, Descend
<1>13. SecondPass'
  BY <1>0 DEF SecondPass, EmittedClosed, BetweenComponents, Collecting,
              Emitted, Descend
<1> QED
  BY <1>6, <1>7, <1>8, <1>9, <1>10, <1>11, <1>12, <1>13

LEMMA FinishNodeIInv == ASSUME IInv, FinishNode PROVE IInv'
<1> USE DEF IInv, FirstPass, pass2
<1>0. Succs' = Succs
  BY DEF FinishNode, Succs
<1> DEFINE L == Len(stack)
           x == Top.node
           M == Len(order)
<1>1. /\ L \in Nat \ {0} /\ L \in DOMAIN stack /\ Top \in Frames
      /\ DOMAIN stack = 1 .. L /\ 1 .. L - 1 \subseteq DOMAIN stack
      /\ x \in Node /\ stack[L].node = x /\ stack[L] = Top
  <2>1. stack \in Seq(Frames) /\ stack # <<>>
    BY DEF FinishNode, TypeOK
  <2>2. L \in Nat \ {0} /\ L \in DOMAIN stack /\ DOMAIN stack = 1 .. L
    BY <2>1, NonEmptySeq
  <2>3. stack[L] = Top
    BY DEF Top
  <2> QED
    BY <2>2, <2>3, FrameFacts
<1>2. /\ stack' \in Seq(Frames) /\ Len(stack') = L - 1
      /\ DOMAIN stack' = 1 .. L - 1
      /\ \A j \in 1 .. L - 1 : stack'[j] = stack[j]
  BY FrontSeq DEF FinishNode, TypeOK
<1>3. /\ order \in Seq(Node) /\ M \in Nat /\ DOMAIN order = 1 .. M
      /\ order' \in Seq(Node) /\ Len(order') = M + 1
      /\ DOMAIN order' = 1 .. M + 1
      /\ \A j \in 1 .. M : order'[j] = order[j]
      /\ order'[M + 1] = x
  BY <1>1, AppendSeq DEF FinishNode, TypeOK
<1>4. visited' = [visited EXCEPT ![x] = 2] /\ visited[x] = 1
  BY <1>1 DEF FinishNode, Colours
<1>5. \A y \in Succs[x] : visited[y] # 0
  <2>1. \A k \in 1 .. Len(graph[x]) : visited[graph[x][k]] # 0
    <3> SUFFICES ASSUME NEW k \in 1 .. Len(graph[x])
                 PROVE  visited[graph[x][k]] # 0
      OBVIOUS
    <3>1. Top.cursor \in Nat
      BY <1>1 DEF Frames
    <3>2. CASE k < Top.cursor
      BY <1>1, <3>1, <3>2 DEF Scanned
    <3>3. CASE k >= Top.cursor
      BY <3>1, <3>3 DEF FinishNode, Unvisited
    <3> QED
      BY <3>1, <3>2, <3>3
  <2>2. graph[x] \in Seq(Node)
    BY <1>1 DEF TypeOK
  <2> QED
    BY <1>1, <2>1, <2>2 DEF Succs
<1>6. \A j \in DOMAIN stack : Reach(Succs, stack[j].node, x)
  BY <1>1 DEF StackPath
<1> HIDE DEF L, x, M
<1>7. TypeOK'
  <2>1. visited' \in [Node -> 0 .. 2]
    BY <1>1, <1>4 DEF TypeOK
  <2>2. left \in 0 .. Len(order')
    BY <1>3 DEF TypeOK, M
  <2>3. \A j \in DOMAIN stack' :
          stack'[j].cursor <= Len(graph[stack'[j].node]) + 1
    BY <1>1, <1>2 DEF TypeOK
  <2>4. graph' = graph /\ pc' = pc /\ iter' = iter + 1
        /\ left' = left /\ seen' = seen
        /\ frontier' = frontier /\ component' = component /\ sccs' = sccs
    BY DEF FinishNode
  <2> QED
    BY <1>2, <1>3, <2>1, <2>2, <2>3, <2>4 DEF TypeOK
<1>8. Colours'
  <2>1. \A j, k \in DOMAIN stack' : stack'[j].node = stack'[k].node => j = k
    BY <1>1, <1>2 DEF Colours
  <2>2. \A j \in 1 .. M : order[j] # x
    BY <1>1, <1>3, <1>4 DEF Colours
  <2>3. \A j, k \in DOMAIN order' : order'[j] = order'[k] => j = k
    BY <1>3, <2>2 DEF Colours
  <2>4. \A n \in Node : visited'[n] = 1 <=>
                           \E j \in DOMAIN stack' : stack'[j].node = n
    <3>1. ASSUME NEW n \in Node, visited'[n] = 1
          PROVE  \E j \in DOMAIN stack' : stack'[j].node = n
      <4>1. n # x /\ visited[n] = 1
        BY <1>1, <1>4, <3>1 DEF TypeOK
      <4>2. PICK j \in 1 .. L : stack[j].node = n
        BY <1>1, <4>1 DEF Colours
      <4>3. j \in 1 .. L - 1
        BY <1>1, <4>1, <4>2
      <4> QED
        BY <1>2, <4>2, <4>3
    <3>2. ASSUME NEW n \in Node, NEW j \in DOMAIN stack', stack'[j].node = n
          PROVE  visited'[n] = 1
      <4>1. j \in DOMAIN stack /\ j # L /\ stack[j].node = n
        BY <1>1, <1>2, <3>2
      <4>2. n # x /\ visited[n] = 1
        BY <1>1, <4>1 DEF Colours
      <4> QED
        BY <1>4, <4>2 DEF TypeOK
    <3> QED
      BY <3>1, <3>2
  <2>5. \A n \in Node : visited'[n] = 2 <=>
                           \E j \in DOMAIN order' : order'[j] = n
    <3>1. \A n \in Node : visited'[n] = 2 <=> n = x \/ visited[n] = 2
      BY <1>1, <1>4 DEF TypeOK
    <3>2. \A n \in Node : (\E j \in DOMAIN order' : order'[j] = n) <=>
                            n = x \/ \E j \in DOMAIN order : order[j] = n
      BY <1>3
    <3> QED
      BY <3>1, <3>2 DEF Colours
  <2>6. pc' = "walk"
    BY DEF FinishNode
  <2> QED
    BY <2>1, <2>3, <2>4, <2>5, <2>6 DEF Colours
<1>9. StackPath'
  BY <1>0, <1>1, <1>2 DEF StackPath
<1>10. \A n \in Node : visited[n] # 0 <=> visited'[n] # 0
  BY <1>1, <1>4 DEF TypeOK
<1>11. Scanned'
  <2>1. ASSUME NEW j \in 1 .. L - 1, NEW k \in 1 .. stack[j].cursor - 1
        PROVE  visited'[graph[stack[j].node][k]] # 0
    <3>1. j \in DOMAIN stack
      BY <1>1
    <3>2. visited[graph[stack[j].node][k]] # 0
      BY <3>1 DEF Scanned
    <3>5. graph[stack[j].node][k] \in Node
      BY <3>1, FrameFacts
    <3> QED
      BY <1>10, <3>2, <3>5
  <2>2. graph' = graph
    BY DEF FinishNode
  <2> QED
    BY <1>2, <2>1, <2>2 DEF Scanned
<1>12. FinishedClosed'
  <2>1. \A n \in Node : visited'[n] = 2 => n = x \/ visited[n] = 2
    BY <1>1, <1>4 DEF TypeOK
  <2>2. \A n \in Node : Succs[n] \subseteq Node
    BY SuccsType DEF TypeOK
  <2> QED
    BY <1>0, <1>1, <1>5, <1>10, <2>1, <2>2 DEF FinishedClosed
<1>13. WalkBudget'
  <2>1. {n \in Node : visited'[n] # 0} = {n \in Node : visited[n] # 0}
    BY <1>10
  <2> DEFINE V == {n \in Node : visited[n] # 0}
  <2>2. iter + L + 1 <= 2 * Cardinality(V) /\ iter' = iter + 1 /\ iter \in Nat
    BY DEF WalkBudget, FinishNode, TypeOK, L
  <2>3. Cardinality(V) \in Nat
    BY V \subseteq Node, NodeAssumption, FS_Subset, FS_CardinalityType
  <2> HIDE DEF V
  <2>4. iter' + Len(stack') + 1 <= 2 * Cardinality(V)
    BY <1>1, <1>2, <2>2, <2>3
  <2> QED
    BY <2>1, <2>4 DEF WalkBudget, V
<1>14. FinishOrder'
  <2>1. ASSUME NEW j \in 1 .. M, NEW y \in Succs[order[j]]
        PROVE  \/ Reach(Succs, y, order[j])
               \/ \A r \in Component(Succs, y) : \E i \in 1 .. j - 1 : order'[i] = r
    <3>1. \/ Reach(Succs, y, order[j])
          \/ \A r \in Component(Succs, y) : \E i \in 1 .. j - 1 : order[i] = r
      BY <1>3 DEF FinishOrder
    <3>2. \A i \in 1 .. j - 1 : order'[i] = order[i]
      BY <1>3
    <3> QED
      BY <3>1, <3>2
  <2>2. ASSUME NEW y \in Succs[x], ~ Reach(Succs, y, x),
               NEW r \in Component(Succs, y)
        PROVE  \E i \in 1 .. M : order'[i] = r
    <3>1. /\ y \in Node /\ r \in Node /\ Reach(Succs, y, r)
          /\ DOMAIN Succs = Node /\ \A n \in Node : Succs[n] \subseteq Node
      BY <1>1, SuccsType DEF Component, Mutual, TypeOK
    <3>2. \A g \in Node : Reach(Succs, y, g) => visited[g] # 1
      BY <1>6, <2>2, ReachTrans DEF Colours
    <3>3. visited[y] = 2
      BY <1>5, <3>1, <3>2, ReachRefl DEF TypeOK
    <3> DEFINE S == {v \in Node : Reach(Succs, y, v) /\ visited[v] = 2}
    <3>4. ASSUME NEW u \in S, NEW v \in Succs[u] PROVE v \in S
      <4>1. v \in Node /\ visited[v] # 0
        BY <3>1 DEF FinishedClosed
      <4>2. Reach(Succs, y, v)
        BY ReachEdge, ReachTrans
      <4> QED
        BY <3>2, <4>1, <4>2 DEF TypeOK
    <3>5. r \in S
      BY <3>1, <3>3, <3>4, ReachRefl, ReachLeaves
    <3>6. \E i \in 1 .. M : order[i] = r
      BY <1>3, <3>1, <3>5 DEF Colours
    <3> QED
      BY <1>3, <3>6
  <2>3. \A j \in 1 .. M + 1 : j \in 1 .. M \/ j = M + 1
    BY <1>3
  <2>4. M + 1 - 1 = M
    BY <1>3
  <2> QED
    BY <1>0, <1>3, <2>1, <2>2, <2>3, <2>4 DEF FinishOrder
<1>15. SecondPass'
  <2>1. Emitted' = Emitted
    BY DEF Emitted, FinishNode
  <2> QED
    BY <1>0, <2>1 DEF SecondPass, EmittedClosed, BetweenComponents, Collecting,
                      FinishNode
<1> QED
  BY <1>7, <1>8, <1>9, <1>11, <1>12, <1>13, <1>14, <1>15

LEMMA EndWalkIInv == ASSUME IInv, EndWalk PROVE IInv'
<1>1. stack = <<>>
  <2>1. iter = bound => iter >= bound
    BY BoundLarge
  <2> QED
    BY <2>1, NeverCut DEF EndWalk, NeverCutShort
<1>2. Succs' = Succs /\ Emitted' = Emitted
  BY DEF EndWalk, Succs, Emitted, pass2
<1> QED
  BY <1>1, <1>2 DEF IInv, TypeOK, FirstPass, Colours, StackPath, Scanned,
     FinishedClosed, WalkBudget, FinishOrder, SecondPass, EmittedClosed,
     BetweenComponents, Collecting, EndWalk, pass1, pass2

LEMMA TransposeIInv == ASSUME IInv, Transpose PROVE IInv'
<1>1. Succs' = Succs /\ Emitted' = Emitted
  BY DEF Transpose, Succs, Emitted
<1>2. TypeOK'
  BY DEF IInv, TypeOK, Transpose, pass1
<1>3. FirstPass' /\ FinishOrder'
  BY <1>1 DEF IInv, FirstPass, Colours, StackPath, Scanned, FinishedClosed,
              WalkBudget, FinishOrder, Transpose, pass1
<1>4. BetweenComponents'
  <2>1. \A n \in Node : visited[n] = 2
    BY DEF IInv, TypeOK, FirstPass, Colours, Transpose
  <2>2. seen = {} /\ Emitted = {}
    BY DEF IInv, SecondPass, BetweenComponents, Transpose, Emitted
  <2>3. \A k \in DOMAIN order : ~ (k > Len(order))
    BY DEF IInv, TypeOK
  <2> QED
    BY <1>1, <2>1, <2>2, <2>3 DEF BetweenComponents, Transpose, pass1
<1>5. EmittedClosed' /\ Collecting'
  BY <1>1 DEF IInv, SecondPass, EmittedClosed, Collecting, Transpose
<1> QED
  BY <1>2, <1>3, <1>4, <1>5 DEF IInv, SecondPass

\* The second pass leaves what the first one built alone.
LEMMA FirstPassFrame ==
  ASSUME IInv, UNCHANGED <<graph, pass1>>, pc # "walk", pc' # "walk"
  PROVE  Succs' = Succs /\ FirstPass' /\ FinishOrder'
<1>1. Succs' = Succs
  BY DEF Succs
<1> QED
  BY <1>1 DEF IInv, FirstPass, Colours, StackPath, Scanned, FinishedClosed,
              WalkBudget, FinishOrder, pass1

LEMMA StartComponentIInv == ASSUME IInv, StartComponent PROVE IInv'
<1>1. Succs' = Succs /\ FirstPass' /\ FinishOrder'
  BY FirstPassFrame DEF StartComponent
<1>2. Emitted' = Emitted
  BY DEF Emitted, StartComponent
<1>3. left \in DOMAIN order /\ order[left] \in Node
  BY DEF IInv, TypeOK, StartComponent
<1>4. TypeOK'
  BY <1>3 DEF IInv, TypeOK, StartComponent, pass1
<1>5. EmittedClosed' /\ BetweenComponents'
  BY <1>1, <1>2 DEF IInv, SecondPass, EmittedClosed, BetweenComponents,
                    StartComponent, pass1
<1>6. Collecting'
  <2>1. /\ seen = Emitted /\ order[left] \notin Emitted
        /\ \A k \in DOMAIN order : k > left => order[k] \in Emitted
    BY DEF IInv, SecondPass, BetweenComponents, StartComponent
  <2>2. Reach(Succs, order[left], order[left]) /\ Cardinality({}) = 0
    BY ReachRefl, FS_EmptySet
  <2> QED
    BY <1>1, <1>2, <2>1, <2>2 DEF Collecting, StartComponent, pass1
<1> QED
  BY <1>1, <1>4, <1>5, <1>6 DEF IInv, SecondPass

LEMMA SkipVisitedIInv == ASSUME IInv, SkipVisited PROVE IInv'
<1>1. Succs' = Succs /\ FirstPass' /\ FinishOrder'
  BY FirstPassFrame DEF SkipVisited
<1>2. Emitted' = Emitted
  BY DEF Emitted, SkipVisited
<1>3. TypeOK'
  BY DEF IInv, TypeOK, SkipVisited, pass1
<1>4. EmittedClosed' /\ Collecting'
  BY <1>1, <1>2 DEF IInv, SecondPass, EmittedClosed, Collecting, SkipVisited
<1>5. BetweenComponents'
  <2>1. \A k \in DOMAIN order : k > left - 1 => k = left \/ k > left
    BY DEF IInv, TypeOK
  <2> QED
    BY <1>2, <2>1 DEF IInv, SecondPass, BetweenComponents, SkipVisited, pass1
<1> QED
  BY <1>1, <1>3, <1>4, <1>5 DEF IInv, SecondPass

LEMMA CollectIInv == ASSUME IInv, NEW n \in Node, Collect(n) PROVE IInv'
<1>1. Succs' = Succs /\ FirstPass' /\ FinishOrder'
  BY FirstPassFrame DEF Collect
<1>2. Emitted' = Emitted
  BY DEF Emitted, Collect
<1> DEFINE P == transpose_graph[n]
<1>3. P = {m \in Node : n \in Succs[m]}
  BY SuccsType DEF IInv, TypeOK
<1>4. /\ n \in frontier /\ iter' = iter + 1
      /\ component' = component \cup {n}
      /\ frontier' = (frontier \ {n}) \cup (P \ seen)
      /\ seen' = seen \cup P
      /\ pc = "collect" /\ pc' = pc /\ left' = left /\ order' = order
      /\ graph' = graph /\ visited' = visited /\ sccs' = sccs /\ stack' = stack
  BY DEF Collect, pass1
<1> HIDE DEF P
<1>5. TypeOK'
  BY <1>3, <1>4 DEF IInv, TypeOK
<1>6. EmittedClosed' /\ BetweenComponents'
  BY <1>1, <1>2, <1>4 DEF IInv, SecondPass, EmittedClosed, BetweenComponents
<1>7. Collecting'
  <2>1. /\ left > 0
        /\ seen = Emitted \cup component \cup frontier
        /\ Emitted \cap (component \cup frontier) = {}
        /\ component \cap frontier = {}
        /\ order[left] \in component \cup frontier
        /\ \A k \in DOMAIN order : k > left => order[k] \in Emitted
        /\ \A v \in component \cup frontier : Reach(Succs, v, order[left])
        /\ \A v \in component : \A x \in Node : v \in Succs[x] => x \in seen
        /\ iter = Cardinality(component)
    BY <1>4 DEF IInv, SecondPass, Collecting
  <2>2. /\ seen' = Emitted \cup component' \cup frontier'
        /\ Emitted \cap (component' \cup frontier') = {}
        /\ component' \cap frontier' = {}
        /\ order[left] \in component' \cup frontier'
    BY <1>4, <2>1
  <2>3. \A v \in component' \cup frontier' : Reach(Succs, v, order[left])
    <3>1. \A v \in P : Reach(Succs, v, order[left])
      BY <1>3, <1>4, <2>1, ReachEdge, ReachTrans
    <3> QED
      BY <1>4, <2>1, <3>1
  <2>4. \A v \in component' : \A x \in Node : v \in Succs[x] => x \in seen'
    BY <1>3, <1>4, <2>1
  <2>5. iter' = Cardinality(component')
    <3>1. IsFiniteSet(component) /\ n \notin component
      BY <1>4, <2>1, NodeAssumption, FS_Subset DEF IInv, TypeOK
    <3> QED
      BY <1>4, <2>1, <3>1, FS_AddElement
  <2> QED
    BY <1>1, <1>2, <1>4, <2>1, <2>2, <2>3, <2>4, <2>5 DEF Collecting
<1> QED
  BY <1>1, <1>5, <1>6, <1>7 DEF IInv, SecondPass

\* When nothing is left on the second stack, the nodes collected are the whole
\* component of the root: the order of finishing keeps every other node out.
LEMMA CollectedIsComponent ==
  ASSUME IInv, EmitComponent
  PROVE  component = Component(Succs, order[left])
<1> DEFINE root == order[left]
<1>1. /\ DOMAIN Succs = Node /\ \A n \in Node : Succs[n] \subseteq Node
      /\ component \subseteq Node
      /\ left \in DOMAIN order /\ root \in Node
      /\ DOMAIN order = 1 .. Len(order) /\ Len(order) \in Nat
  BY SuccsType DEF IInv, TypeOK, SecondPass, Collecting, EmitComponent
<1>2. frontier = {}
  <2>1. iter = bound => iter >= bound
    BY BoundLarge
  <2> QED
    BY <2>1, NeverCut DEF EmitComponent, NeverCutShort
<1>3. /\ seen = Emitted \cup component
      /\ Emitted \cap component = {}
      /\ root \in component
      /\ \A k \in DOMAIN order : k > left => order[k] \in Emitted
      /\ \A v \in component : Reach(Succs, v, root)
      /\ \A v \in component : \A x \in Node : v \in Succs[x] => x \in seen
  BY <1>2 DEF IInv, SecondPass, Collecting, EmitComponent
<1>4. /\ \A x \in Node, y \in Emitted : y \in Succs[x] => x \in Emitted
      /\ \A i \in DOMAIN sccs : sccs[i] \in Components(Succs)
  BY DEF IInv, SecondPass, EmittedClosed
<1>5. \A n \in Node : \E j \in DOMAIN order : order[j] = n
  BY DEF IInv, FirstPass, Colours, SecondPass, BetweenComponents, EmitComponent
<1> HIDE DEF root
<1>6. ASSUME NEW u \in Component(Succs, root) PROVE u \in component
  <2>1. u \in Node /\ Reach(Succs, u, root) /\ Reach(Succs, root, u)
    BY <1>1, <1>6 DEF Component, Mutual
  <2> DEFINE S == {v \in Node : v \notin seen}
  <2>2. u \notin S
    \* An edge out of S would enter seen, which is closed backwards.
    <3> SUFFICES ASSUME u \in S PROVE FALSE
      OBVIOUS
    <3>1. root \notin S /\ S \in SUBSET DOMAIN Succs
      BY <1>1, <1>3
    <3>2. PICK x \in S : \E v \in Succs[x] : v \notin S
      <4> HIDE DEF S
      <4> QED
        BY <2>1, <3>1, ReachLeaves
    <3>3. PICK v \in Succs[x] : v \notin S
      BY <3>2
    <3>4. x \in Node /\ x \notin seen /\ v \in seen
      BY <1>1, <3>2, <3>3
    <3> QED
      BY <1>3, <1>4, <3>4
  <2>3. ASSUME u \in Emitted PROVE FALSE
    <3>1. PICK i \in DOMAIN sccs : u \in sccs[i]
      BY <2>3 DEF Emitted
    <3>2. PICK x \in Node : sccs[i] = Component(Succs, x)
      BY <1>1, <1>4 DEF Components
    <3>3. Reach(Succs, x, u) /\ Reach(Succs, u, x)
      BY <3>1, <3>2 DEF Component, Mutual
    <3>4. root \in sccs[i]
      BY <1>1, <2>1, <3>2, <3>3, ReachTrans DEF Component, Mutual
    <3>5. root \in Emitted
      BY <1>1, <3>4 DEF Emitted
    <3> QED
      BY <1>3, <3>5
  <2> QED
    BY <1>3, <2>1, <2>2, <2>3
<1>7. ASSUME NEW c \in component PROVE c \in Component(Succs, root)
  <2> SUFFICES ASSUME ~ Reach(Succs, root, c) PROVE FALSE
    BY <1>1, <1>3 DEF Component, Mutual
  <2> DEFINE S == {v \in Node : Reach(Succs, c, v)
                                /\ v \notin Component(Succs, root)}
  \* The path from c to the root enters the root's component over x -> y.
  <2>1. PICK x \in S : \E y \in Succs[x] : y \notin S
    <3>1. c \in S
      BY <1>1, ReachRefl DEF Component, Mutual
    <3>2. root \notin S
      BY <1>1, ReachRefl DEF Component, Mutual
    <3>3. Reach(Succs, c, root) /\ S \in SUBSET DOMAIN Succs
      BY <1>1, <1>3
    <3> HIDE DEF S
    <3> QED
      BY <3>1, <3>2, <3>3, ReachLeaves
  <2>2. PICK y \in Succs[x] : y \notin S
    BY <2>1
  <2>3. x \in Node /\ Reach(Succs, c, x) /\ x \notin Component(Succs, root)
    BY <2>1
  <2>4. y \in Node /\ y \in Component(Succs, root)
    BY <1>1, <2>2, <2>3, ReachEdge, ReachTrans
  <2>5. ~ Reach(Succs, y, x)
    BY <1>1, <2>3, <2>4, ReachEdge, ReachTrans DEF Component, Mutual
  <2>6. PICK j \in DOMAIN order : order[j] = x
    BY <1>5, <2>3
  <2>7. root \in Component(Succs, y)
    BY <1>1, <2>4 DEF Component, Mutual
  <2>8. PICK i \in 1 .. j - 1 : order[i] = root
    BY <2>5, <2>6, <2>7 DEF IInv, FinishOrder
  <2>9. j > left
    <3>1. i = left
      BY <1>1, <2>6, <2>8 DEF IInv, FirstPass, Colours, root
    <3> QED
      BY <1>1, <2>6, <2>8, <3>1
  <2>10. x \in Emitted
    BY <1>3, <2>6, <2>9
  <2> DEFINE T == {v \in Node : v \notin Emitted}
  <2>11. c \in T /\ x \notin T
    BY <1>1, <1>3, <2>10
  <2>12. PICK v \in T : \E w \in Succs[v] : w \notin T
    <3>1. Reach(Succs, c, x) /\ T \in SUBSET DOMAIN Succs
      BY <1>1, <2>3
    <3> HIDE DEF T
    <3> QED
      BY <2>11, <3>1, ReachLeaves
  <2> QED
    BY <1>1, <1>4, <2>12
<1> QED
  BY <1>6, <1>7 DEF root

LEMMA EmitComponentIInv == ASSUME IInv, EmitComponent PROVE IInv'
<1>1. Succs' = Succs /\ FirstPass' /\ FinishOrder'
  BY FirstPassFrame DEF EmitComponent
<1> DEFINE M == Len(sccs)
<1>2. /\ sccs \in Seq(SUBSET Node) /\ component \subseteq Node
      /\ left \in DOMAIN order /\ order[left] \in Node /\ left - 1 \in 0 .. Len(order)
      /\ DOMAIN Succs = Node
  BY SuccsType DEF IInv, TypeOK, SecondPass, Collecting, EmitComponent
<1>3. /\ M \in Nat /\ DOMAIN sccs = 1 .. M
      /\ sccs' \in Seq(SUBSET Node) /\ DOMAIN sccs' = 1 .. M + 1
      /\ \A i \in 1 .. M : sccs'[i] = sccs[i]
      /\ sccs'[M + 1] = component
  BY <1>2, AppendSeq DEF EmitComponent
<1>4. frontier = {}
  <2>1. iter = bound => iter >= bound
    BY BoundLarge
  <2> QED
    BY <2>1, NeverCut DEF EmitComponent, NeverCutShort
<1>5. /\ seen = Emitted \cup component
      /\ Emitted \cap component = {}
      /\ order[left] \in component
      /\ \A k \in DOMAIN order : k > left => order[k] \in Emitted
      /\ \A v \in component : \A x \in Node : v \in Succs[x] => x \in seen
  BY <1>4 DEF IInv, SecondPass, Collecting, EmitComponent
<1> HIDE DEF M
<1>6. Emitted' = Emitted \cup component
  BY <1>2, <1>3 DEF Emitted
<1>7. TypeOK'
  BY <1>2, <1>3 DEF IInv, TypeOK, EmitComponent, pass1
<1>8. EmittedClosed'
  <2>1. component \in Components(Succs)
    BY <1>2, CollectedIsComponent DEF Components
  <2>2. \A i \in DOMAIN sccs' : sccs'[i] \in Components(Succs')
    BY <1>1, <1>3, <2>1 DEF IInv, SecondPass, EmittedClosed
  <2>3. \A i, j \in DOMAIN sccs' : i # j => sccs'[i] \cap sccs'[j] = {}
    <3>1. \A i \in 1 .. M : sccs[i] \subseteq Emitted
      BY <1>2, <1>3 DEF Emitted
    <3>2. \A i, j \in 1 .. M : i # j => sccs[i] \cap sccs[j] = {}
      BY <1>3 DEF IInv, SecondPass, EmittedClosed
    <3>3. \A i \in 1 .. M + 1 : i \in 1 .. M \/ i = M + 1
      BY <1>3
    <3> QED
      BY <1>3, <1>5, <3>1, <3>2, <3>3
  <2>4. \A x \in Node, y \in Emitted' : y \in Succs'[x] => x \in Emitted'
    BY <1>1, <1>5, <1>6 DEF IInv, SecondPass, EmittedClosed
  <2> QED
    BY <2>2, <2>3, <2>4 DEF EmittedClosed
<1>9. BetweenComponents'
  <2>1. \A k \in DOMAIN order : k > left - 1 => k = left \/ k > left
    BY DEF IInv, TypeOK
  <2> QED
    BY <1>4, <1>5, <1>6, <2>1
    DEF IInv, SecondPass, BetweenComponents, EmitComponent, pass1
<1>10. Collecting'
  BY DEF Collecting, EmitComponent
<1> QED
  BY <1>1, <1>7, <1>8, <1>9, <1>10 DEF IInv, SecondPass

LEMMA ReturnIInv == ASSUME IInv, Return PROVE IInv'
<1>1. Succs' = Succs /\ FirstPass' /\ FinishOrder'
  BY FirstPassFrame DEF Return
<1>2. Emitted' = Emitted
  BY DEF Emitted, Return, pass2
<1> QED
  BY <1>1, <1>2 DEF IInv, TypeOK, SecondPass, EmittedClosed, BetweenComponents,
                    Collecting, Return, pass1, pass2

LEMMA StutterIInv == ASSUME IInv, UNCHANGED vars PROVE IInv'
<1>1. Succs' = Succs /\ Emitted' = Emitted
  BY DEF vars, Succs, Emitted
<1>2. TypeOK'
  BY DEF IInv, TypeOK, vars
<1>3. FirstPass' /\ FinishOrder'
  BY <1>1 DEF IInv, FirstPass, Colours, StackPath, Scanned, FinishedClosed,
              WalkBudget, FinishOrder, vars
<1>4. SecondPass'
  BY <1>1 DEF IInv, SecondPass, EmittedClosed, BetweenComponents, Collecting, vars
<1> QED
  BY <1>2, <1>3, <1>4 DEF IInv

LEMMA NextIInv == IInv /\ [Next]_vars => IInv'
<1> SUFFICES ASSUME IInv, [Next]_vars PROVE IInv'
  OBVIOUS
<1>1. ASSUME NEW n \in Node, StartWalk(n) PROVE IInv'
  BY <1>1, StartWalkIInv
<1>2. CASE Descend
  BY <1>2, DescendIInv
<1>3. CASE FinishNode
  BY <1>3, FinishNodeIInv
<1>4. CASE EndWalk
  BY <1>4, EndWalkIInv
<1>5. CASE Transpose
  BY <1>5, TransposeIInv
<1>6. CASE StartComponent
  BY <1>6, StartComponentIInv
<1>7. CASE SkipVisited
  BY <1>7, SkipVisitedIInv
<1>8. ASSUME NEW n \in Node, Collect(n) PROVE IInv'
  BY <1>8, CollectIInv
<1>9. CASE EmitComponent
  BY <1>9, EmitComponentIInv
<1>10. CASE Return
  BY <1>10, ReturnIInv
<1>11. CASE Terminating \/ UNCHANGED vars
  BY <1>11, StutterIInv DEF Terminating
<1> QED
  BY <1>1, <1>2, <1>3, <1>4, <1>5, <1>6, <1>7, <1>8, <1>9, <1>10, <1>11 DEF Next

LEMMA Invariance == Spec => []IInv
BY InitIInv, NextIInv, PTL DEF Spec

-----------------------------------------------------------------------------
(* The results.                                                            *)

\* The variables keep their types and no cursor overruns its list.
THEOREM TypeCorrect == Spec => []TypeOK
<1>1. IInv => TypeOK
  BY DEF IInv
<1> QED
  BY <1>1, Invariance, PTL

\* Whatever the graph, range(n * n) is long enough for every walk: sccs.bzl
\* never drops a node by running out of iterations.
THEOREM WalksComplete == Spec => []NeverCutShort
BY NeverCut, Invariance, PTL

\* The finishing order computed by the first pass has Kosaraju's property.
THEOREM FinishOrderCorrect == Spec => []FinishOrder
<1>1. IInv => FinishOrder
  BY DEF IInv
<1> QED
  BY <1>1, Invariance, PTL

\* sccs(graph) lists exactly the strongly connected components, each once.
THEOREM SccsCorrect == Spec => []ComponentsExact
<1>1. ASSUME IInv, pc = "done"
      PROVE  Components(Succs) = {sccs[i] : i \in DOMAIN sccs}
  <2>1. /\ \A i \in DOMAIN sccs : sccs[i] \in Components(Succs)
        /\ DOMAIN Succs = Node
    BY <1>1, SuccsType DEF IInv, TypeOK, SecondPass, EmittedClosed
  <2>2. \A n \in Node : n \in Emitted
    <3>1. \A n \in Node : \E k \in DOMAIN order : order[k] = n
      BY <1>1 DEF IInv, FirstPass, Colours, SecondPass, BetweenComponents
    <3>2. \A k \in DOMAIN order : k > left
      BY <1>1 DEF IInv, TypeOK, SecondPass, BetweenComponents
    <3> QED
      BY <1>1, <3>1, <3>2 DEF IInv, SecondPass, BetweenComponents
  <2>3. ASSUME NEW x \in Node
        PROVE  \E i \in DOMAIN sccs : sccs[i] = Component(Succs, x)
    <3>1. PICK i \in DOMAIN sccs : x \in sccs[i]
      BY <2>2 DEF Emitted
    <3>2. PICK y \in Node : sccs[i] = Component(Succs, y)
      BY <2>1 DEF Components
    <3>3. Reach(Succs, x, y) /\ Reach(Succs, y, x)
      BY <3>1, <3>2 DEF Component, Mutual
    <3>4. Component(Succs, x) = Component(Succs, y)
      BY <3>3, ReachTrans DEF Component, Mutual
    <3> QED
      BY <3>2, <3>4
  <2> QED
    BY <2>1, <2>3 DEF Components
<1>2. IInv => ComponentsExact
  BY <1>1 DEF ComponentsExact, IInv, SecondPass, EmittedClosed
<1> QED
  BY <1>2, Invariance, PTL
=============================================================================
