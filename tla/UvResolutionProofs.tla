------------------------- MODULE UvResolutionProofs -------------------------
(***************************************************************************)
(* Proofs about UvResolution for any packages, groups and locks: each walk *)
(* finds what its group's requirements reach, interning the ids of         *)
(* components across the groups never mixes two groups' tables up, and     *)
(* where a group settles its versions, its aliases are closed and install  *)
(* all that it needs, nothing that it does not activate and one version of *)
(* each package.                                                           *)
(***************************************************************************)
EXTENDS UvResolution, SequenceTheorems, FiniteSetTheorems, TLAPS

-----------------------------------------------------------------------------
(* Types.                                                                  *)

LEMMA NodeFields ==
  ASSUME NEW n
  PROVE  n \in Node <=>
           /\ n = [pkg |-> n.pkg, ver |-> n.ver, extra |-> n.extra]
           /\ n.pkg \in Pkg /\ n.ver \in Releases[n.pkg]
           /\ n.extra \in Extras[n.pkg] \cup {Base}
<1>1. ASSUME n \in Node
      PROVE  /\ n = [pkg |-> n.pkg, ver |-> n.ver, extra |-> n.extra]
             /\ n.pkg \in Pkg /\ n.ver \in Releases[n.pkg]
             /\ n.extra \in Extras[n.pkg] \cup {Base}
  <2>1. PICK p \in Pkg : n \in [pkg : {p}, ver : Releases[p], extra : Extras[p] \cup {Base}]
    BY <1>1 DEF Node
  <2> QED
    BY <2>1
<1>2. ASSUME /\ n = [pkg |-> n.pkg, ver |-> n.ver, extra |-> n.extra]
             /\ n.pkg \in Pkg /\ n.ver \in Releases[n.pkg]
             /\ n.extra \in Extras[n.pkg] \cup {Base}
      PROVE  n \in Node
  <2>1. n \in [pkg : {n.pkg}, ver : Releases[n.pkg], extra : Extras[n.pkg] \cup {Base}]
    BY <1>2
  <2> QED
    BY <1>2, <2>1 DEF Node
<1> QED
  BY <1>1, <1>2

LEMMA EdgesType ==
  ASSUME lock \in Lock
  PROVE  Edges \subseteq [from : Node, to : Node, marker : Marker]
<1>1. SUFFICES ASSUME NEW d \in lock.deps, NEW e \in {Base} \cup d.extras
      PROVE  [from |-> d.from, to |-> [d.to EXCEPT !.extra = e], marker |-> d.marker]
               \in [from : Node, to : Node, marker : Marker]
  BY DEF Edges
<1>2. /\ d.from \in Node /\ d.to \in Node /\ d.marker \in Marker
      /\ d.extras \subseteq Extras[d.to.pkg]
  BY DEF Lock, Dependency
<1>3. [d.to EXCEPT !.extra = e] = [pkg |-> d.to.pkg, ver |-> d.to.ver, extra |-> e]
  BY <1>2, NodeFields
<1>4. [d.to EXCEPT !.extra = e] \in Node
  BY <1>2, <1>3, NodeFields
<1> QED
  BY <1>2, <1>4

LEMMA RootsType ==
  ASSUME lock \in Lock, NEW g \in Group, NEW r \in lock.roots[g]
  PROVE  r.dep \in Node /\ r.marker \in Marker
BY DEF Lock

LEMMA RedirectType ==
  ASSUME lock \in Lock, NEW g \in Group, NEW n \in Node
  PROVE  Redirect(g, n) \in Node
<1>1. CASE \E r \in lock.roots[g] : r.dep.pkg = n.pkg /\ r.dep.ver # n.ver
  <2> DEFINE r == CHOOSE r \in lock.roots[g] : r.dep.pkg = n.pkg
  <2>1. r \in lock.roots[g] /\ r.dep.pkg = n.pkg
    BY <1>1
  <2> HIDE DEF r
  <2>2. r.dep.ver \in Releases[n.pkg]
    BY <2>1, RootsType, NodeFields
  <2>3. [n EXCEPT !.ver = r.dep.ver] = [pkg |-> n.pkg, ver |-> r.dep.ver, extra |-> n.extra]
    BY NodeFields
  <2>4. [n EXCEPT !.ver = r.dep.ver] \in Node
    BY <2>2, <2>3, NodeFields
  <2>5. Redirect(g, n) = [n EXCEPT !.ver = r.dep.ver]
    BY <1>1 DEF Redirect, r
  <2> QED
    BY <2>4, <2>5
<1>2. CASE ~\E r \in lock.roots[g] : r.dep.pkg = n.pkg /\ r.dep.ver # n.ver
  BY <1>2 DEF Redirect
<1> QED
  BY <1>1, <1>2

\* The lock as a group sees it is a graph over the nodes.
LEMMA GroupGraphType ==
  ASSUME lock \in Lock, NEW g \in Group
  PROVE  /\ DOMAIN GroupGraph(g) = Node
         /\ \A n \in Node : GroupGraph(g)[n] \subseteq Node
         /\ {r.dep : r \in lock.roots[g]} \subseteq Node
<1>1. \A e \in Edges : e.to \in Node
  BY EdgesType
<1>2. \A e \in Edges : Redirect(g, e.to) \in Node
  BY <1>1, RedirectType
<1>3. {r.dep : r \in lock.roots[g]} \subseteq Node
  BY RootsType
<1> QED
  BY <1>2, <1>3 DEF GroupGraph

-----------------------------------------------------------------------------
(* The walks.                                                              *)

Requirements(g) == {r.dep : r \in lock.roots[g]}

WalkTypes ==
  /\ lock \in Lock
  /\ pc \in {"seed", "groups", "walk", "walked", "intern", "collate", "emitted", "no_alias"}
  /\ pc \in {"walk", "intern"} => group \in Group
  /\ walked \subseteq Group
  /\ pending \subseteq Node
  /\ visited \subseteq Node
  /\ activated \subseteq [group : Group, dep : Node, marker : Marker]
  /\ pc = "seed" => walked = {} /\ activated = {}

\* Once seeded, a group has its requirements and nothing they do not reach,
\* and all of that once its walk is over.
WalkTables ==
  pc # "seed" => \A g \in Group :
    /\ Requirements(g) \subseteq ActiveIn(g)
    /\ ActiveIn(g) \subseteq ReachedFromRoots(g)
    /\ g \in walked => ReachedFromRoots(g) \subseteq ActiveIn(g)

\* What a walk has seen is active, holds the requirements, and is closed but
\* for the nodes of the worklist.
Frontier ==
  pc = "walk" =>
    /\ Requirements(group) \subseteq visited \cup pending
    /\ visited \cup pending \subseteq ActiveIn(group)
    /\ \A n \in visited \ pending : GroupGraph(group)[n] \subseteq visited \cup pending

WalkIInv == WalkTypes /\ WalkTables /\ Frontier

LEMMA InitWalkIInv == InitWalk => WalkIInv
BY LocksAssumption DEF InitWalk, WalkIInv, WalkTypes, WalkTables, Frontier

\* What is reached from a set is the least closed set that holds it.
LEMMA ReachFromLeast ==
  ASSUME NEW G, NEW X, NEW S \in SUBSET DOMAIN G, X \subseteq S, Closed(G, S)
  PROVE  ReachFrom(G, X) \subseteq S
BY DEF ReachFrom

LEMMA ReachFromHolds ==
  ASSUME NEW G, NEW X \in SUBSET DOMAIN G
  PROVE  X \subseteq ReachFrom(G, X)
BY DEF ReachFrom

LEMMA ReachFromClosed ==
  ASSUME NEW G, NEW X, NEW n \in ReachFrom(G, X), G[n] \subseteq DOMAIN G
  PROVE  G[n] \subseteq ReachFrom(G, X)
BY DEF ReachFrom, Closed

\* Steps that leave the walk's variables alone.
LEMMA WalkStays ==
  ASSUME WalkIInv, UNCHANGED <<lock, walked, pending, visited, activated>>,
         pc' \in {"walked", "intern", "collate", "emitted", "no_alias"},
         pc # "seed", pc' = "intern" => group' \in Group
  PROVE  WalkIInv'
<1>1. WalkTypes'
  BY DEF WalkIInv, WalkTypes
<1>2. \A g \in Group : /\ Requirements(g)' = Requirements(g)
                       /\ ActiveIn(g)' = ActiveIn(g)
                       /\ ReachedFromRoots(g)' = ReachedFromRoots(g)
  BY DEF Requirements, ActiveIn, ReachedFromRoots, GroupGraph, Redirect, Edges
<1>3. WalkTables'
  BY <1>2 DEF WalkIInv, WalkTables
<1> QED
  BY <1>1, <1>3 DEF WalkIInv, Frontier

\* When the worklist is empty, the walk has seen all that is reached.
LEMMA WalkEnds ==
  ASSUME WalkTypes, Frontier, EndWalk
  PROVE  ReachedFromRoots(group) \subseteq visited
<1>1. Closed(GroupGraph(group), visited) /\ Requirements(group) \subseteq visited
  BY DEF EndWalk, Frontier, Closed
<1>2. visited \in SUBSET DOMAIN GroupGraph(group)
  BY GroupGraphType DEF EndWalk, WalkTypes
<1> QED
  BY <1>1, <1>2, ReachFromLeast DEF ReachedFromRoots, Requirements

\* Everything a walk does keeps its invariant.
LEMMA WalkNextIInv == ASSUME WalkIInv, WalkNext PROVE WalkIInv'
<1> USE DEF WalkIInv
<1>l. lock' = lock /\ lock \in Lock
  BY DEF WalkNext, Seed, StartWalk, Visit, EndWalk, WalkTypes
<1>r. \A g \in Group : /\ Requirements(g)' = Requirements(g)
                       /\ GroupGraph(g)' = GroupGraph(g)
                       /\ ReachedFromRoots(g)' = ReachedFromRoots(g)
  BY <1>l DEF Requirements, ReachedFromRoots, GroupGraph, Redirect, Edges
<1>t. \A g \in Group : /\ DOMAIN GroupGraph(g) = Node
                       /\ \A n \in Node : GroupGraph(g)[n] \subseteq Node
                       /\ Requirements(g) \subseteq Node
  BY <1>l, GroupGraphType DEF Requirements
<1>1. CASE Seed
  <2>1. WalkTypes'
    <3>1. \A g \in Group : \A r \in lock.roots[g] :
            Activates(g, r.dep, r.marker) \in [group : Group, dep : Node, marker : Marker]
      BY <1>l, RootsType DEF Activates
    <3>2. activated' \subseteq [group : Group, dep : Node, marker : Marker]
      BY <1>1, <3>1 DEF Seed
    <3> QED
      BY <1>1, <3>2 DEF Seed, WalkTypes
  <2>2. \A g \in Group : ActiveIn(g)' = Requirements(g)
    <3>1. activated' = UNION {{[group |-> g, dep |-> r.dep, marker |-> r.marker] :
                                 r \in lock.roots[g]} : g \in Group}
      BY <1>1 DEF Seed, Activates
    <3>2. ASSUME NEW g \in Group, NEW n
          PROVE  n \in ActiveIn(g)' <=> n \in Requirements(g)
      <4>1. n \in ActiveIn(g)' <=> \E a \in activated' : a.group = g /\ a.dep = n
        BY DEF ActiveIn
      <4>2. ASSUME NEW a \in activated', a.group = g, a.dep = n
            PROVE  \E r \in lock.roots[g] : r.dep = n
        <5>1. PICK h \in Group : \E r \in lock.roots[h] :
                a = [group |-> h, dep |-> r.dep, marker |-> r.marker]
          BY <3>1
        <5> QED
          BY <4>2, <5>1
      <4>3. ASSUME NEW r \in lock.roots[g], r.dep = n
            PROVE  \E a \in activated' : a.group = g /\ a.dep = n
        <5>1. [group |-> g, dep |-> r.dep, marker |-> r.marker] \in activated'
          BY <3>1
        <5> QED
          BY <4>3, <5>1
      <4> QED
        BY <4>1, <4>2, <4>3 DEF Requirements
    <3>3. ASSUME NEW g \in Group
          PROVE  ActiveIn(g)' \subseteq Requirements(g) /\ Requirements(g) \subseteq ActiveIn(g)'
      BY <3>2
    <3> QED
      BY <3>3
  <2>3. \A g \in Group : Requirements(g) \subseteq ReachedFromRoots(g)
    BY <1>t, ReachFromHolds DEF ReachedFromRoots, Requirements
  <2>4. WalkTables'
    BY <1>1, <1>r, <2>2, <2>3 DEF WalkTables, WalkTypes, Seed
  <2> QED
    BY <1>1, <2>1, <2>4 DEF Seed, Frontier
<1>2. ASSUME NEW g \in Group, StartWalk(g) PROVE WalkIInv'
  <2>1. \A h \in Group : ActiveIn(h)' = ActiveIn(h)
    BY <1>2 DEF StartWalk, ActiveIn
  <2>2. WalkTypes'
    BY <1>2, <1>t DEF StartWalk, WalkTypes, Requirements
  <2>3. WalkTables'
    BY <1>2, <1>r, <2>1 DEF StartWalk, WalkTables
  <2>4. Frontier'
    BY <1>2, <1>r, <2>1 DEF StartWalk, WalkTables, Frontier, Requirements
  <2> QED
    BY <2>2, <2>3, <2>4
<1>3. ASSUME NEW n \in pending, Visit(n) PROVE WalkIInv'
  <2> DEFINE out == {e \in Edges : e.from = n}
             targets == {Redirect(group, e.to) : e \in out}
             new == {Activates(group, Redirect(group, e.to), e.marker) : e \in out}
  <2>1. /\ pc = "walk" /\ pc' = "walk" /\ group \in Group /\ group' = group
        /\ n \in Node /\ walked' = walked
        /\ activated' = activated \cup new
        /\ visited' = visited \cup {n} \cup targets
        /\ pending' = (pending \ {n}) \cup (targets \ (visited \cup {n}))
    BY <1>3 DEF Visit, WalkTypes
  <2>2. targets = GroupGraph(group)[n]
    BY <2>1 DEF GroupGraph
  <2>3. targets \subseteq Node
    BY <2>1, <2>2, <1>t
  <2>4. new \subseteq [group : Group, dep : Node, marker : Marker]
    <3>1. \A e \in out : Redirect(group, e.to) \in Node /\ e.marker \in Marker
      BY <1>l, <2>3, EdgesType
    <3> QED
      BY <2>1, <3>1 DEF Activates
  <2>5. {a.dep : a \in new} = targets /\ \A a \in new : a.group = group
    <3>1. \A e \in out : LET a == Activates(group, Redirect(group, e.to), e.marker)
                          IN  a.dep = Redirect(group, e.to) /\ a.group = group
      BY DEF Activates
    <3>2. \A a \in new : a.dep \in targets /\ a.group = group
      BY <3>1
    <3>3. \A m \in targets : \E a \in new : a.dep = m
      BY <3>1
    <3> HIDE DEF out, targets, new
    <3> QED
      BY <3>2, <3>3
  <2> HIDE DEF out, targets, new
  <2>6. \A h \in Group : ActiveIn(h)' = IF h = group THEN ActiveIn(h) \cup targets ELSE ActiveIn(h)
    BY <2>1, <2>5 DEF ActiveIn
  <2>7. WalkTypes'
    BY <1>3, <2>1, <2>3, <2>4 DEF WalkTypes, Visit
  <2>8. n \in ActiveIn(group)
    BY <2>1 DEF Frontier
  <2>9. targets \subseteq ReachedFromRoots(group)
    <3>1. n \in ReachedFromRoots(group)
      BY <2>1, <2>8 DEF WalkTables
    <3> QED
      BY <1>t, <2>1, <2>2, <3>1, ReachFromClosed DEF ReachedFromRoots
  <2>10. WalkTables'
    BY <1>r, <2>1, <2>6, <2>9 DEF WalkTables
  <2>11. Frontier'
    <3>1. /\ Requirements(group) \subseteq visited \cup pending
          /\ visited \cup pending \subseteq ActiveIn(group)
          /\ \A m \in visited \ pending : GroupGraph(group)[m] \subseteq visited \cup pending
      BY <2>1 DEF Frontier
    <3>2. visited' \cup pending' = visited \cup pending \cup targets
      BY <1>3, <2>1
    <3>3. \A m \in visited' \ pending' : m = n \/ m \in visited \ pending
      BY <2>1
    <3>4. \A m \in visited' \ pending' : GroupGraph(group)[m] \subseteq visited' \cup pending'
      BY <2>2, <3>1, <3>2, <3>3
    <3>5. visited' \cup pending' \subseteq ActiveIn(group)'
      BY <2>1, <2>6, <3>1, <3>2
    <3>6. /\ Requirements(group)' = Requirements(group)
          /\ GroupGraph(group)' = GroupGraph(group)
      BY <1>l, <2>1 DEF Requirements, GroupGraph, Redirect, Edges
    <3> QED
      BY <2>1, <3>1, <3>2, <3>4, <3>5, <3>6 DEF Frontier
  <2> QED
    BY <2>7, <2>10, <2>11
<1>4. CASE EndWalk
  <2>1. WalkTypes'
    BY <1>4 DEF EndWalk, WalkTypes
  <2>2. \A h \in Group : ActiveIn(h)' = ActiveIn(h)
    BY <1>4 DEF EndWalk, ActiveIn
  <2>3. ReachedFromRoots(group) \subseteq visited
    BY <1>4, WalkEnds
  <2>4. visited \subseteq ActiveIn(group)
    BY <1>4 DEF EndWalk, Frontier
  <2>5. WalkTables'
    BY <1>4, <1>r, <2>2, <2>3, <2>4 DEF EndWalk, WalkTables
  <2> QED
    BY <1>4, <2>1, <2>5 DEF EndWalk, Frontier
<1> QED
  BY <1>1, <1>2, <1>3, <1>4 DEF WalkNext

-----------------------------------------------------------------------------
(* The interning.                                                          *)

SameStem(S) == {i \in interned : i.id.stem = S}

\* Ids are numbered by the components that use their stem, so that no two
\* contents have one id.
IdsUnique ==
  /\ IsFiniteSet(interned)
  /\ \A i \in interned :
       /\ i = [key |-> i.key, id |-> i.id]
       /\ i.id = [stem |-> i.id.stem, n |-> i.id.n]
       /\ i.id.n \in Nat /\ i.id.n < Cardinality(SameStem(i.id.stem))
  /\ \A i, j \in interned : i.id = j.id => i = j

\* The tables hold, at an id, the content it was interned for.
TablesAtIds ==
  /\ DOMAIN scc_graph = DOMAIN scc_deps
  /\ \A i \in interned : i.id \in DOMAIN scc_deps =>
       DOMAIN scc_graph[i.id] = i.key.members /\ scc_deps[i.id] = i.key.deps

\* A node's id in a group is that of its component there.
NodesAtIds ==
  \A s \in cfg_sccs : \E i \in interned :
    /\ i.id = s.scc
    /\ i.key = content_key(s.group, Component(Simplified(s.group), s.node))

InternIInv ==
  /\ IdsUnique /\ TablesAtIds /\ NodesAtIds
  /\ pc = "intern" => components \subseteq Components(Simplified(group))
  /\ pc \in {"seed", "groups", "walk"} => interned = {} /\ cfg_sccs = {}

LEMMA InitInternIInv == Init => InternIInv
<1> SUFFICES ASSUME Init PROVE InternIInv
  OBVIOUS
<1>1. DOMAIN scc_graph = DOMAIN scc_deps
  BY DEF Init
<1> QED
  BY <1>1, FS_EmptySet DEF Init, InitWalk, InternIInv, IdsUnique, TablesAtIds, NodesAtIds

\* A node's component is the component of every node in it.
LEMMA ComponentOfMember ==
  ASSUME NEW G, NEW C \in Components(G), NEW m \in C
  PROVE  C = Component(G, m)
<1>1. PICK x \in DOMAIN G : C = Component(G, x)
  BY DEF Components
<1>2. m \in DOMAIN G /\ Reach(G, x, m) /\ Reach(G, m, x)
  BY <1>1 DEF Component, Mutual
<1>3. ASSUME NEW y \in DOMAIN G PROVE Mutual(G, x, y) <=> Mutual(G, m, y)
  BY <1>2 DEF Mutual, Reach
<1> QED
  BY <1>1, <1>3 DEF Component

\* What a group's graph says depends on the lock and the walks alone.
LEMMA GraphStays ==
  ASSUME lock' = lock, activated' = activated
  PROVE  \A g, C : /\ Simplified(g)' = Simplified(g)
                   /\ Outgoing(g, C)' = Outgoing(g, C)
                   /\ content_key(g, C)' = content_key(g, C)
BY DEF Simplified, Outgoing, content_key, Configured, Edges

LEMMA InternStays ==
  ASSUME InternIInv, UNCHANGED <<lock, activated, interned, cfg_sccs>>,
         TablesAtIds', pc' # "seed", pc' = "intern" => components' \subseteq Components(Simplified(group))',
         pc' \in {"groups", "walk"} => interned = {} /\ cfg_sccs = {}
  PROVE  InternIInv'
<1>1. IdsUnique'
  BY DEF InternIInv, IdsUnique, SameStem
<1>2. NodesAtIds'
  <2> SUFFICES ASSUME NEW s \in cfg_sccs
               PROVE  \E i \in interned :
                        /\ i.id = s.scc
                        /\ i.key = content_key(s.group, Component(Simplified(s.group), s.node))'
    BY DEF NodesAtIds
  <2>1. content_key(s.group, Component(Simplified(s.group), s.node))'
          = content_key(s.group, Component(Simplified(s.group), s.node))
    BY GraphStays DEF content_key
  <2> QED
    BY <2>1 DEF InternIInv, NodesAtIds
<1> QED
  BY <1>1, <1>2 DEF InternIInv

\* Interning one component.
LEMMA InternStep == ASSUME InternIInv, NEW C \in components, Intern(C) PROVE InternIInv'
<1> DEFINE key == content_key(group, C)
           known == {i \in interned : i.key = key}
           id == IF known = {} THEN DeriveId(C) ELSE (CHOOSE i \in known : TRUE).id
           r == [key |-> key, id |-> id]
<1>1. /\ pc = "intern" /\ UNCHANGED vars
      /\ interned' = interned \cup {r}
      /\ scc_graph' = Put(scc_graph, id, MemberMarkers(group, C))
      /\ scc_deps' = Put(scc_deps, id, Outgoing(group, C))
      /\ cfg_sccs' = cfg_sccs \cup {[node |-> m, group |-> group, scc |-> id] : m \in C}
      /\ components' = components \ {C}
  BY DEF Intern
<1>2. key.members = C /\ key.deps = Outgoing(group, C)
  BY DEF content_key
<1>3. DOMAIN MemberMarkers(group, C) = C
  BY DEF MemberMarkers
<1>4. C \in Components(Simplified(group)) /\ IdsUnique /\ TablesAtIds /\ NodesAtIds
  BY <1>1 DEF InternIInv
<1> HIDE DEF key
<1>5. \/ r \in interned
      \/ known = {} /\ id = [stem |-> Stem(C), n |-> Cardinality(SameStem(Stem(C)))]
  <2>1. CASE known = {}
    BY <2>1 DEF DeriveId, SameStem
  <2>2. CASE known # {}
    <3>1. PICK i \in known : i = CHOOSE j \in known : TRUE
      BY <2>2
    <3>2. i \in interned /\ i.key = key /\ id = i.id
      BY <2>2, <3>1
    <3> QED
      BY <1>4, <3>2 DEF IdsUnique
  <2> QED
    BY <2>1, <2>2
<1> HIDE DEF known, id
<1>6. r.key = key /\ r.id = id /\ r = [key |-> r.key, id |-> r.id]
  OBVIOUS
<1> HIDE DEF r
<1>7. IdsUnique'
  <2>1. CASE r \in interned
    <3>1. interned' = interned
      BY <1>1, <2>1
    <3>2. \A T : SameStem(T)' = SameStem(T)
      BY <3>1 DEF SameStem
    <3> QED
      BY <1>4, <3>1, <3>2 DEF IdsUnique
  <2>2. CASE r \notin interned
    <3> DEFINE S == Stem(C)
    <3>1. id = [stem |-> S, n |-> Cardinality(SameStem(S))]
      BY <1>5, <2>2
    <3> HIDE DEF S
    <3>2. IsFiniteSet(interned')
      BY <1>1, <1>4, FS_AddElement DEF IdsUnique
    <3>3. \A T : IsFiniteSet(SameStem(T)) /\ Cardinality(SameStem(T)) \in Nat
      BY <1>4, FS_Subset, FS_CardinalityType DEF IdsUnique, SameStem
    <3>4. \A T : SameStem(T)' = IF T = S THEN SameStem(T) \cup {r} ELSE SameStem(T)
      BY <1>1, <1>6, <3>1 DEF SameStem
    <3>5. Cardinality(SameStem(S) \cup {r}) = Cardinality(SameStem(S)) + 1
      <4>1. r \notin SameStem(S)
        BY <2>2 DEF SameStem
      <4> QED
        BY <3>3, <4>1, FS_AddElement
    <3>6. \A i \in interned : i.id # id
      BY <1>4, <3>1, <3>3 DEF IdsUnique
    <3>7. ASSUME NEW i \in interned'
          PROVE  /\ i = [key |-> i.key, id |-> i.id]
                 /\ i.id = [stem |-> i.id.stem, n |-> i.id.n]
                 /\ i.id.n \in Nat /\ i.id.n < Cardinality(SameStem(i.id.stem))'
      <4>1. CASE i \in interned
        <5>1. i.id.n \in Nat /\ i.id.n < Cardinality(SameStem(i.id.stem))
          BY <1>4, <4>1 DEF IdsUnique
        <5>2. i.id.n < Cardinality(SameStem(i.id.stem))'
          <6>1. CASE i.id.stem = S
            <7>1. Cardinality(SameStem(i.id.stem))' = Cardinality(SameStem(S)) + 1
              BY <3>4, <3>5, <6>1
            <7> QED
              BY <3>3, <5>1, <6>1, <7>1
          <6>2. CASE i.id.stem # S
            BY <3>4, <5>1, <6>2
          <6> QED
            BY <6>1, <6>2
        <5> QED
          BY <1>4, <4>1, <5>1, <5>2 DEF IdsUnique
      <4>2. CASE i = r
        <5>1. i.id.stem = S /\ i.id.n = Cardinality(SameStem(S))
          BY <1>6, <3>1, <4>2
        <5>2. Cardinality(SameStem(S))' = Cardinality(SameStem(S)) + 1
          BY <3>4, <3>5
        <5> QED
          BY <1>6, <3>1, <3>3, <4>2, <5>1, <5>2
      <4> QED
        BY <1>1, <4>1, <4>2
    <3>8. \A i, j \in interned' : i.id = j.id => i = j
      BY <1>1, <1>4, <1>6, <3>6 DEF IdsUnique
    <3> QED
      BY <3>2, <3>7, <3>8 DEF IdsUnique
  <2> QED
    BY <2>1, <2>2
<1>8. TablesAtIds'
  <2>1. /\ DOMAIN scc_graph' = DOMAIN scc_deps' /\ id \in DOMAIN scc_deps'
        /\ DOMAIN scc_deps' = DOMAIN scc_deps \cup {id}
        /\ scc_graph'[id] = MemberMarkers(group, C) /\ scc_deps'[id] = Outgoing(group, C)
        /\ \A x \in DOMAIN scc_deps \ {id} :
             scc_graph'[x] = scc_graph[x] /\ scc_deps'[x] = scc_deps[x]
    BY <1>1, <1>4 DEF Put, TablesAtIds
  <2>2. ASSUME NEW i \in interned', i.id = id PROVE i = r
    BY <1>1, <1>6, <1>7, <2>2 DEF IdsUnique
  <2>3. ASSUME NEW i \in interned', i.id \in DOMAIN scc_deps'
        PROVE  DOMAIN (scc_graph'[i.id]) = i.key.members /\ scc_deps'[i.id] = i.key.deps
    <3>1. CASE i.id = id
      BY <1>2, <1>3, <1>6, <2>1, <2>2, <3>1
    <3>2. CASE i.id # id
      BY <1>1, <1>4, <1>6, <2>1, <2>3, <3>2 DEF TablesAtIds
    <3> QED
      BY <3>1, <3>2
  <2> QED
    BY <2>1, <2>3 DEF TablesAtIds
<1>9. NodesAtIds'
  <2>1. \A s : content_key(s.group, Component(Simplified(s.group), s.node))'
                = content_key(s.group, Component(Simplified(s.group), s.node))
    BY <1>1, GraphStays DEF vars
  <2>2. ASSUME NEW m \in C
        PROVE  key = content_key(group, Component(Simplified(group), m))
    BY <1>4, ComponentOfMember DEF key
  <2>3. ASSUME NEW s \in cfg_sccs'
        PROVE  \E i \in interned' :
                 /\ i.id = s.scc
                 /\ i.key = content_key(s.group, Component(Simplified(s.group), s.node))'
    <3>1. CASE s \in cfg_sccs
      BY <1>1, <1>4, <2>1, <3>1 DEF NodesAtIds
    <3>2. CASE s \notin cfg_sccs
      <4>1. PICK m \in C : s = [node |-> m, group |-> group, scc |-> id]
        BY <1>1, <3>2
      <4> QED
        BY <1>1, <1>6, <2>1, <2>2, <4>1
    <3> QED
      BY <3>1, <3>2
  <2> QED
    BY <2>3 DEF NodesAtIds
<1>10. components' \subseteq Components(Simplified(group))'
  <2>1. Simplified(group)' = Simplified(group)
    BY <1>1, GraphStays DEF vars
  <2> QED
    BY <1>1, <2>1 DEF InternIInv
<1> QED
  BY <1>1, <1>7, <1>8, <1>9, <1>10 DEF InternIInv, vars

-----------------------------------------------------------------------------
(* What follows.                                                           *)

IInv == WalkIInv /\ InternIInv

\* The initial states satisfy the inductive invariant.
LEMMA InitIInv == Init => IInv
BY InitWalkIInv, InitInternIInv DEF Init, IInv

\* Every step keeps the inductive invariant.
LEMMA NextIInv == IInv /\ [Next]_allvars => IInv'
<1> SUFFICES ASSUME IInv, [Next]_allvars PROVE IInv'
  OBVIOUS
<1> USE DEF IInv
<1>1. CASE Walk
  <2>1. WalkIInv'
    BY <1>1, WalkNextIInv DEF Walk
  <2>2. interned = {} /\ cfg_sccs = {} /\ interned' = {} /\ cfg_sccs' = {}
    BY <1>1 DEF Walk, tables, WalkNext, Seed, StartWalk, Visit, EndWalk, InternIInv
  <2>3. IdsUnique'
    BY <2>2, FS_EmptySet DEF IdsUnique
  <2>4. TablesAtIds'
    BY <1>1, <2>2 DEF Walk, tables, InternIInv, TablesAtIds
  <2>5. pc' # "intern"
    BY <1>1 DEF Walk, WalkNext, Seed, StartWalk, Visit, EndWalk
  <2> QED
    BY <2>1, <2>2, <2>3, <2>4, <2>5 DEF InternIInv, NodesAtIds
<1>2. ASSUME NEW g \in Group, Configure(g) PROVE IInv'
  <2>1. WalkIInv'
    BY <1>2, WalkStays DEF Configure
  <2>2. Simplified(g)' = Simplified(g)
    BY <1>2, GraphStays DEF Configure
  <2>3. components' \subseteq Components(Simplified(group))'
    BY <1>2, <2>2 DEF Configure
  <2>4. TablesAtIds'
    BY <1>2 DEF Configure, InternIInv, TablesAtIds
  <2>5. InternIInv'
    BY <1>2, <2>3, <2>4, InternStays DEF Configure
  <2> QED
    BY <2>1, <2>5
<1>3. ASSUME NEW C \in components, Intern(C) PROVE IInv'
  <2>1. pc = "intern" /\ UNCHANGED vars
    BY <1>3 DEF Intern
  <2>2. WalkIInv'
    BY <2>1, WalkStays DEF vars, WalkIInv, WalkTypes
  <2> QED
    BY <1>3, <2>2, InternStep
<1>4. CASE EndConfigure
  <2>1. WalkIInv'
    BY <1>4, WalkStays DEF EndConfigure
  <2>2. TablesAtIds'
    BY <1>4 DEF EndConfigure, InternIInv, TablesAtIds
  <2>3. InternIInv'
    BY <1>4, <2>2, InternStays DEF EndConfigure
  <2> QED
    BY <2>1, <2>3
<1>5. CASE Emit
  <2>1. WalkIInv'
    BY <1>5, WalkStays DEF Emit
  <2> DEFINE reachable == {d.scc : d \in PackageSccs}
  <2>2. /\ DOMAIN scc_graph' = DOMAIN scc_graph \cap reachable
        /\ DOMAIN scc_deps' = DOMAIN scc_deps \cap reachable
        /\ \A i \in DOMAIN scc_graph' : scc_graph'[i] = scc_graph[i]
        /\ \A i \in DOMAIN scc_deps' : scc_deps'[i] = scc_deps[i]
    BY <1>5 DEF Emit
  <2> HIDE DEF reachable
  <2>3. TablesAtIds'
    BY <1>5, <2>2 DEF Emit, InternIInv, TablesAtIds
  <2>4. InternIInv'
    BY <1>5, <2>3, InternStays DEF Emit
  <2> QED
    BY <2>1, <2>4
<1>6. CASE UNCHANGED allvars
  <2>1. WalkIInv'
    <3>1. \A g : /\ Requirements(g)' = Requirements(g)
                 /\ ActiveIn(g)' = ActiveIn(g)
                 /\ GroupGraph(g)' = GroupGraph(g)
                 /\ ReachedFromRoots(g)' = ReachedFromRoots(g)
      BY <1>6 DEF allvars, vars, Requirements, ActiveIn, ReachedFromRoots, GroupGraph,
                  Redirect, Edges
    <3> QED
      BY <1>6, <3>1 DEF allvars, vars, WalkIInv, WalkTypes, WalkTables, Frontier
  <2>2. InternIInv'
    <3>1. TablesAtIds'
      BY <1>6 DEF allvars, tables, InternIInv, TablesAtIds
    <3>2. UNCHANGED <<lock, activated, interned, cfg_sccs, components, pc, group>>
      BY <1>6 DEF allvars, vars, tables
    <3>3. Simplified(group)' = Simplified(group)
      BY <3>2, GraphStays
    <3>4. pc' = "intern" => components' \subseteq Components(Simplified(group))'
      BY <3>2, <3>3 DEF InternIInv
    <3>5. pc' # "seed" => InternIInv'
      BY <3>1, <3>2, <3>4, InternStays DEF InternIInv
    <3>6. pc' = "seed" => InternIInv'
      BY <3>1, <3>2, FS_EmptySet DEF InternIInv, IdsUnique, NodesAtIds
    <3> QED
      BY <3>5, <3>6
  <2> QED
    BY <2>1, <2>2
<1> QED
  BY <1>1, <1>2, <1>3, <1>4, <1>5, <1>6 DEF Next, Terminating

\* The inductive invariant holds in every reachable state.
LEMMA Invariance == Spec => []IInv
BY InitIInv, NextIInv, PTL DEF Spec

\* The tables hold, at a node's id, the content of its component.
LEMMA ContentOfId ==
  ASSUME IInv, NEW s \in cfg_sccs, s.scc \in DOMAIN scc_deps
  PROVE  /\ DOMAIN scc_graph[s.scc] = Component(Simplified(s.group), s.node)
         /\ scc_deps[s.scc] = Outgoing(s.group, Component(Simplified(s.group), s.node))
<1>1. PICK i \in interned :
        /\ i.id = s.scc
        /\ i.key = content_key(s.group, Component(Simplified(s.group), s.node))
  BY DEF IInv, InternIInv, NodesAtIds
<1>2. DOMAIN scc_graph[i.id] = i.key.members /\ scc_deps[i.id] = i.key.deps
  BY <1>1 DEF IInv, InternIInv, TablesAtIds
<1> QED
  BY <1>1, <1>2 DEF content_key

\* graph_utils.bzl, collect_sccs: though all groups share one table of ids, the
\* members and the dependencies found at a node's id in a group are those of its
\* component in the group's own graph, for any number of groups.
THEOREM DepsFaithfulCorrect == Spec => []DepsFaithful
<1>1. IInv => DepsFaithful
  BY ContentOfId DEF DepsFaithful
<1> QED
  BY <1>1, Invariance, PTL

-----------------------------------------------------------------------------
(* Nodes, versions and redirections.                                       *)

LEMMA BaseFields ==
  ASSUME NEW n \in Node
  PROVE  /\ base(n) = [pkg |-> n.pkg, ver |-> n.ver, extra |-> Base]
         /\ base(n) \in Node /\ base(n).pkg = n.pkg /\ base(n).ver = n.ver
         /\ base(n).extra = Base /\ base(base(n)) = base(n)
         /\ n.extra = Base => base(n) = n
<1>1. base(n) = [pkg |-> n.pkg, ver |-> n.ver, extra |-> Base]
  BY NodeFields DEF base
<1>2. base(n) \in Node
  BY <1>1, NodeFields
<1>3. base(base(n)) = [pkg |-> base(n).pkg, ver |-> base(n).ver, extra |-> Base]
  BY <1>2, NodeFields DEF base
<1>4. n = [pkg |-> n.pkg, ver |-> n.ver, extra |-> n.extra]
  BY NodeFields
<1>5. base(n).pkg = n.pkg /\ base(n).ver = n.ver /\ base(n).extra = Base
  BY <1>1
<1>6. base(base(n)) = base(n)
  BY <1>1, <1>3, <1>5
<1>7. n.extra = Base => base(n) = n
  BY <1>1, <1>4
<1> QED
  BY <1>1, <1>2, <1>5, <1>6, <1>7

\* Two nodes with the same fields are one.
LEMMA NodeEquality ==
  ASSUME NEW m \in Node, NEW n \in Node,
         m.pkg = n.pkg, m.ver = n.ver, m.extra = n.extra
  PROVE  m = n
BY NodeFields

\* A redirection changes the version alone, and nothing in a package that the
\* group does not require.
LEMMA RedirectFields ==
  ASSUME lock \in Lock, NEW g \in Group, NEW n \in Node
  PROVE  /\ Redirect(g, n) \in Node
         /\ Redirect(g, n).pkg = n.pkg /\ Redirect(g, n).extra = n.extra
         /\ (~\E r \in lock.roots[g] : r.dep.pkg = n.pkg) => Redirect(g, n) = n
<1>1. \A v : LET m == [n EXCEPT !.ver = v] IN m.pkg = n.pkg /\ m.extra = n.extra
  BY NodeFields
<1> QED
  BY <1>1, RedirectType DEF Redirect

\* Where the group requires the package, its version is the one required.
LEMMA RedirectVersion ==
  ASSUME lock \in Lock, OneVersion(lock), NEW g \in Group, NEW n \in Node,
         NEW r \in lock.roots[g], r.dep.pkg = n.pkg
  PROVE  Redirect(g, n).ver = r.dep.ver
<1> DEFINE s == CHOOSE s \in lock.roots[g] : s.dep.pkg = n.pkg
<1>1. s \in lock.roots[g] /\ s.dep.pkg = n.pkg
  OBVIOUS
<1> HIDE DEF s
<1>2. s.dep.ver = r.dep.ver
  BY <1>1 DEF OneVersion
<1>3. [n EXCEPT !.ver = s.dep.ver].ver = s.dep.ver
  BY NodeFields
<1>4. CASE \E t \in lock.roots[g] : t.dep.pkg = n.pkg /\ t.dep.ver # n.ver
  <2>1. Redirect(g, n) = [n EXCEPT !.ver = s.dep.ver]
    BY <1>4 DEF Redirect, s
  <2> QED
    BY <1>2, <1>3, <2>1
<1>5. CASE ~\E t \in lock.roots[g] : t.dep.pkg = n.pkg /\ t.dep.ver # n.ver
  BY <1>5 DEF Redirect
<1> QED
  BY <1>4, <1>5

LEMMA RedirectTwice ==
  ASSUME lock \in Lock, OneVersion(lock), NEW g \in Group, NEW n \in Node
  PROVE  Redirect(g, Redirect(g, n)) = Redirect(g, n)
<1>1. /\ Redirect(g, n) \in Node
      /\ Redirect(g, n).pkg = n.pkg /\ Redirect(g, n).extra = n.extra
      /\ Redirect(g, Redirect(g, n)) \in Node
      /\ Redirect(g, Redirect(g, n)).pkg = n.pkg
      /\ Redirect(g, Redirect(g, n)).extra = n.extra
  BY RedirectFields
<1>2. CASE \E r \in lock.roots[g] : r.dep.pkg = n.pkg
  <2>1. PICK r \in lock.roots[g] : r.dep.pkg = n.pkg
    BY <1>2
  <2>2. Redirect(g, n).ver = r.dep.ver /\ Redirect(g, Redirect(g, n)).ver = r.dep.ver
    BY <1>1, <2>1, RedirectVersion
  <2> QED
    BY <1>1, <2>2, NodeEquality
<1>3. CASE ~\E r \in lock.roots[g] : r.dep.pkg = n.pkg
  BY <1>1, <1>3, RedirectFields
<1> QED
  BY <1>2, <1>3

LEMMA RedirectBase ==
  ASSUME lock \in Lock, OneVersion(lock), NEW g \in Group, NEW n \in Node
  PROVE  Redirect(g, base(n)) = base(Redirect(g, n))
<1>1. /\ Redirect(g, n) \in Node /\ Redirect(g, n).pkg = n.pkg
      /\ base(n) \in Node /\ base(n).pkg = n.pkg /\ base(n).extra = Base
      /\ base(n).ver = n.ver
      /\ Redirect(g, base(n)) \in Node /\ Redirect(g, base(n)).pkg = n.pkg
      /\ Redirect(g, base(n)).extra = Base
  BY RedirectFields, BaseFields
<1>2. /\ base(Redirect(g, n)) \in Node /\ base(Redirect(g, n)).pkg = n.pkg
      /\ base(Redirect(g, n)).extra = Base
      /\ base(Redirect(g, n)).ver = Redirect(g, n).ver
  BY <1>1, BaseFields
<1>3. CASE \E r \in lock.roots[g] : r.dep.pkg = n.pkg
  <2>1. PICK r \in lock.roots[g] : r.dep.pkg = n.pkg
    BY <1>3
  <2>2. Redirect(g, n).ver = r.dep.ver /\ Redirect(g, base(n)).ver = r.dep.ver
    BY <1>1, <2>1, RedirectVersion
  <2> QED
    BY <1>1, <1>2, <2>2, NodeEquality
<1>4. CASE ~\E r \in lock.roots[g] : r.dep.pkg = n.pkg
  BY <1>1, <1>4, RedirectFields
<1> QED
  BY <1>3, <1>4

LEMMA RedirectRoot ==
  ASSUME lock \in Lock, OneVersion(lock), NEW g \in Group, NEW r \in lock.roots[g]
  PROVE  Redirect(g, r.dep) = r.dep
<1>1. r.dep \in Node
  BY RootsType
<1> QED
  BY <1>1, RedirectFields, RedirectVersion, NodeEquality

\* A redirection stays within the lock.
LEMMA RedirectLocked ==
  ASSUME lock \in Lock, OneVersion(lock), SelfContained(lock),
         NEW g \in Group, NEW n \in Node, base(n) \in lock.locked
  PROVE  base(Redirect(g, n)) \in lock.locked
<1>1. CASE \E r \in lock.roots[g] : r.dep.pkg = n.pkg
  <2>1. PICK r \in lock.roots[g] : r.dep.pkg = n.pkg
    BY <1>1
  <2>2. r.dep \in Node /\ base(r.dep) \in lock.locked
    BY <2>1, RootsType DEF SelfContained
  <2>3. /\ Redirect(g, n) \in Node /\ Redirect(g, n).pkg = r.dep.pkg
        /\ Redirect(g, n).ver = r.dep.ver
    BY <2>1, RedirectFields, RedirectVersion
  <2>4. base(Redirect(g, n)) = base(r.dep)
    BY <2>2, <2>3, BaseFields
  <2> QED
    BY <2>2, <2>4
<1>2. CASE ~\E r \in lock.roots[g] : r.dep.pkg = n.pkg
  BY <1>2, RedirectFields
<1> QED
  BY <1>1, <1>2

\* An edge starts and ends at packages of the lock, and one to an extra comes
\* with one to the package.
LEMMA EdgeFacts ==
  ASSUME lock \in Lock, SelfContained(lock), NEW e \in Edges
  PROVE  /\ e.from \in Node /\ e.to \in Node /\ e.marker \in Marker
         /\ base(e.from) \in lock.locked /\ base(e.to) \in lock.locked
         /\ \E x \in Edges : x.from = e.from /\ x.to = base(e.to) /\ x.marker = e.marker
<1>d. PICK d \in lock.deps : \E f \in {Base} \cup d.extras :
        e = [from |-> d.from, to |-> [d.to EXCEPT !.extra = f], marker |-> d.marker]
  BY DEF Edges
<1>1. PICK f \in {Base} \cup d.extras :
        e = [from |-> d.from, to |-> [d.to EXCEPT !.extra = f], marker |-> d.marker]
  BY <1>d
<1>2. d.to \in Node /\ d.to.extra = Base /\ d.to \in lock.locked /\ base(d.from) \in lock.locked
  BY DEF Lock, Dependency, SelfContained
<1>3. [d.to EXCEPT !.extra = f] = [pkg |-> d.to.pkg, ver |-> d.to.ver, extra |-> f]
  BY <1>2, NodeFields
<1>4. e.from \in Node /\ e.to \in Node /\ e.marker \in Marker
  BY EdgesType
<1>5. base(e.to) = d.to
  BY <1>1, <1>2, <1>3, <1>4, BaseFields
<1>6. [from |-> d.from, to |-> [d.to EXCEPT !.extra = Base], marker |-> d.marker] \in Edges
  <2> DEFINE From(x) == {[from |-> x.from, to |-> [x.to EXCEPT !.extra = k],
                          marker |-> x.marker] : k \in {Base} \cup x.extras}
  <2>1. Edges = UNION {From(x) : x \in lock.deps}
    BY DEF Edges
  <2>2. [from |-> d.from, to |-> [d.to EXCEPT !.extra = Base], marker |-> d.marker] \in From(d)
    OBVIOUS
  <2> HIDE DEF From
  <2> QED
    BY <2>1, <2>2
<1>7. [d.to EXCEPT !.extra = Base] = d.to
  BY <1>2, BaseFields DEF base
<1> QED
  BY <1>1, <1>2, <1>4, <1>5, <1>6, <1>7
-----------------------------------------------------------------------------
(* What the walks activate.                                                *)

\* A node's edges were followed for the group.
Followed(g, n) ==
  \A e \in Edges : e.from = n =>
    Activates(g, Redirect(g, e.to), e.marker) \in activated

\* What is active is in the lock at the group's own version, and so is its
\* package, under the same marker.
ActiveSound ==
  \A t \in activated :
    /\ Redirect(t.group, t.dep) = t.dep
    /\ Activates(t.group, base(t.dep), t.marker) \in activated
    /\ base(t.dep) \in lock.locked

\* Requirements and edges are activated under their markers.
ActiveComplete ==
  /\ pc # "seed" => \A g \in Group : \A r \in lock.roots[g] :
       Activates(g, r.dep, r.marker) \in activated
  /\ \A g \in walked : \A n \in ActiveIn(g) : Followed(g, n)
  /\ pc = "walk" => \A n \in visited \ pending : Followed(group, n)

ActiveIInv ==
  /\ lock \in Locks
  /\ ActiveSound /\ ActiveComplete
  /\ pc = "walk" => group \notin walked
  /\ pc \in {"walked", "intern", "collate", "emitted", "no_alias"} => walked = Group

-----------------------------------------------------------------------------
(* What the tables cover.                                                  *)

HasScc(g, n) == \E s \in cfg_sccs : s.group = g /\ s.node = n

\* One content has one id.
KeysUnique == \A i, j \in interned : i.key = j.key => i = j

\* Every node of a configured group's graph has an id there.
NodesCovered ==
  /\ \A g \in configured : \A n \in DOMAIN Simplified(g) : HasScc(g, n)
  /\ pc = "intern" => \A n \in DOMAIN Simplified(group) :
       Component(Simplified(group), n) \in components \/ HasScc(group, n)
  /\ pc \in {"collate", "emitted", "no_alias"} => configured = Group
  /\ \A s \in cfg_sccs : s.group \in Group /\ s.node \in DOMAIN Simplified(s.group)

Orphaned(i) ==
  \E d \in scc_deps[i] : \A p \in PackageSccs : p.pkg # d.dep.pkg

\* The tables have what they name, and what the aliases need is not dropped.
TablesKept ==
  /\ pc \notin {"emitted", "no_alias"} =>
       dep_to_scc = {} /\ \A s \in cfg_sccs : s.scc \in DOMAIN scc_deps
  /\ pc \in {"emitted", "no_alias"} =>
       dep_to_scc = PackageSccs /\ \A d \in PackageSccs : d.scc \in DOMAIN scc_deps
  /\ pc = "no_alias" => \E d \in PackageSccs : Orphaned(d.scc)

CoverIInv ==
  /\ KeysUnique /\ NodesCovered /\ TablesKept
  /\ pc \in {"seed", "groups", "walk"} => configured = {}

LEMMA LockFacts ==
  ASSUME lock \in Locks
  PROVE  lock \in Lock /\ OneVersion(lock) /\ SelfContained(lock) /\ BaseRequired(lock)
BY LocksAssumption

LEMMA InitActiveIInv == InitWalk => ActiveIInv
BY DEF InitWalk, ActiveIInv, ActiveSound, ActiveComplete

\* Where the walks' variables stay, so does what is active.
LEMMA ActiveStays ==
  ASSUME ActiveIInv, UNCHANGED <<lock, walked, pending, visited, activated>>,
         pc' = "seed" => pc = "seed",
         pc' = "walk" => pc = "walk" /\ group' = group,
         pc' \in {"walked", "intern", "collate", "emitted", "no_alias"} => walked = Group,
         pc = "seed" => pc' = "seed"
  PROVE  ActiveIInv'
<1>1. \A g, n : Redirect(g, n)' = Redirect(g, n) /\ Followed(g, n)' = Followed(g, n)
  BY DEF Redirect, Followed, Edges
<1>2. \A g : ActiveIn(g)' = ActiveIn(g)
  BY DEF ActiveIn
<1>3. ActiveSound'
  BY <1>1 DEF ActiveIInv, ActiveSound
<1>4. ActiveComplete'
  BY <1>1, <1>2 DEF ActiveIInv, ActiveComplete
<1> QED
  BY <1>3, <1>4 DEF ActiveIInv

\* Everything a walk does keeps what is active sound and complete.
LEMMA WalkNextActiveIInv ==
  ASSUME WalkIInv, ActiveIInv, WalkNext
  PROVE  ActiveIInv'
<1>l. /\ lock' = lock /\ lock \in Locks /\ lock \in Lock
      /\ OneVersion(lock) /\ SelfContained(lock) /\ BaseRequired(lock)
  BY LockFacts DEF WalkNext, Seed, StartWalk, Visit, EndWalk, ActiveIInv
<1>r. \A g, n : Redirect(g, n)' = Redirect(g, n)
  BY <1>l DEF Redirect
<1>e. Edges' = Edges
  BY <1>l DEF Edges
<1>1. CASE Seed
  <2>1. \A t \in activated' : \E g \in Group : \E r \in lock.roots[g] :
          t = Activates(g, r.dep, r.marker)
    BY <1>1 DEF Seed
  <2>2. \A g \in Group : \A r \in lock.roots[g] : Activates(g, r.dep, r.marker) \in activated'
    BY <1>1 DEF Seed
  <2>3. ASSUME NEW t \in activated'
        PROVE  /\ Redirect(t.group, t.dep) = t.dep
               /\ Activates(t.group, base(t.dep), t.marker) \in activated'
               /\ base(t.dep) \in lock.locked
    <3>1. PICK g \in Group : \E r \in lock.roots[g] : t = Activates(g, r.dep, r.marker)
      BY <2>1
    <3>2. PICK r \in lock.roots[g] : t = Activates(g, r.dep, r.marker)
      BY <3>1
    <3>3. t.group = g /\ t.dep = r.dep /\ t.marker = r.marker
      BY <3>2 DEF Activates
    <3>4. r \in [dep : Node, marker : Marker]
      BY <1>l DEF Lock
    <3> DEFINE b == [r EXCEPT !.dep = base(r.dep)]
    <3>5. b \in lock.roots[g]
      BY <1>l DEF BaseRequired
    <3>6. b.dep = base(r.dep) /\ b.marker = r.marker
      BY <3>4
    <3> HIDE DEF b
    <3>7. Activates(g, base(r.dep), r.marker) \in activated'
      BY <2>2, <3>5, <3>6
    <3>8. Redirect(g, r.dep) = r.dep
      BY <1>l, RedirectRoot
    <3>9. base(r.dep) \in lock.locked
      BY <1>l DEF SelfContained
    <3> QED
      BY <3>3, <3>7, <3>8, <3>9
  <2>4. ActiveSound'
    BY <1>l, <1>r, <2>3 DEF ActiveSound
  <2>5. walked' = {} /\ pc' = "groups"
    BY <1>1 DEF Seed, WalkIInv, WalkTypes
  <2>6. ActiveComplete'
    BY <1>l, <2>2, <2>5 DEF ActiveComplete
  <2> QED
    BY <1>l, <2>4, <2>5, <2>6 DEF ActiveIInv
<1>2. ASSUME NEW g \in Group, StartWalk(g) PROVE ActiveIInv'
  <2>1. /\ activated' = activated /\ walked' = walked /\ visited' = {}
        /\ pc # "seed" /\ pc' = "walk" /\ group' = g /\ g \notin walked
    BY <1>2 DEF StartWalk
  <2>2. \A h : ActiveIn(h)' = ActiveIn(h)
    BY <2>1 DEF ActiveIn
  <2>3. \A h, n : Followed(h, n)' = Followed(h, n)
    BY <1>r, <1>e, <2>1 DEF Followed
  <2>4. ActiveSound'
    BY <1>l, <1>r, <2>1 DEF ActiveIInv, ActiveSound
  <2>5. ActiveComplete'
    BY <1>l, <2>1, <2>2, <2>3 DEF ActiveIInv, ActiveComplete
  <2> QED
    BY <1>l, <2>1, <2>4, <2>5 DEF ActiveIInv
<1>3. ASSUME NEW n \in pending, Visit(n) PROVE ActiveIInv'
  <2> DEFINE out == {e \in Edges : e.from = n}
             new == {Activates(group, Redirect(group, e.to), e.marker) : e \in out}
             targets == {Redirect(group, e.to) : e \in out}
  <2>1. /\ pc = "walk" /\ pc' = "walk" /\ group \in Group /\ group' = group
        /\ walked' = walked
        /\ activated' = activated \cup new
        /\ visited' = visited \cup {n} \cup targets
        /\ pending' = (pending \ {n}) \cup (targets \ (visited \cup {n}))
        /\ lock' = lock
    BY <1>3 DEF Visit, WalkIInv, WalkTypes
  <2>2. \A e \in Edges : e.from = n =>
          Activates(group, Redirect(group, e.to), e.marker) \in new
    OBVIOUS
  <2>3. \A t \in new : \E e \in Edges : e.from = n /\
          t = Activates(group, Redirect(group, e.to), e.marker)
    OBVIOUS
  <2> HIDE DEF new, out, targets
  <2>4. ASSUME NEW t \in new
        PROVE  /\ Redirect(t.group, t.dep) = t.dep
               /\ Activates(t.group, base(t.dep), t.marker) \in new
               /\ base(t.dep) \in lock.locked
               /\ t.group = group
    <3>1. PICK e \in Edges : e.from = n /\ t = Activates(group, Redirect(group, e.to), e.marker)
      BY <2>3
    <3>2. t.group = group /\ t.dep = Redirect(group, e.to) /\ t.marker = e.marker
      BY <3>1 DEF Activates
    <3>3. /\ e.to \in Node /\ base(e.to) \in lock.locked
          /\ \E x \in Edges : x.from = e.from /\ x.to = base(e.to) /\ x.marker = e.marker
      BY <1>l, EdgeFacts
    <3>4. PICK x \in Edges : x.from = e.from /\ x.to = base(e.to) /\ x.marker = e.marker
      BY <3>3
    <3>5. Redirect(group, x.to) = base(t.dep)
      BY <1>l, <2>1, <3>2, <3>3, <3>4, RedirectBase
    <3>6. Activates(group, Redirect(group, x.to), x.marker) \in new
      BY <2>2, <3>1, <3>4
    <3>7. Redirect(group, t.dep) = t.dep
      BY <1>l, <2>1, <3>2, <3>3, RedirectTwice
    <3>8. base(t.dep) \in lock.locked
      BY <1>l, <2>1, <3>2, <3>3, RedirectLocked
    <3> QED
      BY <3>2, <3>4, <3>5, <3>6, <3>7, <3>8
  <2>5. ActiveSound'
    <3> SUFFICES ASSUME NEW t \in activated'
                 PROVE  /\ Redirect(t.group, t.dep)' = t.dep
                        /\ Activates(t.group, base(t.dep), t.marker) \in activated'
                        /\ base(t.dep) \in lock'.locked
      BY DEF ActiveSound, Activates, base
    <3>1. CASE t \in new
      BY <1>l, <1>r, <2>1, <2>4, <3>1
    <3>2. CASE t \in activated
      BY <1>l, <1>r, <2>1, <3>2 DEF ActiveIInv, ActiveSound
    <3> QED
      BY <2>1, <3>1, <3>2
  <2>6. \A h, m : Followed(h, m) => Followed(h, m)'
    BY <1>r, <1>e, <2>1 DEF Followed, Activates
  <2>7. Followed(group, n)'
    BY <1>r, <1>e, <2>1, <2>2 DEF Followed, Activates
  <2>8. group \notin walked
    BY <2>1 DEF ActiveIInv
  <2>9. \A h \in walked : ActiveIn(h)' = ActiveIn(h)
    BY <2>1, <2>4, <2>8 DEF ActiveIn
  <2>10. ActiveComplete'
    <3>1. \A m \in visited' \ pending' : m = n \/ m \in visited \ pending
      BY <2>1
    <3>2. \A m \in visited' \ pending' : Followed(group, m)'
      BY <2>1, <2>6, <2>7, <3>1 DEF ActiveIInv, ActiveComplete
    <3>3. \A h \in walked' : \A m \in ActiveIn(h)' : Followed(h, m)'
      BY <2>1, <2>6, <2>9 DEF ActiveIInv, ActiveComplete
    <3>4. \A g \in Group : \A r \in lock'.roots[g] : Activates(g, r.dep, r.marker) \in activated'
      BY <2>1 DEF ActiveIInv, ActiveComplete
    <3> QED
      BY <2>1, <3>2, <3>3, <3>4 DEF ActiveComplete, Activates
  <2> QED
    BY <1>l, <2>1, <2>5, <2>8, <2>10 DEF ActiveIInv
<1>4. CASE EndWalk
  <2>1. /\ pc = "walk" /\ pending = {} /\ activated' = activated /\ group \in Group
        /\ walked' = walked \cup {group}
        /\ pc' \in {"walked", "groups"}
        /\ pc' = "walked" => walked' = Group
    BY <1>4 DEF EndWalk, WalkIInv, WalkTypes
  <2>2. \A h : ActiveIn(h)' = ActiveIn(h)
    BY <2>1 DEF ActiveIn
  <2>3. \A h, n : Followed(h, n)' = Followed(h, n)
    BY <1>r, <1>e, <2>1 DEF Followed
  <2>4. ActiveIn(group) \subseteq visited
    BY <1>4, <2>1, WalkEnds DEF WalkIInv, WalkTables
  <2>5. \A n \in ActiveIn(group) : Followed(group, n)
    BY <2>1, <2>4 DEF ActiveIInv, ActiveComplete
  <2>6. ActiveSound'
    BY <1>l, <1>r, <2>1 DEF ActiveIInv, ActiveSound
  <2>7. ActiveComplete'
    BY <1>l, <2>1, <2>2, <2>3, <2>5 DEF ActiveIInv, ActiveComplete
  <2> QED
    BY <1>l, <2>1, <2>6, <2>7 DEF ActiveIInv
<1> QED
  BY <1>1, <1>2, <1>3, <1>4 DEF WalkNext

\* An entry of the package table is an activated node with its component.
LEMMA PackageSccsFacts ==
  ASSUME NEW d
  PROVE  d \in PackageSccs <=>
           \E t \in activated : \E s \in cfg_sccs :
             /\ t.group = s.group /\ base(t.dep) = s.node
             /\ d = [pkg |-> t.dep.pkg, group |-> t.group, scc |-> s.scc, marker |-> t.marker]
BY DEF PackageSccs

LEMMA ComponentHolds ==
  ASSUME NEW G, NEW n \in DOMAIN G
  PROVE  n \in Component(G, n)
BY DEF Component, Mutual, Reach

LEMMA InitCoverIInv == Init => CoverIInv
BY DEF Init, InitWalk, CoverIInv, KeysUnique, NodesCovered, TablesKept

\* Where neither the graphs nor the ids change, only the phase and the domains
\* are left to look at.
LEMMA CoverStays ==
  ASSUME CoverIInv, UNCHANGED <<lock, activated, interned, cfg_sccs>>,
         \A g \in configured' : \A n \in DOMAIN Simplified(g) : HasScc(g, n),
         pc' = "intern" => \A n \in DOMAIN Simplified(group') :
           Component(Simplified(group'), n) \in components' \/ HasScc(group', n),
         pc' \in {"collate", "emitted", "no_alias"} => configured' = Group,
         TablesKept',
         pc' \in {"seed", "groups", "walk"} => configured' = {}
  PROVE  CoverIInv'
<1>1. \A g : Simplified(g)' = Simplified(g)
  BY GraphStays
<1>2. Simplified(group)' = Simplified(group')
  BY DEF Simplified, Configured, Edges
<1>3. NodesCovered'
  BY <1>1, <1>2 DEF CoverIInv, NodesCovered, HasScc
<1>4. KeysUnique'
  BY DEF CoverIInv, KeysUnique
<1> QED
  BY <1>3, <1>4 DEF CoverIInv

\* Interning one component.
LEMMA InternStepCovers ==
  ASSUME InternIInv, CoverIInv, group \in Group, NEW C \in components, Intern(C)
  PROVE  CoverIInv'
<1> DEFINE key == content_key(group, C)
           known == {i \in interned : i.key = key}
           id == IF known = {} THEN DeriveId(C) ELSE (CHOOSE i \in known : TRUE).id
           r == [key |-> key, id |-> id]
<1>1. /\ pc = "intern" /\ UNCHANGED vars
      /\ interned' = interned \cup {r}
      /\ scc_deps' = Put(scc_deps, id, Outgoing(group, C))
      /\ cfg_sccs' = cfg_sccs \cup {[node |-> m, group |-> group, scc |-> id] : m \in C}
      /\ components' = components \ {C} /\ configured' = configured /\ dep_to_scc' = dep_to_scc
  BY DEF Intern
<1>2. r \in interned \/ \A i \in interned : i.key # r.key
  <2>1. CASE known = {}
    BY <2>1
  <2>2. CASE known # {}
    <3>1. PICK i \in known : i = CHOOSE j \in known : TRUE
      BY <2>2
    <3>2. i \in interned /\ i.key = key /\ id = i.id
      BY <2>2, <3>1
    <3> QED
      BY <3>2 DEF InternIInv, IdsUnique
  <2> QED
    BY <2>1, <2>2
<1>3. DOMAIN scc_deps' = DOMAIN scc_deps \cup {id}
  BY <1>1 DEF Put
<1> HIDE DEF r, id, known, key
<1>4. KeysUnique'
  BY <1>1, <1>2 DEF CoverIInv, KeysUnique
<1>5. \A g : Simplified(g)' = Simplified(g)
  BY <1>1, GraphStays DEF vars
<1>6. group' = group /\ pc' = "intern"
  BY <1>1 DEF vars
<1>7. \A g, n : HasScc(g, n) => HasScc(g, n)'
  BY <1>1 DEF HasScc
<1>8. /\ \A n : HasScc(group, n) => HasScc(group, n)'
      /\ \A n \in C : HasScc(group, n)'
  <2>1. \A n : HasScc(group, n) => HasScc(group, n)'
    BY <1>1, <1>6 DEF HasScc
  <2>2. ASSUME NEW n \in C PROVE HasScc(group, n)'
    <3> DEFINE s == [node |-> n, group |-> group, scc |-> id]
    <3>1. s \in cfg_sccs' /\ s.group = group' /\ s.node = n
      BY <1>1, <1>6
    <3> QED
      BY <3>1 DEF HasScc
  <2> QED
    BY <2>1, <2>2
<1>9. C \subseteq DOMAIN Simplified(group)
  <2>1. C \in Components(Simplified(group))
    BY <1>1 DEF InternIInv
  <2> QED
    BY <2>1 DEF Components, Component
<1>10. NodesCovered'
  <2>1. ASSUME NEW n \in DOMAIN Simplified(group)
        PROVE  Component(Simplified(group), n) \in components' \/ HasScc(group, n)'
    <3>1. CASE Component(Simplified(group), n) = C
      BY <1>8, <3>1, ComponentHolds
    <3>2. CASE Component(Simplified(group), n) # C
      BY <1>1, <1>8, <3>2 DEF CoverIInv, NodesCovered
    <3> QED
      BY <3>1, <3>2
  <2>2. ASSUME NEW s \in cfg_sccs'
        PROVE  s.group \in Group /\ s.node \in DOMAIN Simplified(s.group)
    <3>1. CASE s \in cfg_sccs
      BY <3>1 DEF CoverIInv, NodesCovered
    <3>2. CASE s \notin cfg_sccs
      <4>1. PICK m \in C : s = [node |-> m, group |-> group, scc |-> id]
        BY <1>1, <3>2
      <4> QED
        BY <1>9, <4>1
    <3> QED
      BY <3>1, <3>2
  <2>3. Simplified(group)' = Simplified(group)
    BY <1>1 DEF vars, Simplified, Configured, Edges
  <2>4. \A n \in DOMAIN Simplified(group)' :
           Component(Simplified(group), n)' \in components' \/ HasScc(group, n)'
    <3> SUFFICES ASSUME NEW n \in DOMAIN Simplified(group)
                 PROVE  Component(Simplified(group), n)' \in components' \/ HasScc(group, n)'
      BY <2>3
    <3>1. Component(Simplified(group), n)' = Component(Simplified(group), n)
      BY <2>3 DEF Component, Mutual, Reach
    <3> QED
      BY <2>1, <3>1
  <2>5. \A g \in configured' : \A n \in DOMAIN Simplified(g)' : HasScc(g, n)'
    BY <1>1, <1>5, <1>7 DEF CoverIInv, NodesCovered
  <2>6. \A s \in cfg_sccs' : s.group \in Group /\ s.node \in DOMAIN Simplified(s.group)'
    BY <1>5, <2>2
  <2> QED
    BY <1>6, <2>4, <2>5, <2>6 DEF NodesCovered
<1>11. TablesKept'
  <2>1. dep_to_scc' = {}
    BY <1>1 DEF CoverIInv, TablesKept
  <2>2. \A s \in cfg_sccs' : s.scc \in DOMAIN scc_deps'
    <3> SUFFICES ASSUME NEW s \in cfg_sccs' PROVE s.scc \in DOMAIN scc_deps'
      OBVIOUS
    <3>1. CASE s \in cfg_sccs
      BY <1>1, <1>3, <3>1 DEF CoverIInv, TablesKept
    <3>2. CASE s \notin cfg_sccs
      <4>1. PICK m \in C : s = [node |-> m, group |-> group, scc |-> id]
        BY <1>1, <3>2
      <4> QED
        BY <1>3, <4>1
    <3> QED
      BY <3>1, <3>2
  <2> QED
    BY <1>6, <2>1, <2>2 DEF TablesKept
<1> QED
  BY <1>4, <1>6, <1>10, <1>11 DEF CoverIInv

\* Dropping the components that no alias names keeps what the aliases name.
LEMMA EmitCovers == ASSUME CoverIInv, Emit PROVE CoverIInv'
<1> DEFINE reachable == {d.scc : d \in PackageSccs}
           deps == [i \in DOMAIN scc_deps \cap reachable |-> scc_deps[i]]
           orphans == {d \in UNION {deps[i] : i \in DOMAIN deps} :
                         \A p \in PackageSccs : p.pkg # d.dep.pkg}
<1>1. /\ pc = "collate" /\ dep_to_scc' = PackageSccs /\ scc_deps' = deps
      /\ pc' = IF orphans = {} THEN "emitted" ELSE "no_alias"
      /\ UNCHANGED <<lock, activated, interned, cfg_sccs, configured>>
  BY DEF Emit
<1>2. /\ DOMAIN scc_deps' = DOMAIN scc_deps \cap reachable
      /\ \A i \in DOMAIN scc_deps' : scc_deps'[i] = scc_deps[i]
  BY <1>1
<1>3. orphans # {} => \E i \in DOMAIN scc_deps' : \E d \in scc_deps'[i] :
                        \A p \in PackageSccs : p.pkg # d.dep.pkg
  BY <1>1
<1> HIDE DEF deps, orphans
<1>4. PackageSccs' = PackageSccs
  BY <1>1 DEF PackageSccs
<1>5. \A d \in PackageSccs : d.scc \in DOMAIN scc_deps
  <2> SUFFICES ASSUME NEW d \in PackageSccs PROVE d.scc \in DOMAIN scc_deps
    OBVIOUS
  <2>1. \E s \in cfg_sccs : d.scc = s.scc
    BY PackageSccsFacts
  <2> QED
    BY <1>1, <2>1 DEF CoverIInv, TablesKept
<1>6. \A d \in PackageSccs : d.scc \in DOMAIN scc_deps'
  BY <1>2, <1>5
<1>7. pc' = "no_alias" => \E d \in PackageSccs : Orphaned(d.scc)'
  <2> SUFFICES ASSUME pc' = "no_alias" PROVE \E d \in PackageSccs : Orphaned(d.scc)'
    OBVIOUS
  <2>1. PICK i \in DOMAIN scc_deps' : \E e \in scc_deps'[i] :
          \A p \in PackageSccs : p.pkg # e.dep.pkg
    BY <1>1, <1>3
  <2>2. PICK d \in PackageSccs : d.scc = i
    BY <1>2, <2>1
  <2> QED
    BY <1>4, <2>1, <2>2 DEF Orphaned
<1>8. TablesKept'
  BY <1>1, <1>4, <1>6, <1>7 DEF TablesKept
<1>9. configured' = Group /\ pc' \in {"emitted", "no_alias"}
  BY <1>1 DEF CoverIInv, NodesCovered
<1>10. \A g \in configured' : \A n \in DOMAIN Simplified(g) : HasScc(g, n)
  BY <1>1 DEF CoverIInv, NodesCovered
<1> QED
  BY <1>1, <1>8, <1>9, <1>10, CoverStays

AllIInv == IInv /\ ActiveIInv /\ CoverIInv

LEMMA InitAllIInv == Init => AllIInv
BY InitIInv, InitActiveIInv, InitCoverIInv DEF Init, AllIInv

LEMMA NextAllIInv == AllIInv /\ [Next]_allvars => AllIInv'
<1> SUFFICES ASSUME AllIInv, [Next]_allvars PROVE ActiveIInv' /\ CoverIInv'
  BY NextIInv DEF AllIInv
<1> USE DEF AllIInv
<1>1. CASE Walk
  <2>1. ActiveIInv'
    BY <1>1, WalkNextActiveIInv DEF Walk, IInv
  <2>2. /\ pc \in {"seed", "groups", "walk"} /\ pc' \in {"groups", "walk", "walked"}
        /\ UNCHANGED tables
    BY <1>1 DEF Walk, WalkNext, Seed, StartWalk, Visit, EndWalk
  <2>3. interned = {} /\ cfg_sccs = {} /\ configured = {} /\ dep_to_scc = {}
    BY <2>2 DEF IInv, InternIInv, CoverIInv, TablesKept
  <2>4. CoverIInv'
    BY <2>2, <2>3 DEF tables, CoverIInv, KeysUnique, NodesCovered, TablesKept
  <2> QED
    BY <2>1, <2>4
<1>2. ASSUME NEW g \in Group, Configure(g) PROVE ActiveIInv' /\ CoverIInv'
  <2>1. /\ pc = "walked" /\ pc' = "intern" /\ group' = g
        /\ components' = Components(Simplified(g))
        /\ UNCHANGED <<lock, walked, pending, visited, activated, configured,
                       interned, scc_deps, cfg_sccs, dep_to_scc>>
    BY <1>2 DEF Configure
  <2>2. ActiveIInv'
    BY <2>1, ActiveStays DEF ActiveIInv
  <2>3. TablesKept'
    BY <2>1 DEF CoverIInv, TablesKept
  <2>4. \A n \in DOMAIN Simplified(g) : Component(Simplified(g), n) \in components'
    BY <2>1 DEF Components
  <2>5. \A h \in configured' : \A n \in DOMAIN Simplified(h) : HasScc(h, n)
    BY <2>1 DEF CoverIInv, NodesCovered
  <2>6. CoverIInv'
    BY <2>1, <2>3, <2>4, <2>5, CoverStays
  <2> QED
    BY <2>2, <2>6
<1>3. ASSUME NEW C \in components, Intern(C) PROVE ActiveIInv' /\ CoverIInv'
  <2>1. pc = "intern" /\ UNCHANGED vars
    BY <1>3 DEF Intern
  <2>2. ActiveIInv'
    BY <2>1, ActiveStays DEF vars, ActiveIInv
  <2>3. group \in Group
    BY <2>1 DEF IInv, WalkIInv, WalkTypes
  <2> QED
    BY <1>3, <2>2, <2>3, InternStepCovers DEF IInv
<1>4. CASE EndConfigure
  <2>1. /\ pc = "intern" /\ components = {} /\ configured' = configured \cup {group}
        /\ pc' \in {"collate", "walked"} /\ (pc' = "collate" => configured' = Group)
        /\ UNCHANGED <<lock, walked, pending, visited, activated, interned,
                       scc_deps, cfg_sccs, dep_to_scc>>
    BY <1>4 DEF EndConfigure
  <2>2. ActiveIInv'
    BY <2>1, ActiveStays DEF ActiveIInv
  <2>3. TablesKept'
    BY <2>1 DEF CoverIInv, TablesKept
  <2>4. \A h \in configured' : \A n \in DOMAIN Simplified(h) : HasScc(h, n)
    BY <2>1 DEF CoverIInv, NodesCovered
  <2>5. CoverIInv'
    BY <2>1, <2>3, <2>4, CoverStays
  <2> QED
    BY <2>2, <2>5
<1>5. CASE Emit
  <2>1. ActiveIInv'
    BY <1>5, ActiveStays DEF Emit, ActiveIInv
  <2> QED
    BY <1>5, <2>1, EmitCovers
<1>6. CASE UNCHANGED allvars
  <2>1. ActiveIInv'
    BY <1>6, ActiveStays DEF allvars, vars, ActiveIInv
  <2>2. PackageSccs' = PackageSccs
    BY <1>6 DEF allvars, vars, tables, PackageSccs
  <2>3. TablesKept'
    BY <1>6, <2>2 DEF allvars, vars, tables, CoverIInv, TablesKept, Orphaned
  <2>4. \A h \in configured' : \A n \in DOMAIN Simplified(h) : HasScc(h, n)
    BY <1>6 DEF allvars, tables, CoverIInv, NodesCovered
  <2>5. pc' = "intern" => \A n \in DOMAIN Simplified(group') :
           Component(Simplified(group'), n) \in components' \/ HasScc(group', n)
    BY <1>6 DEF allvars, vars, tables, CoverIInv, NodesCovered
  <2>6. CoverIInv'
    BY <1>6, <2>3, <2>4, <2>5, CoverStays DEF allvars, vars, tables, CoverIInv, NodesCovered
  <2> QED
    BY <2>1, <2>6
<1> QED
  BY <1>1, <1>2, <1>3, <1>4, <1>5, <1>6 DEF Next, Terminating

LEMMA AllInvariance == Spec => []AllIInv
BY InitAllIInv, NextAllIInv, PTL DEF Spec

\* What is active is asked for, under its marker, by something reached.
ActiveReached == \A t \in activated : t \in ReachedUnder(t.group)

LEMMA NextActiveReached == ASSUME IInv, ActiveReached, [Next]_allvars PROVE ActiveReached'
<1>1. \A g : \A r \in lock.roots[g] : Activates(g, r.dep, r.marker) \in ReachedUnder(g)
  BY DEF ReachedUnder
<1>2. \A g : \A e \in Edges : e.from \in ReachedFromRoots(g) =>
        Activates(g, Redirect(g, e.to), e.marker) \in ReachedUnder(g)
  BY DEF ReachedUnder
<1>3. ASSUME lock' = lock PROVE \A g : ReachedUnder(g)' = ReachedUnder(g)
  BY <1>3 DEF ReachedUnder, ReachedFromRoots, GroupGraph, Redirect, Edges, Activates
<1>4. CASE Seed
  <2>1. ASSUME NEW t \in activated' PROVE t \in ReachedUnder(t.group)
    <3>1. PICK g \in Group : \E r \in lock.roots[g] : t = Activates(g, r.dep, r.marker)
      BY <1>4 DEF Seed
    <3>2. t.group = g
      BY <3>1 DEF Activates
    <3> QED
      BY <1>1, <3>1, <3>2
  <2> QED
    BY <1>3, <1>4, <2>1 DEF Seed, ActiveReached
<1>5. ASSUME NEW n \in pending, Visit(n) PROVE ActiveReached'
  <2>1. /\ pc = "walk" /\ group \in Group /\ lock' = lock
        /\ \A t \in activated' : t \in activated \/ \E e \in Edges :
             e.from = n /\ t = Activates(group, Redirect(group, e.to), e.marker)
    BY <1>5 DEF Visit, IInv, WalkIInv, WalkTypes
  <2>2. n \in ReachedFromRoots(group)
    BY <2>1 DEF IInv, WalkIInv, WalkTables, Frontier
  <2>3. ASSUME NEW t \in activated' PROVE t \in ReachedUnder(t.group)
    <3>1. CASE t \in activated
      BY <3>1 DEF ActiveReached
    <3>2. ASSUME NEW e \in Edges, e.from = n,
                 t = Activates(group, Redirect(group, e.to), e.marker)
          PROVE  t \in ReachedUnder(t.group)
      <4>1. t.group = group
        BY <3>2 DEF Activates
      <4> QED
        BY <1>2, <2>2, <3>2, <4>1
    <3> QED
      BY <2>1, <3>1, <3>2
  <2> QED
    BY <1>3, <2>1, <2>3 DEF ActiveReached
<1>6. CASE lock' = lock /\ activated' = activated
  BY <1>3, <1>6 DEF ActiveReached
<1>7. \/ Seed \/ (\E n \in pending : Visit(n))
      \/ lock' = lock /\ activated' = activated
  BY DEF Next, Walk, WalkNext, StartWalk, EndWalk, Configure, Intern, EndConfigure, Emit,
         Terminating, allvars, vars
<1> QED
  BY <1>4, <1>5, <1>6, <1>7

LEMMA ReachedInvariance == Spec => []ActiveReached
<1>1. Init => ActiveReached
  BY DEF Init, InitWalk, ActiveReached
<1> QED
  BY <1>1, NextActiveReached, Invariance, PTL DEF Spec

\* projectfile.bzl, collect_activated_extras: for any lock and any groups, when a
\* walk ends it has activated no package, and none under a marker, by which nothing
\* that its group's requirements reach under the group's own pins asks for it;
\* and no such package and no such marker is missing.
THEOREM WalkExactCorrect == Spec => []WalkExact
<1>1. ASSUME AllIInv, ActiveReached PROVE WalkExact
  <2> SUFFICES ASSUME pc \in {"groups", "walked"}, NEW g \in walked
               PROVE  {a \in activated : a.group = g} = ReachedUnder(g)
    BY Zenon DEF WalkExact
  <2>1. {a \in activated : a.group = g} \subseteq ReachedUnder(g)
    BY <1>1 DEF ActiveReached
  <2>2. g \in Group /\ ActiveIn(g) = ReachedFromRoots(g)
    BY <1>1 DEF AllIInv, IInv, WalkIInv, WalkTypes, WalkTables
  <2>3. ASSUME NEW a \in ReachedUnder(g) PROVE a \in activated /\ a.group = g
    <3>1. CASE \E r \in lock.roots[g] : a = Activates(g, r.dep, r.marker)
      BY <1>1, <2>2, <3>1 DEF AllIInv, ActiveIInv, ActiveComplete, Activates
    <3>2. CASE \E e \in Edges : /\ e.from \in ReachedFromRoots(g)
                               /\ a = Activates(g, Redirect(g, e.to), e.marker)
      BY <1>1, <2>2, <2>3, <3>2 DEF AllIInv, ActiveIInv, ActiveComplete, Followed, Activates
    <3> QED
      BY <2>3, <3>1, <3>2 DEF ReachedUnder
  <2> QED
    BY <2>1, <2>3
<1> QED
  BY <1>1, AllInvariance, ReachedInvariance, PTL

-----------------------------------------------------------------------------
(* The configured graphs when the walks are over.                          *)

LEMMA ConfiguredFacts ==
  ASSUME NEW g, NEW x \in Configured(g)
  PROVE  \E e \in Edges :
           /\ x.to = base(e.to)
           /\ \/ e.from.extra = Base /\ x.from = e.from
              \/ \E t \in activated : t.group = g /\ t.dep = e.from /\ x.from = base(t.dep)
<1>1. CASE x \in {DepEdge(e.from, base(e.to), e.marker) : e \in {y \in Edges : y.from.extra = Base}}
  BY <1>1 DEF DepEdge
<1>2. CASE x \notin {DepEdge(e.from, base(e.to), e.marker) : e \in {y \in Edges : y.from.extra = Base}}
  <2>1. PICK t \in activated : t.group = g /\
          x \in {DepEdge(base(t.dep), base(e.to), t.marker \cap e.marker) :
                   e \in {y \in Edges : y.from = t.dep}}
    BY <1>2 DEF Configured
  <2> QED
    BY <2>1 DEF DepEdge
<1> QED
  BY <1>1, <1>2

\* The edges an active node has under the two markers.
LEMMA ConfiguredActive ==
  ASSUME NEW g, NEW t \in activated, t.group = g, base(t.dep) \in lock.locked,
         NEW e \in Edges, e.from = t.dep
  PROVE  DepEdge(base(t.dep), base(e.to), t.marker \cap e.marker) \in Configured(g)
<1> DEFINE D(u) == {DepEdge(base(u.dep), base(y.to), u.marker \cap y.marker) :
                      y \in {x \in Edges : x.from = u.dep}}
           T == {x \in activated : x.group = g /\ base(x.dep) \in lock.locked}
<1>1. DepEdge(base(t.dep), base(e.to), t.marker \cap e.marker) \in D(t)
  OBVIOUS
<1>2. t \in T
  OBVIOUS
<1>3. UNION {D(u) : u \in T} \subseteq Configured(g)
  BY DEF Configured
<1> HIDE DEF D, T
<1> QED
  BY <1>1, <1>2, <1>3

LEMMA SimplifiedFacts ==
  ASSUME lock \in Lock, SelfContained(lock), NEW g \in Group
  PROVE  /\ \A n \in lock.locked : n.extra = Base => n \in DOMAIN Simplified(g)
         /\ \A n \in DOMAIN Simplified(g) :
              /\ n \in Node /\ n.extra = Base /\ base(n) = n
              /\ Simplified(g)[n] \subseteq DOMAIN Simplified(g)
              /\ \A m : m \in Simplified(g)[n] <=>
                          \E x \in Configured(g) : x.from = n /\ x.to = m
<1> DEFINE nodes == {n \in lock.locked : n.extra = Base} \cup {e.to : e \in Configured(g)}
<1>1. /\ DOMAIN Simplified(g) = nodes
      /\ \A n \in nodes : Simplified(g)[n] = {e.to : e \in {x \in Configured(g) : x.from = n}}
  BY DEF Simplified
<1>2. \A x \in Configured(g) : x.to \in Node /\ x.to.extra = Base
  <2> SUFFICES ASSUME NEW x \in Configured(g) PROVE x.to \in Node /\ x.to.extra = Base
    OBVIOUS
  <2>1. PICK e \in Edges : x.to = base(e.to)
    BY ConfiguredFacts
  <2>2. e.to \in Node
    BY EdgeFacts
  <2> QED
    BY <2>1, <2>2, BaseFields
<1>3. \A n \in nodes : n \in Node /\ n.extra = Base
  BY <1>2 DEF Lock
<1>4. \A n \in nodes : base(n) = n
  BY <1>3, BaseFields
<1> HIDE DEF nodes
<1>5. \A n \in nodes : \A m : m \in Simplified(g)[n] <=>
                          \E x \in Configured(g) : x.from = n /\ x.to = m
  BY <1>1
<1>6. \A x \in Configured(g) : x.to \in nodes
  BY DEF nodes
<1>7. \A n \in nodes : Simplified(g)[n] \subseteq nodes
  BY <1>5, <1>6
<1>8. \A n \in lock.locked : n.extra = Base => n \in nodes
  BY DEF nodes
<1> QED
  BY <1>1, <1>3, <1>4, <1>5, <1>7, <1>8

\* What the walks leave when they are all over.
Walked == WalkTypes /\ ActiveIInv /\ walked = Group /\ pc # "seed"

LEMMA ActiveFacts ==
  ASSUME Walked, NEW g \in Group, NEW n \in ActiveIn(g)
  PROVE  /\ n \in Node /\ Redirect(g, n) = n
         /\ base(n) \in ActiveIn(g) /\ base(n) \in DOMAIN Simplified(g)
<1>1. PICK t \in activated : t.group = g /\ t.dep = n
  BY DEF ActiveIn
<1>2. n \in Node /\ Redirect(g, n) = n /\ base(n) \in lock.locked
  BY <1>1 DEF Walked, WalkTypes, ActiveIInv, ActiveSound
<1>3. Activates(g, base(n), t.marker) \in activated
  BY <1>1 DEF Walked, ActiveIInv, ActiveSound
<1>4. base(n) \in ActiveIn(g)
  BY <1>3 DEF Activates, ActiveIn
<1>5. base(n).extra = Base
  BY <1>2, BaseFields
<1>6. lock \in Lock /\ SelfContained(lock)
  BY LockFacts DEF Walked, ActiveIInv
<1> QED
  BY <1>2, <1>4, <1>5, <1>6, SimplifiedFacts

\* An active package's edges lead to active packages, at the group's versions.
LEMMA ActiveTargets ==
  ASSUME Walked, NEW g \in Group, NEW n \in ActiveIn(g),
         NEW x \in Configured(g), x.from = n
  PROVE  Redirect(g, x.to) \in ActiveIn(g)
<1>1. lock \in Lock /\ OneVersion(lock) /\ SelfContained(lock)
  BY LockFacts DEF Walked, ActiveIInv
<1>2. PICK e \in Edges :
        /\ x.to = base(e.to)
        /\ \/ e.from.extra = Base /\ x.from = e.from
           \/ \E t \in activated : t.group = g /\ t.dep = e.from /\ x.from = base(t.dep)
  BY ConfiguredFacts
<1>3. e.from \in ActiveIn(g)
  BY <1>2 DEF ActiveIn
<1>4. Activates(g, Redirect(g, e.to), e.marker) \in activated
  BY <1>3 DEF Walked, ActiveIInv, ActiveComplete, Followed
<1>5. Redirect(g, e.to) \in ActiveIn(g)
  BY <1>4 DEF Activates, ActiveIn
<1>6. base(Redirect(g, e.to)) \in ActiveIn(g)
  BY <1>5, ActiveFacts
<1>7. e.to \in Node
  BY <1>1, EdgeFacts
<1> QED
  BY <1>1, <1>2, <1>6, <1>7, RedirectBase

\* A package at another version than the group's is alone in its component.
LEMMA RedirectedAlone ==
  ASSUME Walked, NEW g \in Group, VersionsSettled(g),
         NEW n \in DOMAIN Simplified(g), Redirect(g, n) # n
  PROVE  Component(Simplified(g), n) = {n}
<1>1. lock \in Lock /\ OneVersion(lock) /\ SelfContained(lock)
  BY LockFacts DEF Walked, ActiveIInv
<1>2. PICK r \in lock.roots[g] : r.dep.pkg = n.pkg /\ r.dep.ver # n.ver
  BY DEF Redirect
<1>3. r.dep \in Node /\ base(r.dep) \in lock.locked
  BY <1>1, RootsType DEF SelfContained
<1>4. /\ base(r.dep).extra = Base /\ base(r.dep).pkg = n.pkg /\ base(r.dep) # n
  BY <1>2, <1>3, BaseFields
<1>5. base(r.dep) \in DOMAIN Simplified(g)
  BY <1>1, <1>3, <1>4, SimplifiedFacts
<1> QED
  BY <1>4, <1>5 DEF VersionsSettled, SeveralVersions

LEMMA ComponentsAgree ==
  ASSUME NEW G, NEW n \in DOMAIN G, NEW m \in Component(G, n)
  PROVE  Component(G, m) = Component(G, n) /\ m \in DOMAIN G
<1>1. m \in DOMAIN G
  BY DEF Component
<1>2. Component(G, n) \in Components(G)
  BY DEF Components
<1> QED
  BY <1>1, <1>2, ComponentOfMember

\* All packages of an active package's component are active.
LEMMA ComponentActive ==
  ASSUME Walked, NEW g \in Group, VersionsSettled(g),
         NEW n \in ActiveIn(g), n \in DOMAIN Simplified(g)
  PROVE  Component(Simplified(g), n) \subseteq ActiveIn(g)
<1> DEFINE G == Simplified(g)
           S == {y \in DOMAIN G : Reach(G, n, y) /\ (Reach(G, y, n) => y \in ActiveIn(g))}
<1>1. lock \in Lock /\ SelfContained(lock)
  BY LockFacts DEF Walked, ActiveIInv
<1>2. \A y \in DOMAIN G : G[y] \subseteq DOMAIN G
  BY <1>1, SimplifiedFacts
<1>3. ASSUME NEW y \in S, NEW z \in G[y] PROVE z \in S
  <2>1. z \in DOMAIN G
    BY <1>2
  <2>2. Reach(G, n, z)
    BY DEF Reach, Closed
  <2>3. ASSUME Reach(G, z, n) PROVE z \in ActiveIn(g)
    <3>1. Reach(G, y, n)
      BY <1>2, <2>3 DEF Reach, Closed
    <3>2. y \in ActiveIn(g)
      BY <3>1
    <3>3. PICK x \in Configured(g) : x.from = y /\ x.to = z
      BY <1>1, SimplifiedFacts
    <3>4. Redirect(g, z) \in ActiveIn(g)
      BY <3>2, <3>3, ActiveTargets
    <3>5. CASE Redirect(g, z) = z
      BY <3>4, <3>5
    <3>6. CASE Redirect(g, z) # z
      <4>1. Component(G, z) = {z}
        BY <2>1, <3>6, RedirectedAlone
      <4>2. n \in Component(G, z)
        BY <2>2, <2>3 DEF Component, Mutual
      <4> QED
        BY <4>1, <4>2
    <3> QED
      BY <3>5, <3>6
  <2> QED
    BY <2>1, <2>2, <2>3
<1>4. Closed(G, S)
  BY <1>3 DEF Closed
<1>5. n \in S
  BY DEF Reach
<1>6. S \in SUBSET DOMAIN G
  OBVIOUS
<1>7. ASSUME NEW m \in Component(G, n) PROVE m \in ActiveIn(g)
  <2>1. Reach(G, n, m) /\ Reach(G, m, n)
    BY DEF Component, Mutual
  <2>2. m \in S
    <3> HIDE DEF S
    <3> QED
      BY <1>4, <1>5, <1>6, <2>1 DEF Reach
  <2> QED
    BY <2>1, <2>2
<1> QED
  BY <1>7

\* Two active versions of one package are one.
LEMMA ActiveVersions ==
  ASSUME Walked, NEW g \in Group, VersionsSettled(g),
         NEW m \in ActiveIn(g), NEW n \in ActiveIn(g),
         m \in DOMAIN Simplified(g), n \in DOMAIN Simplified(g), m.pkg = n.pkg
  PROVE  m = n
<1>1. lock \in Lock /\ OneVersion(lock) /\ SelfContained(lock)
  BY LockFacts DEF Walked, ActiveIInv
<1>2. SUFFICES ASSUME m # n PROVE FALSE
  OBVIOUS
<1>3. PICK r \in lock.roots[g] : r.dep.pkg = n.pkg
  BY <1>2 DEF VersionsSettled, SeveralVersions
<1>4. m \in Node /\ n \in Node /\ Redirect(g, m) = m /\ Redirect(g, n) = n
  BY ActiveFacts
<1>5. m.ver = r.dep.ver /\ n.ver = r.dep.ver
  BY <1>1, <1>3, <1>4, RedirectVersion
<1>6. m.extra = Base /\ n.extra = Base
  BY <1>1, SimplifiedFacts
<1> QED
  BY <1>2, <1>4, <1>5, <1>6, NodeEquality

-----------------------------------------------------------------------------
(* The tables when the extension is done.                                  *)

Finished == AllIInv /\ pc \in {"emitted", "no_alias"}

LEMMA FinishedWalked == Finished => Walked
BY DEF Finished, AllIInv, IInv, WalkIInv, ActiveIInv, Walked

LEMMA OneIdPerNode ==
  ASSUME AllIInv, NEW s \in cfg_sccs, NEW t \in cfg_sccs,
         s.group = t.group, s.node = t.node
  PROVE  s.scc = t.scc
<1>1. PICK i \in interned :
        /\ i.id = s.scc
        /\ i.key = content_key(s.group, Component(Simplified(s.group), s.node))
  BY DEF AllIInv, IInv, InternIInv, NodesAtIds
<1>2. PICK j \in interned :
        /\ j.id = t.scc
        /\ j.key = content_key(t.group, Component(Simplified(t.group), t.node))
  BY DEF AllIInv, IInv, InternIInv, NodesAtIds
<1>3. i = j
  BY <1>1, <1>2 DEF AllIInv, CoverIInv, KeysUnique
<1> QED
  BY <1>1, <1>2, <1>3

\* A component that a package's alias names is that of an active version.
LEMMA NamedComponent ==
  ASSUME Finished, NEW g \in Group, NEW p, NEW i \in SccsOf(g, p)
  PROVE  \E n \in ActiveIn(g) :
           /\ n \in DOMAIN Simplified(g) /\ n.pkg = p
           /\ i \in DOMAIN scc_graph
           /\ DOMAIN scc_graph[i] = Component(Simplified(g), n)
           /\ scc_deps[i] = Outgoing(g, Component(Simplified(g), n))
           /\ \E s \in cfg_sccs : s.group = g /\ s.node = n /\ s.scc = i
<1>1. PICK d \in PackageSccs : d.pkg = p /\ d.group = g /\ d.scc = i
  BY DEF SccsOf, Finished, AllIInv, CoverIInv, TablesKept
<1>2. PICK t \in activated : \E s \in cfg_sccs :
        /\ t.group = s.group /\ base(t.dep) = s.node
        /\ d = [pkg |-> t.dep.pkg, group |-> t.group, scc |-> s.scc, marker |-> t.marker]
  BY PackageSccsFacts
<1>3. PICK s \in cfg_sccs :
        /\ t.group = s.group /\ base(t.dep) = s.node
        /\ d = [pkg |-> t.dep.pkg, group |-> t.group, scc |-> s.scc, marker |-> t.marker]
  BY <1>2
<1>4. t.group = g /\ t.dep.pkg = p /\ s.group = g /\ s.scc = i
  BY <1>1, <1>3
<1>5. t.dep \in ActiveIn(g)
  BY <1>4 DEF ActiveIn
<1>6. /\ t.dep \in Node /\ base(t.dep) \in ActiveIn(g)
      /\ base(t.dep) \in DOMAIN Simplified(g)
  BY <1>5, FinishedWalked, ActiveFacts
<1>7. base(t.dep).pkg = p
  BY <1>4, <1>6, BaseFields
<1>8. i \in DOMAIN scc_deps
  BY <1>1 DEF Finished, AllIInv, CoverIInv, TablesKept
<1>9. /\ DOMAIN scc_graph[i] = Component(Simplified(g), base(t.dep))
      /\ scc_deps[i] = Outgoing(g, Component(Simplified(g), base(t.dep)))
  BY <1>3, <1>4, <1>8, ContentOfId DEF Finished, AllIInv
<1>10. i \in DOMAIN scc_graph
  BY <1>8 DEF Finished, AllIInv, IInv, InternIInv, TablesAtIds
<1> QED
  BY <1>3, <1>4, <1>6, <1>7, <1>9, <1>10

\* What is active in a group has an arm of its package's alias there.
LEMMA ActiveNamed ==
  ASSUME Finished, NEW g \in Group, NEW t \in activated, t.group = g
  PROVE  \E i \in SccsOf(g, t.dep.pkg) :
           /\ t.marker \in MarkersOf(g, t.dep.pkg, i)
           /\ base(t.dep) \in DOMAIN scc_graph[i]
<1>1. t.dep \in ActiveIn(g)
  BY DEF ActiveIn
<1>2. base(t.dep) \in DOMAIN Simplified(g)
  BY <1>1, FinishedWalked, ActiveFacts
<1>3. HasScc(g, base(t.dep))
  BY <1>2 DEF Finished, AllIInv, CoverIInv, NodesCovered
<1>4. PICK s \in cfg_sccs : s.group = g /\ s.node = base(t.dep)
  BY <1>3 DEF HasScc
<1> DEFINE d == [pkg |-> t.dep.pkg, group |-> t.group, scc |-> s.scc, marker |-> t.marker]
<1>5. d \in PackageSccs
  BY <1>4, PackageSccsFacts
<1>6. d \in dep_to_scc /\ s.scc \in DOMAIN scc_deps
  BY <1>5 DEF Finished, AllIInv, CoverIInv, TablesKept
<1>7. s.scc \in SccsOf(g, t.dep.pkg) /\ t.marker \in MarkersOf(g, t.dep.pkg, s.scc)
  BY <1>6 DEF SccsOf, MarkersOf
<1>8. DOMAIN scc_graph[s.scc] = Component(Simplified(g), base(t.dep))
  BY <1>4, <1>6, ContentOfId DEF Finished, AllIInv
<1> QED
  BY <1>2, <1>7, <1>8, ComponentHolds

\* A dependency of a component that an alias names has an arm for the group.
LEMMA DependencyNamed ==
  ASSUME Finished, NEW g \in Group, VersionsSettled(g),
         NEW p, NEW i \in SccsOf(g, p), NEW d \in scc_deps[i]
  PROVE  SccsOf(g, d.dep.pkg) # {} /\ d.dep \in Node
<1>1. PICK n \in ActiveIn(g) :
        /\ n \in DOMAIN Simplified(g)
        /\ scc_deps[i] = Outgoing(g, Component(Simplified(g), n))
  BY NamedComponent
<1>2. PICK x \in Configured(g) : x.from \in Component(Simplified(g), n) /\ d.dep = x.to
  BY <1>1 DEF Outgoing
<1>3. x.from \in ActiveIn(g)
  BY <1>1, <1>2, FinishedWalked, ComponentActive
<1>4. Redirect(g, x.to) \in ActiveIn(g)
  BY <1>3, FinishedWalked, ActiveTargets
<1>5. PICK e \in Edges : x.to = base(e.to)
  BY ConfiguredFacts
<1>6. lock \in Lock /\ SelfContained(lock)
  BY LockFacts DEF Finished, AllIInv, ActiveIInv
<1>7. e.to \in Node
  BY <1>6, EdgeFacts
<1>8. x.to \in Node
  BY <1>5, <1>7, BaseFields
<1>9. Redirect(g, x.to).pkg = x.to.pkg
  BY <1>6, <1>8, RedirectFields
<1>10. PICK t \in activated : t.group = g /\ t.dep = Redirect(g, x.to)
  BY <1>4 DEF ActiveIn
<1> QED
  BY <1>2, <1>8, <1>9, <1>10, ActiveNamed

\* A package has one component in a group that settles its versions.
LEMMA OneScc ==
  ASSUME Finished, NEW g \in Group, VersionsSettled(g),
         NEW p, NEW i \in SccsOf(g, p), NEW j \in SccsOf(g, p)
  PROVE  j = i
<1>1. PICK n \in ActiveIn(g) :
        /\ n \in DOMAIN Simplified(g) /\ n.pkg = p
        /\ \E s \in cfg_sccs : s.group = g /\ s.node = n /\ s.scc = i
  BY NamedComponent
<1>2. PICK m \in ActiveIn(g) :
        /\ m \in DOMAIN Simplified(g) /\ m.pkg = p
        /\ \E s \in cfg_sccs : s.group = g /\ s.node = m /\ s.scc = j
  BY NamedComponent
<1>3. m = n
  BY <1>1, <1>2, FinishedWalked, ActiveVersions
<1> QED
  BY <1>1, <1>2, <1>3, OneIdPerNode DEF Finished

\* graph_utils.bzl, collect_sccs, and project_repo: an alias never names a
\* component that the tables lack, the extension never stops for want of an
\* alias, no group's component depends on a package that has no arm there, and no
\* package has two components for one condition.
THEOREM AliasesClosedCorrect == Spec => []AliasesClosed
<1>1. AllIInv => AliasesClosed
  <2> SUFFICES ASSUME AllIInv PROVE AliasesClosed
    OBVIOUS
  <2>1. DOMAIN scc_graph = DOMAIN scc_deps
    BY DEF AllIInv, IInv, InternIInv, TablesAtIds
  <2>2. \A d \in dep_to_scc : d.scc \in DOMAIN scc_graph
    BY <2>1 DEF AllIInv, CoverIInv, TablesKept
  <2>3. ASSUME pc \in {"emitted", "no_alias"}, \A g \in Group : VersionsSettled(g)
        PROVE  \A g \in Group, p \in Pkg :
                 /\ ~ConfigurationConflict(g, p)
                 /\ \A i \in SccsOf(g, p) : \A d \in scc_deps[i] : SccsOf(g, d.dep.pkg) # {}
    <3>1. \A g \in Group, p \in Pkg : ~ConfigurationConflict(g, p)
      BY <2>3, OneScc DEF Finished, ConfigurationConflict
    <3> QED
      BY <2>3, <3>1, DependencyNamed DEF Finished
  <2>4. ASSUME pc \in {"emitted", "no_alias"}, \A g \in Group : VersionsSettled(g)
        PROVE  pc # "no_alias"
    <3> SUFFICES ASSUME pc = "no_alias" PROVE FALSE
      OBVIOUS
    <3>1. PICK q \in PackageSccs : Orphaned(q.scc)
      BY DEF AllIInv, CoverIInv, TablesKept
    <3>2. PICK d \in scc_deps[q.scc] : \A r \in PackageSccs : r.pkg # d.dep.pkg
      BY <3>1 DEF Orphaned
    <3>3. dep_to_scc = PackageSccs
      BY DEF AllIInv, CoverIInv, TablesKept
    <3>4. q.scc \in SccsOf(q.group, q.pkg)
      BY <3>3 DEF SccsOf
    <3>5. q.group \in Group
      <4>1. \E t \in activated : q.group = t.group
        BY PackageSccsFacts
      <4> QED
        BY <4>1 DEF AllIInv, IInv, WalkIInv, WalkTypes
    <3>6. SccsOf(q.group, d.dep.pkg) # {}
      BY <2>4, <3>4, <3>5, DependencyNamed DEF Finished
    <3>7. \E r \in PackageSccs : r.pkg = d.dep.pkg
      BY <3>3, <3>6 DEF SccsOf
    <3> QED
      BY <3>2, <3>7
  <2> QED
    BY <2>1, <2>2, <2>3, <2>4 DEF AliasesClosed
<1> QED
  BY <1>1, AllInvariance, PTL

\* What a group installs is a version the group activates.
LEMMA InstalledActive ==
  ASSUME Finished, NEW g \in Group, VersionsSettled(g), NEW env,
         NEW m \in Installed(g, env)
  PROVE  m \in ActiveIn(g) /\ m \in DOMAIN Simplified(g)
<1>1. PICK r \in EnvRoots(g, env) : m \in Installs(g, r.pkg, env)
  BY DEF Installed
<1>2. PICK q \in ReachFrom(AliasGraph(g, env), {r.pkg}) :
        \E i \in Selected(g, q, env) : m \in Included(i, env)
  BY <1>1 DEF Installs
<1>3. PICK i \in Selected(g, q, env) : m \in Included(i, env)
  BY <1>2
<1>4. i \in SccsOf(g, q)
  BY <1>3 DEF Selected
<1>5. PICK n \in ActiveIn(g) :
        n \in DOMAIN Simplified(g) /\ DOMAIN scc_graph[i] = Component(Simplified(g), n)
  BY <1>4, NamedComponent
<1>6. m \in Component(Simplified(g), n)
  BY <1>3, <1>5 DEF Included
<1> QED
  BY <1>5, <1>6, FinishedWalked, ComponentActive, ComponentsAgree

\* graph_utils.bzl, collect_sccs: for any lock and any number of groups that
\* share its table of ids, a group whose versions are settled installs nothing
\* that it does not activate.
THEOREM NoLeakCorrect == Spec => []NoLeak
<1>1. ASSUME Finished, NEW g \in Group, VersionsSettled(g), NEW env \in Env,
             NEW m \in Installed(g, env)
      PROVE  \E n \in ActiveIn(g) : m = base(n)
  <2>1. m \in ActiveIn(g) /\ m \in DOMAIN Simplified(g)
    BY <1>1, InstalledActive
  <2>2. lock \in Lock /\ SelfContained(lock)
    BY <1>1, LockFacts DEF Finished, AllIInv, ActiveIInv
  <2>3. base(m) = m
    BY <2>1, <2>2, SimplifiedFacts
  <2> QED
    BY <2>1, <2>3
<1>2. AllIInv => NoLeak
  BY <1>1 DEF NoLeak, Finished
<1> QED
  BY <1>2, AllInvariance, PTL

\* projectfile.bzl, the redirections of collect_activated_extras, carried through
\* the graphs, the ids and the aliases: a group whose versions are settled never
\* installs two versions of one package.
THEOREM OneVersionInstalledCorrect == Spec => []OneVersionInstalled
<1>1. ASSUME Finished, NEW g \in Group, VersionsSettled(g), NEW env \in Env,
             NEW m \in Installed(g, env), NEW n \in Installed(g, env), m.pkg = n.pkg
      PROVE  m.ver = n.ver
  <2>1. /\ m \in ActiveIn(g) /\ m \in DOMAIN Simplified(g)
        /\ n \in ActiveIn(g) /\ n \in DOMAIN Simplified(g)
    BY <1>1, InstalledActive
  <2> QED
    BY <1>1, <2>1, FinishedWalked, ActiveVersions
<1>2. AllIInv => OneVersionInstalled
  BY <1>1 DEF OneVersionInstalled, Finished
<1> QED
  BY <1>2, AllInvariance, PTL

-----------------------------------------------------------------------------
(* Completeness.                                                           *)

\* A group's alias selects, in an environment in which a package is active, the
\* component that has the package.
LEMMA ActiveSelected ==
  ASSUME Finished, NEW g \in Group, VersionsSettled(g), NEW env \in Env,
         NEW t \in activated, t.group = g, env \in t.marker
  PROVE  \E i \in Selected(g, t.dep.pkg, env) : base(t.dep) \in DOMAIN scc_graph[i]
<1> DEFINE p == t.dep.pkg
           default == {j \in SccsOf(g, p) : Always \in MarkersOf(g, p, j)}
           gated == {j \in SccsOf(g, p) \ default : env \in UNION MarkersOf(g, p, j)}
<1>1. PICK i \in SccsOf(g, p) :
        t.marker \in MarkersOf(g, p, i) /\ base(t.dep) \in DOMAIN scc_graph[i]
  BY ActiveNamed
<1>2. \A j \in SccsOf(g, p) : j = i
  BY OneScc
<1>3. i \in default \/ i \in gated
  BY <1>1
<1>4. gated # {} => default = {}
  BY <1>2
<1>5. Selected(g, p, env) = IF gated = {} THEN default ELSE gated
  BY DEF Selected
<1> HIDE DEF default, gated
<1>6. i \in Selected(g, p, env)
  BY <1>3, <1>4, <1>5
<1> QED
  BY <1>1, <1>6

\* What the aliases reach from a package are packages.
LEMMA AliasGraphType ==
  ASSUME Finished, NEW g \in Group, VersionsSettled(g), NEW env
  PROVE  /\ DOMAIN AliasGraph(g, env) = Pkg
         /\ \A p \in Pkg : AliasGraph(g, env)[p] \subseteq Pkg
         /\ \A p \in Pkg : \A i \in Selected(g, p, env) :
              DependsOn(i, env) \subseteq AliasGraph(g, env)[p]
<1>1. /\ DOMAIN AliasGraph(g, env) = Pkg
      /\ \A p \in Pkg : AliasGraph(g, env)[p] = UNION {DependsOn(i, env) : i \in Selected(g, p, env)}
  BY DEF AliasGraph
<1>2. ASSUME NEW p \in Pkg, NEW i \in Selected(g, p, env), NEW q \in DependsOn(i, env)
      PROVE  q \in Pkg
  <2>1. i \in SccsOf(g, p)
    BY DEF Selected
  <2>2. PICK d \in scc_deps[i] : q = d.dep.pkg
    BY DEF DependsOn
  <2>3. d.dep \in Node
    BY <2>1, <2>2, DependencyNamed
  <2> QED
    BY <2>2, <2>3, NodeFields
<1> QED
  BY <1>1, <1>2

\* The components that the aliases of what the group requires reach.
Taken(g, env) ==
  UNION {UNION {Selected(g, q, env) : q \in ReachFrom(AliasGraph(g, env), {r.pkg})} :
         r \in EnvRoots(g, env)}

LEMMA TakenFacts ==
  ASSUME Finished, NEW g \in Group, VersionsSettled(g), NEW env
  PROVE  /\ \A r \in EnvRoots(g, env) : Selected(g, r.pkg, env) \subseteq Taken(g, env)
         /\ \A i \in Taken(g, env) : \E q \in Pkg : i \in SccsOf(g, q)
         /\ \A i \in Taken(g, env) : \A q \in DependsOn(i, env) :
              Selected(g, q, env) \subseteq Taken(g, env)
         /\ \A i \in Taken(g, env) : Included(i, env) \subseteq Installed(g, env)
<1> DEFINE A == AliasGraph(g, env)
<1>1. DOMAIN A = Pkg /\ \A p \in Pkg : A[p] \subseteq Pkg
  BY AliasGraphType
<1>2. \A r \in EnvRoots(g, env) : r.pkg \in Pkg
  BY RootsType, NodeFields DEF EnvRoots, Finished, AllIInv, IInv, WalkIInv, WalkTypes
<1>3. \A i : i \in Taken(g, env) <=>
        \E r \in EnvRoots(g, env) : \E q \in ReachFrom(A, {r.pkg}) : i \in Selected(g, q, env)
  <2> DEFINE W(r) == UNION {Selected(g, q, env) : q \in ReachFrom(A, {r.pkg})}
  <2>1. Taken(g, env) = UNION {W(r) : r \in EnvRoots(g, env)}
    BY DEF Taken
  <2>2. \A r, i : i \in W(r) <=> \E q \in ReachFrom(A, {r.pkg}) : i \in Selected(g, q, env)
    OBVIOUS
  <2> HIDE DEF W
  <2> QED
    BY <2>1, <2>2
<1>4. \A r \in EnvRoots(g, env) : ReachFrom(A, {r.pkg}) \subseteq Pkg
  BY <1>1 DEF ReachFrom
<1> HIDE DEF A
<1>5. ASSUME NEW r \in EnvRoots(g, env)
      PROVE  Selected(g, r.pkg, env) \subseteq Taken(g, env)
  <2>1. r.pkg \in ReachFrom(A, {r.pkg})
    BY <1>1, <1>2, ReachFromHolds
  <2> QED
    BY <1>3, <2>1
<1>6. ASSUME NEW i \in Taken(g, env)
      PROVE  /\ \E q \in Pkg : i \in SccsOf(g, q)
             /\ \A q \in DependsOn(i, env) : Selected(g, q, env) \subseteq Taken(g, env)
             /\ Included(i, env) \subseteq Installed(g, env)
  <2>1. PICK r \in EnvRoots(g, env) : \E q \in ReachFrom(A, {r.pkg}) : i \in Selected(g, q, env)
    BY <1>3
  <2>2. PICK q \in ReachFrom(A, {r.pkg}) : i \in Selected(g, q, env)
    BY <2>1
  <2>3. q \in Pkg /\ i \in SccsOf(g, q)
    BY <1>4, <2>2 DEF Selected
  <2>4. DependsOn(i, env) \subseteq A[q]
    BY <2>2, <2>3, AliasGraphType DEF A
  <2>5. A[q] \subseteq ReachFrom(A, {r.pkg})
    BY <1>1, <2>2, <2>3, ReachFromClosed
  <2>6. \A u \in DependsOn(i, env) : Selected(g, u, env) \subseteq Taken(g, env)
    BY <1>3, <2>4, <2>5
  <2>7. Included(i, env) \subseteq Installs(g, r.pkg, env)
    BY <2>2 DEF Installs, A
  <2>8. Installs(g, r.pkg, env) \subseteq Installed(g, env)
    BY DEF Installed
  <2> QED
    BY <2>3, <2>6, <2>7, <2>8
<1> QED
  BY <1>5, <1>6

\* Nodes that are active in an environment and in a component taken there.
Provided(g, env) ==
  {n \in Node : /\ \E t \in activated : t.group = g /\ t.dep = n /\ env \in t.marker
                /\ \E i \in Taken(g, env) : base(n) \in DOMAIN scc_graph[i]}

LEMMA EnvGraphType ==
  ASSUME lock \in Lock, NEW g \in Group, NEW env
  PROVE  /\ DOMAIN EnvGraph(g, env) = Node
         /\ \A n \in Node : \A m \in EnvGraph(g, env)[n] :
              \E e \in Edges : e.from = n /\ env \in e.marker /\ m = Redirect(g, e.to)
BY DEF EnvGraph

\* Following an edge that holds in the environment stays within what is provided.
LEMMA ProvidedClosed ==
  ASSUME Finished, NEW g \in Group, VersionsSettled(g), NEW env \in Env
  PROVE  Closed(EnvGraph(g, env), Provided(g, env))
<1>1. lock \in Lock /\ OneVersion(lock) /\ SelfContained(lock)
  BY LockFacts DEF Finished, AllIInv, ActiveIInv
<1>2. Walked
  BY FinishedWalked
<1>3. SUFFICES ASSUME NEW n \in Provided(g, env), NEW m \in EnvGraph(g, env)[n]
               PROVE  m \in Provided(g, env)
  BY DEF Closed
<1>4. n \in Node
  BY DEF Provided
<1>5. PICK t \in activated : t.group = g /\ t.dep = n /\ env \in t.marker
  BY DEF Provided
<1>6. PICK i \in Taken(g, env) : base(n) \in DOMAIN scc_graph[i]
  BY DEF Provided
<1>7. PICK e \in Edges : e.from = n /\ env \in e.marker /\ m = Redirect(g, e.to)
  BY <1>1, <1>4, EnvGraphType
<1>8. e.to \in Node /\ base(e.to) \in Node /\ base(e.to).pkg = e.to.pkg
  BY <1>1, EdgeFacts, BaseFields
<1>9. m \in Node /\ m.pkg = e.to.pkg
  BY <1>1, <1>7, <1>8, RedirectFields
<1>10. n \in ActiveIn(g)
  BY <1>5 DEF ActiveIn
<1> DEFINE u == Activates(g, m, e.marker)
<1>11. u \in activated
  BY <1>2, <1>7, <1>10 DEF Walked, ActiveIInv, ActiveComplete, Followed
<1>12. u.group = g /\ u.dep = m /\ u.marker = e.marker
  BY DEF Activates
<1> HIDE DEF u
<1>13. SUFFICES \E j \in Taken(g, env) : base(m) \in DOMAIN scc_graph[j]
  BY <1>7, <1>9, <1>11, <1>12 DEF Provided
<1>14. PICK q \in Pkg : i \in SccsOf(g, q)
  BY TakenFacts
<1>15. PICK k \in ActiveIn(g) :
         /\ k \in DOMAIN Simplified(g)
         /\ DOMAIN scc_graph[i] = Component(Simplified(g), k)
         /\ scc_deps[i] = Outgoing(g, Component(Simplified(g), k))
  BY <1>14, NamedComponent
<1> DEFINE x == DepEdge(base(n), base(e.to), t.marker \cap e.marker)
           K == Component(Simplified(g), k)
<1>16. base(t.dep) \in lock.locked
  BY <1>2 DEF Walked, ActiveIInv, ActiveSound
<1>17. x \in Configured(g)
  BY <1>5, <1>7, <1>16, ConfiguredActive
<1>18. x.from = base(n) /\ x.to = base(e.to) /\ env \in x.marker
  BY <1>5, <1>7 DEF DepEdge
<1> HIDE DEF x
<1>19. base(n) \in K /\ base(n) \in DOMAIN Simplified(g)
  BY <1>6, <1>15, ComponentsAgree
<1>20. CASE base(e.to) \in K
  <2>1. /\ Component(Simplified(g), base(e.to)) = K /\ base(e.to) \in DOMAIN Simplified(g)
    BY <1>15, <1>20, ComponentsAgree
  <2>2. Redirect(g, base(n)) = base(n)
    BY <1>2, <1>10, ActiveFacts
  <2>3. Redirect(g, base(e.to)) = base(e.to)
    BY <1>2, <1>19, <2>1, <2>2, RedirectedAlone
  <2>4. base(m) = base(e.to)
    BY <1>1, <1>7, <1>8, <2>3, RedirectBase
  <2> QED
    BY <1>15, <1>20, <2>4
<1>21. CASE base(e.to) \notin K
  <2> DEFINE d == [dep |-> x.to, marker |-> x.marker]
  <2>1. d \in Outgoing(g, K)
    BY <1>17, <1>18, <1>19, <1>21 DEF Outgoing
  <2>2. m.pkg \in DependsOn(i, env)
    <3>1. d \in scc_deps[i] /\ env \in d.marker /\ d.dep.pkg = m.pkg
      BY <1>8, <1>9, <1>15, <1>18, <2>1
    <3> QED
      BY <3>1 DEF DependsOn
  <2>3. PICK j \in Selected(g, m.pkg, env) : base(m) \in DOMAIN scc_graph[j]
    BY <1>7, <1>11, <1>12, ActiveSelected
  <2> QED
    BY <2>2, <2>3, TakenFacts
<1> QED
  BY <1>20, <1>21

\* The whole pipeline: what a group's requirements lead to in an environment is
\* installed there, for any lock whose versions the group settles, unless an edge
\* inside a cycle carries a marker.
THEOREM CompleteCorrect == Spec => []CompleteWithoutMarkedCycles
<1>1. ASSUME Finished, NEW g \in Group, VersionsSettled(g), NEW env \in Env,
             \A i \in DOMAIN scc_graph : \A m \in DOMAIN scc_graph[i] :
               Always \in scc_graph[i][m]
      PROVE  Needed(g, env) \subseteq Installed(g, env)
  <2>1. lock \in Lock /\ Walked
    BY <1>1, LockFacts, FinishedWalked DEF Finished, AllIInv, ActiveIInv
  <2>2. EnvRoots(g, env) \subseteq Provided(g, env)
    <3> SUFFICES ASSUME NEW n \in EnvRoots(g, env) PROVE n \in Provided(g, env)
      OBVIOUS
    <3>1. PICK r \in lock.roots[g] : r.dep = n /\ env \in r.marker
      BY DEF EnvRoots
    <3> DEFINE t == Activates(g, r.dep, r.marker)
    <3>2. t \in activated
      BY <2>1 DEF Walked, ActiveIInv, ActiveComplete
    <3>3. t.group = g /\ t.dep = n /\ env \in t.marker
      BY <3>1 DEF Activates
    <3> HIDE DEF t
    <3>4. PICK i \in Selected(g, n.pkg, env) : base(n) \in DOMAIN scc_graph[i]
      BY <1>1, <3>2, <3>3, ActiveSelected
    <3>5. i \in Taken(g, env)
      BY <1>1, <3>4, TakenFacts
    <3>6. n \in Node
      BY <2>1, <3>1, RootsType
    <3> QED
      BY <3>2, <3>3, <3>4, <3>5, <3>6 DEF Provided
  <2>3. Provided(g, env) \in SUBSET DOMAIN EnvGraph(g, env)
    BY <2>1, EnvGraphType DEF Provided
  <2>4. ReachFrom(EnvGraph(g, env), EnvRoots(g, env)) \subseteq Provided(g, env)
    BY <1>1, <2>2, <2>3, ProvidedClosed, ReachFromLeast
  <2>5. ASSUME NEW n \in Provided(g, env) PROVE base(n) \in Installed(g, env)
    <3>1. PICK i \in Taken(g, env) : base(n) \in DOMAIN scc_graph[i]
      BY <2>5 DEF Provided
    <3>2. i \in DOMAIN scc_graph
      <4>1. PICK q \in Pkg : i \in SccsOf(g, q)
        BY <1>1, TakenFacts
      <4> QED
        BY <1>1, <4>1, NamedComponent
    <3>3. env \in UNION scc_graph[i][base(n)]
      BY <1>1, <3>1, <3>2 DEF Always
    <3>4. base(n) \in Included(i, env)
      BY <3>1, <3>3 DEF Included
    <3> QED
      BY <1>1, <3>4, TakenFacts
  <2> QED
    BY <2>4, <2>5 DEF Needed
<1>2. AllIInv => CompleteWithoutMarkedCycles
  BY <1>1 DEF CompleteWithoutMarkedCycles, Finished
<1> QED
  BY <1>2, AllInvariance, PTL
=============================================================================
