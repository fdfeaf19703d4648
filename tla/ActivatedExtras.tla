-------------------------- MODULE ActivatedExtras --------------------------
(***************************************************************************)
(* collect_activated_extras of uv/private/extension/projectfile.bzl: for   *)
(* each dependency group, which packages and extras of the lock it         *)
(* activates, and under which markers.  A worklist walk over the marker    *)
(* graph that build_marker_graph makes of uv.lock, redirecting every       *)
(* dependency to the version the group asked for.                          *)
(*                                                                         *)
(* A marker is the set of environments in which it is true, so "" is Env,  *)
(* `and` is intersection and a dict {marker: 1} is a set of markers; a     *)
(* node is the source's tuple without the lock id.                         *)
(***************************************************************************)
EXTENDS DepGraph, FiniteSets, Naturals

CONSTANTS
  Pkg,     \* package names
  Releases,\* the versions there are of each package
  Extras,  \* the extras that are asked of each package
  Group,   \* dependency groups, which are the configurations
  NoGroup, \* no group's walk runs
  Env,     \* environments a marker tells apart
  Locks    \* the lock files, with the groups' requirements, to start from

Base == "__base__"
Node ==
  UNION {[pkg : {p}, ver : Releases[p], extra : Extras[p] \cup {Base}] : p \in Pkg}
Marker == SUBSET Env

\* One entry of a `dependencies` or `optional-dependencies` list.
Dependency ==
  {d \in [from : Node, to : {n \in Node : n.extra = Base},
          extras : SUBSET UNION {Extras[p] : p \in Pkg}, marker : Marker] :
     d.extras \subseteq Extras[d.to.pkg]}
Lock ==
  [locked : SUBSET Node, deps : SUBSET Dependency,
   roots : [Group -> SUBSET [dep : Node, marker : Marker]]]

\* A group's requirements agree on one version of each package: the first
\* resolution of a requirement is preferred by every later one.
OneVersion(l) ==
  \A g \in Group : \A r, s \in l.roots[g] :
    r.dep.pkg = s.dep.pkg => r.dep.ver = s.dep.ver

base(n) == [n EXCEPT !.extra = Base]

\* The lock has every package that its entries or a requirement name.
SelfContained(l) ==
  /\ \A d \in l.deps : {base(d.from), d.to} \subseteq l.locked
  /\ \A g \in Group : \A r \in l.roots[g] : base(r.dep) \in l.locked

\* A requirement on extras is one on the package, too, under the same marker.
BaseRequired(l) ==
  \A g \in Group : \A r \in l.roots[g] : [r EXCEPT !.dep = base(r.dep)] \in l.roots[g]

ASSUME BaseAssumption == \A p \in Pkg : Base \notin Extras[p]
ASSUME NoGroupAssumption == NoGroup \notin Group
ASSUME LocksAssumption ==
  \A l \in Locks : l \in Lock /\ OneVersion(l) /\ SelfContained(l) /\ BaseRequired(l)

VARIABLES
  lock,       \* the lock being resolved
  pc,         \* "seed", "groups", "walk", "walked"
  group,      \* the group whose walk runs
  walked,     \* the groups whose walk is over
  pending,    \* the part of the worklist not visited yet
  visited,    \* nodes visited or queued by this walk
  activated   \* the triples (group, node, marker) of activated_extras

vars == <<lock, pc, group, walked, pending, visited, activated>>

\* A dependency on extras is one on the base package and on each extra.
Edges ==
  UNION {{[from |-> d.from, to |-> [d.to EXCEPT !.extra = e],
           marker |-> d.marker] : e \in {Base} \cup d.extras} : d \in lock.deps}

\* The version the group's own requirements pin, where they pin another one.
RedirectWrong(g, n) == n
Redirect(g, n) ==
  IF \E r \in lock.roots[g] : r.dep.pkg = n.pkg /\ r.dep.ver # n.ver
  THEN [n EXCEPT !.ver = (CHOOSE r \in lock.roots[g] : r.dep.pkg = n.pkg).dep.ver]
  ELSE n

Activates(g, n, m) == [group |-> g, dep |-> n, marker |-> m]

InitWalk ==
  /\ lock \in Locks
  /\ pc = "seed"
  /\ group = NoGroup
  /\ walked = {}
  /\ pending = {}
  /\ visited = {}
  /\ activated = {}

\* The base case: what the groups name, under the requirements' markers.
Seed ==
  /\ pc = "seed"
  /\ activated' = UNION {{Activates(g, r.dep, r.marker) : r \in lock.roots[g]} :
                           g \in Group}
  /\ pc' = "groups"
  /\ UNCHANGED <<lock, group, walked, pending, visited>>

StartWalk(g) ==
  /\ pc = "groups" /\ g \notin walked
  /\ group' = g
  /\ pending' = {r.dep : r \in lock.roots[g]}
  /\ visited' = {}
  /\ pc' = "walk"
  /\ UNCHANGED <<lock, walked, activated>>

\* One entry of the worklist.  Queueing an entry twice only repeats its
\* effect, so the worklist is a set.
VisitWrong(n) ==  \* marks the target visited before asking whether it is
  LET out == {e \in Edges : e.from = n} IN
  /\ pc = "walk" /\ n \in pending
  /\ activated' = activated \cup
       {Activates(group, Redirect(group, e.to), e.marker) : e \in out}
  /\ visited' = visited \cup {n} \cup {Redirect(group, e.to) : e \in out}
  /\ pending' = pending \ {n}
  /\ UNCHANGED <<lock, pc, group, walked>>
Visit(n) ==
  LET out == {e \in Edges : e.from = n}
      targets == {Redirect(group, e.to) : e \in out}
  IN
  /\ pc = "walk" /\ n \in pending
  /\ activated' = activated \cup
       {Activates(group, Redirect(group, e.to), e.marker) : e \in out}
  /\ visited' = visited \cup {n} \cup targets
  /\ pending' = (pending \ {n}) \cup (targets \ (visited \cup {n}))
  /\ UNCHANGED <<lock, pc, group, walked>>

EndWalk ==
  /\ pc = "walk" /\ pending = {}
  /\ walked' = walked \cup {group}
  /\ group' = NoGroup
  /\ pc' = IF walked' = Group THEN "walked" ELSE "groups"
  /\ UNCHANGED <<lock, pending, visited, activated>>

WalkNext ==
  \/ Seed
  \/ \E g \in Group : StartWalk(g)
  \/ \E n \in pending : Visit(n)
  \/ EndWalk

\* Every group was walked: the function returns.
WalkReturned == pc = "walked" /\ UNCHANGED vars

WalkSpec == InitWalk /\ [][WalkNext \/ WalkReturned]_vars

-----------------------------------------------------------------------------
WalkTypeOK ==
  /\ lock \in Lock
  /\ pc \in {"seed", "groups", "walk", "walked"}
  /\ group \in Group \cup {NoGroup}
  /\ walked \subseteq Group
  /\ pending \subseteq Node
  /\ visited \subseteq Node
  /\ activated \subseteq [group : Group, dep : Node, marker : Marker]

ActiveIn(g) == {a.dep : a \in {x \in activated : x.group = g}}

\* The lock as a group sees it, and what its requirements reach.
GroupGraph(g) ==
  [n \in Node |-> {Redirect(g, e.to) : e \in {x \in Edges : x.from = n}}]
ReachedFromRoots(g) ==
  ReachFrom(GroupGraph(g), {r.dep : r \in lock.roots[g]})

\* The requirements, and what the reached packages depend on, under the markers
\* that say so.
ReachedUnder(g) ==
  LET reached == ReachedFromRoots(g)
  IN {Activates(g, r.dep, r.marker) : r \in lock.roots[g]} \cup
       {Activates(g, Redirect(g, e.to), e.marker) : e \in {x \in Edges : x.from \in reached}}

\* A walk finds exactly what the group's requirements lead to, under each of the
\* markers by which something reached asks for it: no package or marker of these
\* is missing when it ends, and nothing else was activated.
WalkExact ==
  pc \in {"groups", "walked"} =>
    \A g \in walked : {a \in activated : a.group = g} = ReachedUnder(g)
=============================================================================
