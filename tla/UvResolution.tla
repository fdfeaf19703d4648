---------------------------- MODULE UvResolution ----------------------------
(***************************************************************************)
(* The dependency resolution of the uv extension for one project: the      *)
(* groups' walks (ActivatedExtras), then for each group its configured     *)
(* graph (activate_extras) cut into strongly connected components whose    *)
(* ids are interned across the groups (collect_sccs), the tables that      *)
(* defs.bzl aggregates from them, and what the targets that uv_project     *)
(* generates from those tables install.                                    *)
(*                                                                         *)
(* The components are those of DepGraph: Sccs.tla shows that sccs.bzl      *)
(* computes them.  A repr() of markers is their set, so two strings that   *)
(* are true in the same environments intern as one.                        *)
(***************************************************************************)
EXTENDS ActivatedExtras

VARIABLES
  configured,  \* the groups whose components were interned
  components,  \* the components of the running group still to intern
  interned,    \* id_state: pairs of a content key and its id
  scc_graph,   \* {scc id: {member: {marker: 1}}}
  scc_deps,    \* {scc id: {dep: {marker: 1}}}
  cfg_sccs,    \* {node: {group: scc id}}, as triples
  dep_to_scc   \* {package: {group: {scc id: {marker: 1}}}}, as tuples

tables == <<configured, components, interned, scc_graph, scc_deps, cfg_sccs,
            dep_to_scc>>
allvars == <<vars, tables>>

Always == Env
DepEdge(n, m, marker) == [from |-> n, to |-> m, marker |-> marker]

\* activate_extras: the base packages' own edges, and those of what is
\* active for them (the extras, and the package itself) under both markers.
Configured(g) ==
  {DepEdge(e.from, base(e.to), e.marker) : e \in {x \in Edges : x.from.extra = Base}}
  \cup UNION {{DepEdge(base(a.dep), base(e.to), a.marker \cap e.marker) :
                 e \in {x \in Edges : x.from = a.dep}} :
              a \in {x \in activated : x.group = g /\ base(x.dep) \in lock.locked}}

\* The simplified graph handed to sccs().
Simplified(g) ==
  LET E == Configured(g)
      nodes == {n \in lock.locked : n.extra = Base} \cup {e.to : e \in E}
  IN [n \in nodes |-> {e.to : e \in {x \in E : x.from = n}}]

\* A component's edges to other components, and the markers on its members
\* that its own edges carry.
Outgoing(g, C) ==
  {[dep |-> e.to, marker |-> e.marker] :
     e \in {x \in Configured(g) : x.from \in C /\ x.to \notin C}}
MemberMarkers(g, C) ==
  [m \in C |->
     LET marks == {e.marker : e \in {x \in Configured(g) : x.from \in C /\ x.to = m}}
     IN IF marks = {} THEN {Always} ELSE marks]

content_keyWrong(g, C) == [members |-> C, deps |-> {}]
content_key(g, C) == [members |-> C, deps |-> Outgoing(g, C)]

\* The id: a lone package by name and version, a cycle by its members' names,
\* numbered when the stem was used before.
Stem(C) ==
  IF Cardinality(C) = 1 THEN {<<m.pkg, m.ver>> : m \in C} ELSE {m.pkg : m \in C}
DeriveId(C) ==
  [stem |-> Stem(C),
   n |-> Cardinality({i \in interned : i.id.stem = Stem(C)})]

Init ==
  /\ InitWalk
  /\ configured = {}
  /\ components = {}
  /\ interned = {}
  /\ scc_graph = << >>
  /\ scc_deps = << >>
  /\ cfg_sccs = {}
  /\ dep_to_scc = {}

Walk == WalkNext /\ UNCHANGED tables

\* for cfg in configuration_names: the group's graph and its components.
Configure(g) ==
  /\ pc = "walked" /\ g \notin configured
  /\ group' = g
  /\ components' = Components(Simplified(g))
  /\ pc' = "intern"
  /\ UNCHANGED <<lock, walked, pending, visited, activated, configured,
                 interned, scc_graph, scc_deps, cfg_sccs, dep_to_scc>>

Put(f, k, v) == [x \in DOMAIN f \cup {k} |-> IF x = k THEN v ELSE f[x]]

\* One component: reuse or derive its id, then update the tables at that id.
Intern(C) ==
  /\ pc = "intern" /\ C \in components
  /\ LET key == content_key(group, C)
         known == {i \in interned : i.key = key}
         id == IF known = {} THEN DeriveId(C) ELSE (CHOOSE i \in known : TRUE).id
     IN
     /\ interned' = interned \cup {[key |-> key, id |-> id]}
     /\ scc_graph' = Put(scc_graph, id, MemberMarkers(group, C))
     /\ scc_deps' = Put(scc_deps, id, Outgoing(group, C))
     /\ cfg_sccs' = cfg_sccs \cup {[node |-> m, group |-> group, scc |-> id] : m \in C}
  /\ components' = components \ {C}
  /\ UNCHANGED <<vars, configured, dep_to_scc>>

EndConfigure ==
  /\ pc = "intern" /\ components = {}
  /\ configured' = configured \cup {group}
  /\ group' = NoGroup
  /\ pc' = IF configured' = Group THEN "collate" ELSE "walked"
  /\ UNCHANGED <<lock, walked, pending, visited, activated, components,
                 interned, scc_graph, scc_deps, cfg_sccs, dep_to_scc>>

\* collate_versions_by_name and the table of each package's components.
PackageSccsWrong ==  \* pairs what one group activates with another's components
  UNION {{[pkg |-> a.dep.pkg, group |-> s.group, scc |-> s.scc, marker |-> a.marker] :
            s \in {c \in cfg_sccs : base(a.dep) = c.node}} : a \in activated}
PackageSccs ==
  UNION {{[pkg |-> a.dep.pkg, group |-> a.group, scc |-> s.scc, marker |-> a.marker] :
            s \in {c \in cfg_sccs : a.group = c.group /\ base(a.dep) = c.node}} :
         a \in activated}

\* The last steps of the project's loop: only components some alias names are
\* kept, and each must depend on packages that have an alias.
EmitWrong ==  \* leaves the components no alias names in scc_deps
  /\ pc = "collate"
  /\ scc_graph' = [i \in DOMAIN scc_graph \cap {d.scc : d \in PackageSccs} |-> scc_graph[i]]
  /\ dep_to_scc' = PackageSccs
  /\ pc' = "emitted"
  /\ UNCHANGED <<lock, group, walked, pending, visited, activated, configured,
                 components, interned, scc_deps, cfg_sccs>>
Emit ==
  /\ pc = "collate"
  /\ LET reachable == {d.scc : d \in PackageSccs}
         graph == [i \in DOMAIN scc_graph \cap reachable |-> scc_graph[i]]
         deps == [i \in DOMAIN scc_deps \cap reachable |-> scc_deps[i]]
         orphans == {d \in UNION {deps[i] : i \in DOMAIN deps} :
                       \A p \in PackageSccs : p.pkg # d.dep.pkg}
     IN
     /\ dep_to_scc' = PackageSccs
     /\ scc_graph' = graph
     /\ scc_deps' = deps
     /\ pc' = IF orphans = {} THEN "emitted" ELSE "no_alias"
  /\ UNCHANGED <<lock, group, walked, pending, visited, activated, configured,
                 components, interned, cfg_sccs>>

\* The extension is done, or it failed because a package has no alias.
Terminating == pc \in {"emitted", "no_alias"} /\ UNCHANGED allvars

Next ==
  \/ Walk
  \/ \E g \in Group : Configure(g)
  \/ \E C \in components : Intern(C)
  \/ EndConfigure
  \/ Emit
  \/ Terminating

Spec == Init /\ [][Next]_allvars

-----------------------------------------------------------------------------
(* What the generated targets mean: the alias of a package selects among   *)
(* the components it has in the group, a component's library pulls in its  *)
(* members and, through their aliases, the packages it depends on.         *)

MarkersOf(g, p, i) ==
  {d.marker : d \in {x \in dep_to_scc : x.pkg = p /\ x.group = g /\ x.scc = i}}
SccsOf(g, p) == {d.scc : d \in {x \in dep_to_scc : x.pkg = p /\ x.group = g}}

\* Two components with an arm for one condition: the generator of the alias fails.
ConfigurationConflict(g, p) ==
  LET arms(i) == IF Always \in MarkersOf(g, p, i) THEN {Always} ELSE MarkersOf(g, p, i)
  IN \E i, j \in SccsOf(g, p) : i # j /\ arms(i) \cap arms(j) # {}

\* The arms of the select that hold in env, the default one when none does.
Selected(g, p, env) ==
  LET default == {i \in SccsOf(g, p) : Always \in MarkersOf(g, p, i)}
      gated == {i \in SccsOf(g, p) \ default : env \in UNION MarkersOf(g, p, i)}
  IN IF gated = {} THEN default ELSE gated

Included(i, env) == {m \in DOMAIN scc_graph[i] : env \in UNION scc_graph[i][m]}
DependsOn(i, env) ==
  {d.dep.pkg : d \in {x \in scc_deps[i] : env \in x.marker}}

\* The packages whose aliases the alias of p reaches.
AliasGraph(g, env) ==
  [p \in Pkg |-> UNION {DependsOn(i, env) : i \in Selected(g, p, env)}]
Installs(g, p, env) ==
  UNION {Included(i, env) :
    i \in UNION {Selected(g, q, env) : q \in ReachFrom(AliasGraph(g, env), {p})}}

\* What the group's requirements reach when only the edges true in env count.
EnvGraph(g, env) ==
  [n \in Node |-> {Redirect(g, e.to) :
                     e \in {x \in Edges : x.from = n /\ env \in x.marker}}]
EnvRoots(g, env) == {r.dep : r \in {x \in lock.roots[g] : env \in x.marker}}
Needed(g, env) ==
  {base(n) : n \in ReachFrom(EnvGraph(g, env), EnvRoots(g, env))}
Installed(g, env) ==
  UNION {Installs(g, r.pkg, env) : r \in EnvRoots(g, env)}

\* Interning ids across groups never mixes two groups' tables up: the members
\* and the dependencies stored at a group's id are those of its own graph.
DepsFaithful ==
  pc \in {"walked", "collate", "emitted"} =>
    \A s \in cfg_sccs : s.scc \in DOMAIN scc_deps =>
      /\ DOMAIN scc_graph[s.scc] = Component(Simplified(s.group), s.node)
      /\ scc_deps[s.scc] = Outgoing(s.group, DOMAIN scc_graph[s.scc])

\* graph_utils.bzl:83: "distinct (members, deps, markers) content must map to
\* distinct ids", so a member stored at a group's id is included in the very
\* environments in which the group's own edges include it.
MarkersFaithful ==
  pc = "emitted" =>
    \A s \in cfg_sccs : s.scc \in DOMAIN scc_graph =>
      \A m \in DOMAIN scc_graph[s.scc] :
        UNION scc_graph[s.scc][m] =
          UNION MemberMarkers(s.group, DOMAIN scc_graph[s.scc])[m]

\* The lock has other versions of n's package in the group's graph.
SeveralVersions(g, n) == \E m \in DOMAIN Simplified(g) : m.pkg = n.pkg /\ m # n

\* The group pins each package that has several versions, and no cycle runs
\* through one of them.
VersionsSettled(g) ==
  \A n \in DOMAIN Simplified(g) : SeveralVersions(g, n) =>
    /\ \E r \in lock.roots[g] : r.dep.pkg = n.pkg
    /\ Component(Simplified(g), n) = {n}

\* The tables are closed: an alias names a component that has members and
\* dependencies, and what a selected component depends on has an alias with an
\* arm for the group, so the extension does not stop at it; nor does the
\* generator of an alias, at two arms for one condition.
AliasesClosed ==
  /\ DOMAIN scc_graph = DOMAIN scc_deps
  /\ \A d \in dep_to_scc : d.scc \in DOMAIN scc_graph
  /\ pc \in {"emitted", "no_alias"} /\ (\A g \in Group : VersionsSettled(g)) =>
       /\ pc = "emitted"
       /\ \A g \in Group, p \in Pkg :
            /\ ~ConfigurationConflict(g, p)
            /\ \A i \in SccsOf(g, p) : \A d \in scc_deps[i] : SccsOf(g, d.dep.pkg) # {}

\* What a group asks for in an environment is installed in it, where no edge
\* inside a cycle carries a marker.
CompleteWithoutMarkedCycles ==
  pc = "emitted" /\ (\A i \in DOMAIN scc_graph : \A m \in DOMAIN scc_graph[i] :
                       Always \in scc_graph[i][m])
    => \A g \in Group : VersionsSettled(g) =>
         \A env \in Env : Needed(g, env) \subseteq Installed(g, env)

\* A group's installs are packages the group activates: no other group's
\* extras or versions leak into them through a shared id.
NoLeak ==
  pc = "emitted" =>
    \A g \in Group : VersionsSettled(g) =>
      \A env \in Env : Installed(g, env) \subseteq {base(n) : n \in ActiveIn(g)}

\* A group never installs two versions of one package.
OneVersionInstalled ==
  pc = "emitted" =>
    \A g \in Group : VersionsSettled(g) =>
      \A env \in Env : \A m, n \in Installed(g, env) : m.pkg = n.pkg => m.ver = n.ver
=============================================================================
