----------------------------- MODULE PrefixData -----------------------------
(***************************************************************************)
(* py_venv/virtuals_resolvers.bzl, _resolve_data_files: the files wheels   *)
(* install under the prefix of a virtual environment (share/, etc/, ...)   *)
(* become symlinks, one for a whole directory where one wheel owns it.     *)
(* A wheel is its place in the order of the dependencies; a path is the    *)
(* sequence of its segments.                                               *)
(***************************************************************************)
EXTENDS Naturals, Sequences, FiniteSets, SequencesExt

CONSTANTS
  WheelSets,       \* sequences of sets of paths: the data_files of each wheel
  VENV_OWNED_ROOTS \* first segments that the environment keeps for itself

VARIABLES
  wheels,
  unclaimed,  \* paths whose claims are not looked at yet
  resolved,   \* data_file_to_site_pkgs: path -> the wheel that provides it
  unsorted,   \* resolved paths the pass in path order has not reached
  kept,
  projected,  \* what is declared in the end
  collisions, \* paths that are reported
  stage

vars == <<wheels, unclaimed, resolved, unsorted, kept, projected, collisions, stage>>

Wheel == DOMAIN wheels
Ancestors(p) == {SubSeq(p, 1, n) : n \in 1..(Len(p) - 1)}
Claimants(p) == {w \in Wheel : p \in wheels[w]}

Winner(p) == CHOOSE w \in Claimants(p) : \A v \in Claimants(p) : v <= w

Start ==
  /\ unclaimed = UNION {wheels[w] : w \in Wheel}
  /\ resolved = <<>>
  /\ unsorted = {}
  /\ kept = {}
  /\ projected = <<>>
  /\ collisions = {}
  /\ stage = "claims"

Init == wheels \in WheelSets /\ Start

\* A path the environment owns is reported and dropped; otherwise the last
\* wheel provides it, and every takeover is reported.
ClaimPath(p) ==
  /\ stage = "claims"
  /\ unclaimed' = unclaimed \ {p}
  /\ IF p[1] \in VENV_OWNED_ROOTS
     THEN /\ collisions' = collisions \cup {p}
          /\ UNCHANGED resolved
     ELSE /\ collisions' = IF Cardinality(Claimants(p)) > 1 THEN collisions \cup {p} ELSE collisions
          /\ resolved' = [q \in DOMAIN resolved \cup {p} |->
                           IF q = p THEN Winner(p) ELSE resolved[q]]
  /\ UNCHANGED <<wheels, unsorted, kept, projected, stage>>

EndClaims ==
  /\ stage = "claims" /\ unclaimed = {}
  /\ unsorted' = DOMAIN resolved
  /\ stage' = "nesting"
  /\ UNCHANGED <<wheels, unclaimed, resolved, kept, projected, collisions>>

\* In sorted order, which has a path after its ancestors, a path below a kept
\* one is reported and dropped.
KeepPath(p) ==
  /\ stage = "nesting"
  /\ Ancestors(p) \cap unsorted = {}
  /\ unsorted' = unsorted \ {p}
  /\ IF Ancestors(p) \cap kept # {}
     THEN collisions' = collisions \cup {p} /\ UNCHANGED kept
     ELSE kept' = kept \cup {p} /\ UNCHANGED collisions
  /\ UNCHANGED <<wheels, unclaimed, resolved, projected, stage>>

\* Mutation: a directory is bound to the last wheel with a file below it.
CollapseWrong ==
  LET owners(d) == {resolved[p] : p \in {q \in kept : d \in Ancestors(q)}}
      dirs == UNION {Ancestors(p) : p \in kept}
      roots == {d \in dirs : Ancestors(d) = {}}
  IN [p \in {q \in kept : Ancestors(q) \cap roots = {}} \cup roots |->
        IF p \in roots THEN CHOOSE w \in owners(p) : \A v \in owners(p) : v <= w ELSE resolved[p]]

\* Mutation: directories inside a bound directory are bound as well.
CollapseNested ==
  LET owners(d) == {resolved[p] : p \in {q \in kept : d \in Ancestors(q)}}
      roots == {d \in UNION {Ancestors(p) : p \in kept} : Cardinality(owners(d)) = 1}
  IN [p \in {q \in kept : Ancestors(q) \cap roots = {}} \cup roots |->
        IF p \in roots THEN CHOOSE w \in owners(p) : TRUE ELSE resolved[p]]

\* _collapse_data_projection: the topmost directories below which one wheel
\* provides all that is kept are bound to it.
Collapse ==
  LET owners(d) == {resolved[p] : p \in {q \in kept : d \in Ancestors(q)}}
      single == {d \in UNION {Ancestors(p) : p \in kept} : Cardinality(owners(d)) = 1}
      roots == {d \in single : Ancestors(d) \cap single = {}}
  IN [p \in {q \in kept : Ancestors(q) \cap roots = {}} \cup roots |->
        IF p \in roots THEN CHOOSE w \in owners(p) : TRUE ELSE resolved[p]]

EndNesting ==
  /\ stage = "nesting" /\ unsorted = {}
  /\ projected' = Collapse
  /\ stage' = "done"
  /\ UNCHANGED <<wheels, unclaimed, resolved, unsorted, kept, collisions>>

Next ==
  \/ \E p \in unclaimed : ClaimPath(p)
  \/ EndClaims
  \/ \E p \in unsorted : KeepPath(p)
  \/ EndNesting

Spec == Init /\ [][Next]_vars
-----------------------------------------------------------------------------
\* The wheels whose copy of a file the prefix shows: a bound directory shows
\* everything its wheel installs in it.
Shown(f) ==
  {projected[p] : p \in {q \in DOMAIN projected : IsPrefix(q, f) /\ f \in wheels[projected[q]]}}

\* No declared symlink is inside another one, nor in a root that belongs to the
\* environment: both would fail the analysis before any policy applies.
SymlinksDisjoint ==
  \A p \in DOMAIN projected :
    p[1] \notin VENV_OWNED_ROOTS /\ Ancestors(p) \cap DOMAIN projected = {}

\* The directories that are bound show each file in the version of its last
\* wheel, what is not shown was reported, and nothing dropped shows through.
ShowsLastWheel ==
  stage = "done" =>
    \A f \in UNION {wheels[w] : w \in Wheel} :
      Shown(f) = {Winner(f)} \/ (Shown(f) = {} /\ f \in collisions)
=============================================================================
