--------------------------- MODULE VenvCollisions ---------------------------
(***************************************************************************)
(* py_venv/virtuals_resolvers.bzl: which wheel provides each path of a     *)
(* virtual environment's site-packages, which directories are merged from  *)
(* several wheels, and which wheels stay on sys.path whole.                *)
(*                                                                         *)
(* A wheel is its place in the order of the dependencies.  One action      *)
(* resolves one top level, for all wheels that claim it; then the merges,  *)
(* the coverage and the distribution metadata follow.                      *)
(***************************************************************************)
EXTENDS WheelLayout, FiniteSets

CONSTANT WheelSets   \* sequences of wheel records

VARIABLES
  wheels,       \* the records, in dependency order
  pending,      \* top levels still to be resolved
  stage,
  projected,    \* top_level_to_site_pkgs: path -> the wheel it is a symlink to
  skipped,      \* skipped_per_wheel: top levels a wheel provides through sys.path
  covered,      \* covered_per_wheel
  conflicted,   \* conflicted_roots
  nsClaimants,  \* ns_claimant_sps
  mergeGroups,  \* merge_groups: path -> the wheels merged there, in order
  fullyCovered, \* wheels left out of sys.path
  collisions    \* what is reported: <<path, wheel, wheel>>

vars == <<wheels, pending, stage, projected, skipped, covered, conflicted, nsClaimants,
          mergeGroups, fullyCovered, collisions>>

Wheel == DOMAIN wheels
InOrder(S) ==
  [i \in 1..Cardinality(S) |-> CHOOSE w \in S : Cardinality({v \in S : v < w}) = i - 1]
LastOf(S) == CHOOSE w \in S : \A v \in S : v <= w

\* A dict after what is bound in another one is set in it.
Updated(d, new) ==
  [p \in DOMAIN d \cup DOMAIN new |-> IF p \in DOMAIN new THEN new[p] ELSE d[p]]

IsMetadata(tl) == tl[1] \in Metadata
Claimants(tl) == {w \in Wheel : tl \in wheels[w].top_levels}
IsNs(w, tl) == tl \in wheels[w].namespace_top_levels
IsDir(w, tl) == tl \in wheels[w].top_level_dirs
IsNative(w, tl) == tl \in wheels[w].native_roots
Entries(w, tl) == {e \in wheels[w].namespace_entries : IsPrefix(tl, e)}
NsDirs(w, tl) == {d \in wheels[w].namespace_dirs : IsPrefix(tl, d)}

\* One report per takeover along a chain of claimants.
Chain(name, S) ==
  {<<name, p[1], p[2]>> : p \in
     {q \in S \X S : q[1] < q[2] /\ ~ \E u \in S : q[1] < u /\ u < q[2]}}

\* Wheels whose distribution metadata another wheel takes over.
MetadataLosers ==
  {w \in Wheel : \E tl \in wheels[w].top_levels :
     IsMetadata(tl) /\ \E v \in Claimants(tl) : v > w}

Init ==
  /\ wheels \in WheelSets
  /\ pending = {tl \in UNION {wheels[w].top_levels : w \in Wheel} : ~IsMetadata(tl)}
  /\ stage = "resolve"
  /\ projected = <<>>
  /\ skipped = [w \in Wheel |-> {}]
  /\ covered = [w \in Wheel |-> {}]
  /\ conflicted = {}
  /\ nsClaimants = {}
  /\ mergeGroups = <<>>
  /\ fullyCovered = {}
  /\ collisions = {}

Skip(S, tl) == [w \in Wheel |-> IF w \in S THEN skipped[w] \cup {tl} ELSE skipped[w]]

Cover(S, tl) == [w \in Wheel |-> IF w \in S THEN covered[w] \cup {tl} ELSE covered[w]]

(***************************************************************************)
(* Namespace top levels.                                                   *)
(***************************************************************************)

EntryClaimants(e, S, tl) == {w \in S : e \in Entries(w, tl)}

\* Mutation: entries in a root that is merged or projected whole stay.
EntryOwnerWrong(S, tl, exclude) ==
  [e \in UNION {Entries(w, tl) : w \in S} |-> LastOf(EntryClaimants(e, S, tl))]

\* The last wheel that claims an entry owns it.
EntryOwner(S, tl, exclude) ==
  [e \in {x \in UNION {Entries(w, tl) : w \in S} : ~Within(x, exclude)} |->
     LastOf(EntryClaimants(e, S, tl))]

EntryLosers(owner, S, tl) ==
  UNION {EntryClaimants(e, S, tl) \ {owner[e]} : e \in DOMAIN owner}

EntryReports(owner, S, tl) ==
  UNION {Chain(e, EntryClaimants(e, S, tl)) : e \in DOMAIN owner}

\* Entries below another entry, which only a different wheel can lose to.
Nested(owner) == DOMAIN owner \ Shallowest(DOMAIN owner)
Shallower(e, owner) ==
  CHOOSE s \in Shallowest(DOMAIN owner) : IsStrictPrefix(s, e)

LostNested(owner) == {e \in Nested(owner) : owner[Shallower(e, owner)] # owner[e]}

\* Mutation: a directory is bound even if no entry below it is kept.
CollapseWrong(owner, S, tl, exclude) ==
  LET owners(d) == {w \in S : d \in NsDirs(w, tl)}
      roots == Shallowest({d \in UNION {NsDirs(w, tl) : w \in S} :
                 Cardinality(owners(d)) = 1 /\ ~Holds(d, exclude)})
  IN [p \in {e \in DOMAIN owner : ~Within(e, roots)} \cup roots |->
        IF p \in roots THEN CHOOSE w \in owners(p) : TRUE ELSE owner[p]]

\* A directory that one wheel alone ships, with an entry below it that is
\* kept and nothing that is excluded, is bound whole.
Collapse(owner, S, tl, exclude) ==
  LET owners(d) == {w \in S : d \in NsDirs(w, tl)}
      roots == Shallowest({d \in UNION {NsDirs(w, tl) : w \in S} :
                 /\ Cardinality(owners(d)) = 1
                 /\ \E e \in DOMAIN owner : IsStrictPrefix(d, e)
                 /\ ~Holds(d, exclude)})
  IN IF DOMAIN owner = {} THEN owner
     ELSE [p \in {e \in DOMAIN owner : ~Within(e, roots)} \cup roots |->
             IF p \in roots THEN CHOOSE w \in owners(p) : TRUE ELSE owner[p]]

ResolvePureNamespace(tl, S) ==
  LET entryless == {w \in S : Entries(w, tl) = {}}
      with == S \ entryless
      claimed == EntryOwner(with, tl, {})
      owner == [e \in DOMAIN claimed \ Nested(claimed) |-> claimed[e]]
      lost == LostNested(claimed)
      losers == entryless \cup EntryLosers(claimed, with, tl) \cup {claimed[e] : e \in lost}
      clean == {w \in with \ losers : tl \notin skipped[w]}
  IN /\ projected' = Updated(projected, Collapse(owner, with, tl, {}))
     /\ skipped' = Skip(losers, tl)
     /\ covered' = Cover(clean, tl)
     /\ collisions' = collisions \cup EntryReports(claimed, with, tl) \cup
                        {<<e, claimed[Shallower(e, claimed)], claimed[e]>> : e \in lost}
     /\ UNCHANGED <<conflicted, mergeGroups>>

\* Regular packages of one wheel below which another wheel installs files.
ConflictedRoots(tl, S) ==
  {r \in UNION {wheels[w].regular_roots : w \in S} :
     /\ IsStrictPrefix(tl, r)
     /\ \E v, w \in S : /\ v # w
                        /\ r \in wheels[v].regular_roots
                        /\ r \in wheels[w].namespace_dirs \cup wheels[w].regular_roots}

\* Those that must not be copied, with every conflicted root above them.
NativeConflicted(roots, S) ==
  LET native == {r \in roots : \E w \in S : r \in wheels[w].native_roots}
  IN Shallowest({r \in roots : Holds(r, native)})

ResolveSpan(tl, S, roots) ==
  LET native == NativeConflicted(roots, S)
      winner == [r \in native |-> LastOf({w \in S : r \in wheels[w].regular_roots})]
      hidden == {w \in S : \E r \in native :
                   /\ winner[r] # w
                   /\ \/ r \in wheels[w].regular_roots \cup wheels[w].namespace_dirs
                      \/ Holds(r, Entries(w, tl))}
      entryless == {w \in S : Entries(w, tl) = {}}
      with == S \ entryless
      owner == EntryOwner(with, tl, roots)
      losers == (hidden \ MetadataLosers) \cup entryless \cup EntryLosers(owner, with, tl)
      clean == {w \in with \ losers : tl \notin skipped[w]}
  IN /\ conflicted' = conflicted \cup {r \in roots : ~Within(r, native)}
     /\ projected' = Updated(Updated(projected, winner), Collapse(owner, with, tl, roots))
     /\ skipped' = Skip(losers, tl)
     /\ covered' = Cover(clean, tl)
     /\ collisions' = collisions \cup EntryReports(owner, with, tl)
     /\ UNCHANGED mergeGroups

ResolveNamespace(tl, S) ==
  LET roots == ConflictedRoots(tl, S)
  IN /\ \A w \in S : IsNs(w, tl)
     /\ nsClaimants' = nsClaimants \cup S
     /\ IF roots = {} THEN ResolvePureNamespace(tl, S) ELSE ResolveSpan(tl, S, roots)

(***************************************************************************)
(* Top levels that a regular package or a module claims.                   *)
(***************************************************************************)

ResolveDirectories(tl, S) ==
  /\ \E w \in S : ~IsNs(w, tl)
  /\ \/ \E w \in S : IsNs(w, tl)
     \/ \A w \in S : IsDir(w, tl)
  /\ collisions' = collisions \cup Chain(tl, S)
  /\ \/ LET winner == LastOf({w \in S : ~IsNs(w, tl)})
            clean == {winner} \cup (S \cap MetadataLosers)
        IN /\ \E w \in S : IsNative(w, tl)
           /\ projected' = Updated(projected, [p \in {tl} |-> winner])
           /\ covered' = Cover(clean, tl)
           /\ skipped' = Skip(S \ clean, tl)
           /\ UNCHANGED mergeGroups
     \/ /\ \A w \in S : ~IsNative(w, tl)
        /\ covered' = Cover(S, tl)
        /\ mergeGroups' = Updated(mergeGroups, [r \in {tl} |-> InOrder(S)])
        /\ UNCHANGED <<projected, skipped>>
  /\ UNCHANGED <<conflicted, nsClaimants>>

ResolveModule(tl, S) ==
  /\ \A w \in S : ~IsNs(w, tl)
  /\ \E w \in S : ~IsDir(w, tl)
  /\ collisions' = collisions \cup Chain(tl, S)
  /\ projected' = Updated(projected, [p \in {tl} |-> LastOf(S)])
  /\ skipped' = Skip(S \ {LastOf(S)}, tl)
  /\ UNCHANGED <<covered, conflicted, nsClaimants, mergeGroups>>

ResolveTopLevel(tl) ==
  LET S == Claimants(tl)
  IN /\ stage = "resolve"
     /\ pending' = pending \ {tl}
     /\ IF Cardinality(S) = 1
        THEN /\ projected' = Updated(projected, [p \in {tl} |-> LastOf(S)])
             /\ UNCHANGED <<skipped, covered, conflicted, nsClaimants, mergeGroups, collisions>>
        ELSE ResolveNamespace(tl, S) \/ ResolveDirectories(tl, S) \/ ResolveModule(tl, S)
     /\ UNCHANGED <<wheels, stage, fullyCovered>>

(***************************************************************************)
(* After the top levels.                                                   *)
(***************************************************************************)

\* Mutation: only the wheels with an __init__.py are merged.
ContributorsWrong(r) == {w \in nsClaimants : r \in wheels[w].regular_roots}

\* Wheels with a directory at the root of a merge.
Contributors(r) ==
  {w \in nsClaimants : r \in wheels[w].namespace_dirs \cup wheels[w].regular_roots}

FullyCovered ==
  {w \in Wheel :
     /\ wheels[w].top_levels # {}
     /\ \A tl \in wheels[w].top_levels : ~IsMetadata(tl) =>
          /\ tl \notin skipped[w]
          /\ (tl \in DOMAIN projected /\ projected[tl] = w) \/ tl \in covered[w]}

FoldMergeGroups ==
  /\ stage = "resolve" /\ pending = {}
  /\ LET roots == {r \in Shallowest(conflicted) : Cardinality(Contributors(r)) >= 2}
     IN mergeGroups' = Updated(mergeGroups, [r \in roots |-> InOrder(Contributors(r))])
  /\ fullyCovered' = FullyCovered
  /\ stage' = "metadata"
  /\ UNCHANGED <<wheels, pending, projected, skipped, covered, conflicted, nsClaimants, collisions>>

\* Mutation: the winner's metadata is projected even if its wheel stays on
\* sys.path.
ResolveMetadataWrong ==
  LET names == {tl \in UNION {wheels[w].top_levels : w \in Wheel} : IsMetadata(tl)}
  IN /\ stage = "metadata"
     /\ IF \E tl \in names : ~(Claimants(tl) \ {LastOf(Claimants(tl))} \subseteq fullyCovered)
        THEN stage' = "failed" /\ UNCHANGED <<projected, collisions>>
        ELSE /\ stage' = "done"
             /\ projected' = Updated(projected, [tl \in names |-> LastOf(Claimants(tl))])
             /\ collisions' = collisions \cup UNION {Chain(tl, Claimants(tl)) : tl \in names}
     /\ UNCHANGED <<wheels, pending, skipped, covered, conflicted, nsClaimants,
                    mergeGroups, fullyCovered>>

ResolveMetadata ==
  LET names == {tl \in UNION {wheels[w].top_levels : w \in Wheel} : IsMetadata(tl)}
      won == {tl \in names : LastOf(Claimants(tl)) \in fullyCovered}
  IN /\ stage = "metadata"
     /\ IF \E tl \in names : ~(Claimants(tl) \ {LastOf(Claimants(tl))} \subseteq fullyCovered)
        THEN stage' = "failed" /\ UNCHANGED <<projected, collisions>>
        ELSE /\ stage' = "done"
             /\ projected' = Updated(projected, [tl \in won |-> LastOf(Claimants(tl))])
             /\ collisions' = collisions \cup UNION {Chain(tl, Claimants(tl)) : tl \in names}
     /\ UNCHANGED <<wheels, pending, skipped, covered, conflicted, nsClaimants,
                    mergeGroups, fullyCovered>>

Next == (\E tl \in pending : ResolveTopLevel(tl)) \/ FoldMergeGroups \/ ResolveMetadata

Spec == Init /\ [][Next]_vars
-----------------------------------------------------------------------------
(***************************************************************************)
(* The environment that is built, and what Python finds in it.             *)
(***************************************************************************)

Outputs == DOMAIN projected \cup DOMAIN mergeGroups

\* The wheel whose copy of a file lies in site-packages, if there is one.
SiteFiles(f) ==
  {projected[p] : p \in {q \in DOMAIN projected : IsPrefix(q, f) /\ f \in wheels[projected[q]].files}}
  \cup UNION {LET at == {i \in DOMAIN mergeGroups[r] : f \in wheels[mergeGroups[r][i]].files}
              IN IF at = {} THEN {} ELSE {mergeGroups[r][LastOf(at)]}
              : r \in {q \in DOMAIN mergeGroups : IsPrefix(q, f)}}

\* sys.path: 0 is site-packages, then the wheels that were not dropped.
SysPath == {0} \cup (Wheel \ fullyCovered)
Provides(k, f) == IF k = 0 THEN SiteFiles(f) # {} ELSE f \in wheels[k].files
AllFiles == UNION {wheels[w].files : w \in Wheel}
HasDir(k, d) == \E f \in AllFiles : IsStrictPrefix(d, f) /\ Provides(k, f)

\* Where Python looks for what is in a directory: the first regular package
\* of that name hides all others, a namespace has every directory.
SearchPath(d) ==
  LET look[n \in 0..Len(d)] ==
        IF n = 0 THEN SysPath
        ELSE LET dir == SubSeq(d, 1, n)
                 regular == {k \in look[n - 1] : Provides(k, Append(dir, InitPy))}
             IN IF regular # {} THEN {CHOOSE k \in regular : \A j \in regular : k <= j}
                ELSE {k \in look[n - 1] : HasDir(k, dir)}
  IN look[Len(d)]

\* The wheel a file is found in, or the empty set.
Found(f) ==
  LET at == {k \in SearchPath(Front(f)) : Provides(k, f)}
  IN IF at = {} THEN {}
     ELSE LET k == CHOOSE k \in at : \A j \in at : k <= j
          IN IF k = 0 THEN SiteFiles(f) ELSE {k}
-----------------------------------------------------------------------------
\* Where a regular package spans the wheels of a namespace, they all came with
\* a RECORD and none installs a file where another one has a directory.
SpanDescribed(tl) ==
  LET S == Claimants(tl)
  IN (\A w \in S : IsNs(w, tl)) /\ ConflictedRoots(tl, S) # {} =>
       \A v, w \in S : /\ wheels[w] = WheelRecord(wheels[w].files, wheels[w].data_files)
                       /\ Dirs(wheels[v].files) \cap wheels[w].files = {}

\* No declared output is another one or lies inside it; Bazel rejects such a
\* pair before any collision policy can apply.
OutputsDisjoint ==
  stage = "done" /\ (\A tl \in UNION {wheels[w].top_levels : w \in Wheel} : SpanDescribed(tl)) =>
    /\ DOMAIN projected \cap DOMAIN mergeGroups = {}
    /\ Shallowest(Outputs) = Outputs

\* A collision at the file or at a directory above it was reported.
Reported(f) == \E c \in collisions : IsPrefix(c[1], f)

\* Below a regular package of a namespace that spans wheels and holds a native
\* library: Python binds it to one wheel, and what others install below it is
\* given up.
NativeSpan(f) ==
  \E u, v, w \in Wheel : \E r \in wheels[u].regular_roots :
    /\ u # v /\ IsPrefix(r, f) /\ Holds(r, wheels[v].files)
    /\ r \in wheels[w].native_roots

\* Wheels that came with a RECORD; a py_unpacked_wheel says less about itself.
Inspected == \A w \in Wheel : wheels[w] = WheelRecord(wheels[w].files, wheels[w].data_files)

\* No wheel has a file where one has a directory: one directory can hold all.
Compatible == \A v, w \in Wheel : Dirs(wheels[v].files) \cap wheels[w].files = {}

\* What is not reported does not happen: Python finds every file of every
\* inspected wheel, in the version one flat installation in the same order would
\* leave, whichever of the symlinks, merges and sys.path entries provide it; only
\* a regular package that native libraries keep from being merged is given up to
\* one wheel.  A directory of a namespace never is.
FoundAsInstalled ==
  stage = "done" /\ Inspected /\ Compatible =>
    \A f \in AllFiles : Reported(f) \/ NativeSpan(f)
                          \/ Found(f) = {LastOf({w \in Wheel : f \in wheels[w].files})}

\* A native library of an inspected wheel that Python can find is found with
\* the files its wheel put next to it.
NativeKeepsItsFiles ==
  stage = "done" /\ Inspected /\ Compatible =>
    \A w \in Wheel : \A f, g \in wheels[w].files :
      Last(f) \in NativeLib /\ Found(f) = {w} /\ Front(f) = Front(g) =>
        Found(g) = {w} \/ Reported(g)

\* Each distribution's metadata is on sys.path exactly once, as the last wheel
\* that claims it has it: neither lost with a wheel that was dropped, nor seen
\* twice.
OneDistribution ==
  stage = "done" =>
    \A tl \in UNION {wheels[w].top_levels : w \in Wheel} : IsMetadata(tl) =>
      LET last == LastOf(Claimants(tl))
          on == {k \in SysPath : \E f \in AllFiles : IsPrefix(tl, f) /\ Provides(k, f)}
      IN \/ on = {last}
         \/ on = {0} /\ \A f \in AllFiles : IsPrefix(tl, f) => SiteFiles(f) \subseteq {last}
=============================================================================
