# A verification project for rules_py

TLA+ modules that model the core logic of rules_py (the Bazel rules for Python and
their uv extension), TLC configurations that check them on small instances, and TLAPS
proofs of what matters most for every instance. Sources are named by their path in the
repository.

## 1. The system

rules_py has no server and no protocol of its own. Its core logic runs at four times:

| When | What runs | State it keeps |
|---|---|---|
| repository time | the uv extension: reads `uv.lock` and the projects, resolves groups, extras, cycles and markers, and writes hub and project repositories | dicts that the loops of one call update |
| analysis time | `py_venv`: decides which wheel provides each path of a virtual environment | the dicts of `resolve_wheel_collisions` |
| action time | the tools that inspect, patch and build source distributions, unpack and merge wheels, list modules and check image layers | a directory tree and tables over it |
| run time | the test launchers and drivers | processes, the environment, `/tmp` |

Components, their state, operations and hard behaviours:

**Strongly connected components** (`uv/private/graph/sccs.bzl`). Kosaraju's algorithm
in a language without recursion or `while`: both depth-first walks are
`for _ in range(n * n)`. State: colours, explicit stack of frames with cursors, the
finishing order, the components collected. Hard: a walk cut short by the range would
lose nodes without an error; a list may hold edges in any order, self loops included.
Correct when the result is the partition into strongly connected components.

**uv: activated extras** (`uv/private/extension/projectfile.bzl`, `lockfile.bzl`). A
worklist walk per dependency group over the marker graph of `uv.lock`, redirecting
every dependency to the version the group pins. State: worklist, visited set, and the
table `activated_extras`. Hard: the visited check and the redirect are interleaved with
the recording of markers. Correct when a walk finds exactly what the requirements reach,
keeps every marker and honours the pins.

**uv: configured graphs, component ids and generated aliases**
(`graph_utils.bzl`, `defs.bzl`, `uv_project/repository.bzl`, `select_gen.bzl`). Per group
the active edges, cut into components whose ids are interned across groups; the tables
are then cut to what an alias reaches. Hard: tables of several groups are merged under
shared ids. Correct when what a group asks for is installed, and nothing else is.

**Virtual environment: wheel collisions** (`py/private/py_venv/virtuals_resolvers.bzl`,
`venv.bzl`, `whl_install/metadata.bzl`, `providers.bzl`, `py_unpacked_wheel.bzl`). Top
level by top level, decides between symlink, namespace entries, merge, and leaving a
wheel on `sys.path`; then drops wheels that are fully covered. Hard: what a top level
does depends on all claimants, decisions about one path are consumed stages later, and
two declared outputs that nest break the build. Correct when Python finds what one flat
installation would hold, or the collision was reported.

**Site-packages merge** (`py/tools/site_merge/site_merge.py`). Merges the copies of one
package directory in overlay order. State: the output tree, owners, conflicts, bytecode
noted per source. Hard: files and directories replace each other, bytecode goes stale.

**Wheel unpacking** (`py/tools/unpack/unpack.py`, `exclude_glob.py`). Installs one wheel
into a tree: routing of members, entry points, `RECORD`, patches, exclusion, compilation
and the verification of the advertised layout. Hard: `RECORD` must describe the tree
after every one of these steps, and analysis has planned with the layout before any of
them ran.

**Source distributions: inspection and build rule** (`sdist_configure/detect_native.py`,
`sdist_build/repository.bzl`). The configure tool reads an archive's member list and a few of
its files and reports what a build needs: native sources, declared and inferred requirements,
console scripts; the repository rule then writes a `pep517_whl` or `pep517_native_whl` target.
Hard: the archive is inspected long before it is unpacked, and files of one name lie in several
directories of it. Correct when the target fits the tree the helper will build.

**Build helper** (`pep517_whl/tools/build_helper.py`, `memory_monitor.py`). Unpacks the archive
below a scratch directory, applies patches in order, chooses the command, points the tools in
the environment at absolute paths and wrappers, runs the backend as a process tree while a
monitor samples `/proc`, checks the one wheel it left against the target platform and moves it
to the output. Hard: a killed or failed attempt leaves the scratch directory behind; patches
fail half way; the build runs in another directory than the paths of its tools are relative to;
processes fork, exit and are re-parented during one sample. Correct when the action's output
appears at once, whole, and of this build alone.

**Gazelle manifest** (`gazelle_manifest/tools/generate.py`). Maps prefixes of module names to
distributions. Hard: distributions share prefixes, and some of them are stubs of others.
Correct when an import that has an entry resolves to the distribution Python finds it in.

**Image layers** (`py_image_layer_validator.py`, `modify_mtree.awk`). The validator reads the
rows of the source layer and of all others, finds destinations that two files claim, and
advises how to split packages into layers. Hard: rows are compared by content, link target or
not at all, and the first row of a destination stands for all that follow. Correct when a
collision is reported exactly where two layers would put different files.

**Test launcher environment** (`py/private/launcher_env`). Every test launcher makes a
short alias for its temp dir, in a directory that all runs of a user share, without a
lock. Hard: runs of one target race, fork, exit and are killed.

**Test drivers and sharding** (`unittest_main.py`, `pytest_main.py`, `pytest_shard.py`).
Shards are separate processes that must agree on a partition of the tests without
talking. Hard: orders of collection, early exits before the handshake, empty shards.

**Others**: lock and project parsing, hub and wheel selection, versions and markers, platform
constraints, interpreter provisioning, pex, library and providers. `PROJECT.json` lists each
with its sources and the reason it is not modelled; section 5 sums them up.

Interactions: `Sccs` is called by the component interning of the uv extension, which
consumes the walk's table; the select arms it emits decide which wheels are installed;
each installed wheel was unpacked from its archive and is described by the record
`WheelLayout` derives; the collision resolution decides from the records, and its merges
are carried out by `site_merge`; the gazelle manifest must name the distribution that the same
resolution makes importable; a wheel that is not downloaded comes out of the build helper, which
obeys the target the inspection of its archive led to, and starts the memory monitor; a test launcher then runs in that environment, sets up
its temp dir and calls a driver.

Where a behaviour is hard to test, `PROJECT.json` "hazards" names the line where it bites
and the properties that would catch it.

## 2. The modules

One module per component; each operation, loop iteration, system call or file read of the
code is one action, and the variables carry the source's names.

| Module | Code | State and actions |
|---|---|---|
| `DepGraph` | - | reachability, components and path operators on a graph, for the modules below |
| `Sccs` | `uv/private/graph/sccs.bzl` | `colour`-like visited marks, the stack of frames, `order`, `frontier`, the collected `sccs`; one action per iteration of either pass, and the iteration counter of `range(n * n)` |
| `ActivatedExtras` | `projectfile.bzl` `collect_activated_extras`, `lockfile.bzl` | `pending`, `visited`, `activated`; `Seed` a group, `Visit` a node of the worklist, `EndWalk` |
| `UvResolution` | `graph_utils.bzl`, the component part of `defs.bzl`, `uv_project/repository.bzl`, `select_gen.bzl` | extends the walk: `Configure` interns one component of one group, `EndConfigure` ends a group, `Emit` cuts the tables to what aliases reach; operators say what an alias's `select` installs in an environment |
| `WheelLayout` | `whl_install/metadata.bzl` `derive_layout`, `providers.bzl`, `py_unpacked_wheel.bzl` | pure operators from the paths of a RECORD to the record analysis passes on |
| `WheelInstall` | `py/tools/unpack/unpack.py`, `whl_install/rule.bzl` | `tree`, `installed`, `roots`, `observed`, `record`; one action per archive member, per patch and per stage of `main` |
| `VenvCollisions` | `virtuals_resolvers.bzl`, `venv.bzl` | `projected`, `skipped`, `covered`, `mergeGroups`, ...; one action per top level resolved, then merges, coverage and metadata; `Found` is Python's import over the result |
| `PrefixData` | `_resolve_data_files`, `_collapse_data_projection` | claims per path, then the nested ones, then the collapse |
| `VenvResolution` | `resolve_wheel_collisions` | composes `VenvCollisions` and `PrefixData` as the function calls them |
| `SiteMerge` | `py/tools/site_merge/site_merge.py` | `into`, `owners`, `caches`, `conflicts`; one action per entry of a wheel in the order of the walk |
| `ModuleManifest` | `gazelle_manifest/tools/generate.py` | extends `VenvResolution`: operators for the modules of an archive, the name in the METADATA its member list has first (`FirstListed`), the unique shallowest prefixes and the stubs, judged against what Python finds in the same environment |
| `SdistInspect` | `sdist_configure/detect_native.py` | pure operators from an archive's members and texts to the inspection's report |
| `CompilerEnv` | `build_helper.py`, its environment part | pure operators from the tools Bazel names to what the build's processes execute |
| `MemoryMonitor` | `pep517_whl/tools/memory_monitor.py` | the process tree changes by actions of its own between any two reads of the sampling loop |
| `WheelAction` | - | what the action promises: one delivery of a correct wheel, or a failure without output; an action that is run again starts over |
| `SdistBuild` | `build_helper.py` `main`, `sdist_build/repository.bzl` | composes the four above: `Configure`, `MakeRoot`, `Unpack`, `ApplyPatch`, `ChooseCommand`, `RunBuild` or `StartMonitored`/`EndMonitored` around the monitor's steps, `Collect`, and `Kill` and `RunAgain` at any point |
| `ImageValidator` | `py_image_layer_validator.py`, `modify_mtree.awk` | rows are read one by one into `paths`, the first row of each destination, and `descendants`; then packages are weighed, whole and by pattern, and the verdict is given; the exclusions of source rows are the awk script's as well, and so is what a row shows in its tar, with the modes the script rewrites in the tars of a rule's groups |
| `TestTmpdir` | `py/private/launcher_env` | one action per system call of each process, plus fork, exit and kill |
| `AliasLease` | - | what the aliases promise: free, held by the maker, or left behind |
| `TestDriver` | `unittest_main.py`, `pytest_main.py`, `pytest_shard.py` | every shard is a process: start, advertise, collect, shard, run, finish |

Data are abstracted to what the properties tell apart. A marker is the set of environments
in which it is true; a version, a test, a file content is a token; a glob is the set of
paths it matches; a path is the sequence of its segments (a few segments with a suffix that
matters are named by constants). In `WheelInstall` a digest is the content it is the digest
of, so a row of RECORD is true exactly if it names the content that is there, with its size.

What is outside `src/` is marked external in `PROJECT.json`: importlib's search
(`SearchPath`, `Found`) and Linux processes (`Fork`, `Exit`, `Reap`, `Children`, ...). Each `MC`
module gives the constants of the module it extends small values; each `...Proofs` module extends
the module it is named for, `TestProofs` both `TestTmpdir` and `TestDriver` (section 4).

## 3. The runs

`tlc -workers 2 -config <cfg> <module>`. Every run that must pass fires every action of its
module.

| Run | Question | Bounds and why they are enough |
|---|---|---|
| `sccs` | Are the components exactly the strongly connected components, each once, for any order of lists? Is `range(n * n)` ever too short? | Four nodes, lists of at most two entries in every order, with self loops; four nodes hold two components of two with edges between. The proofs are for every graph. |
| `uv_resolution` | Is what a group asks for what is installed: nothing lost, nothing of another group, one version of each package? | Two groups, three packages, one with an extra. Every lock of at most three entries in one version (two where the second group's requirements carry a marker); every lock of at most two entries with two versions of `b`, where the groups pin different versions or one of them leaves `b` open. Three entries close a cycle of three or hang an extra on a cycle. Two environments make every entry marked or not. |
| `test_tmpdir` | Can two runs destroy each other's temp dir? | Four processes of three targets, two colliding in one alias; the third process of a race is the one that reuses what the first left. Process ids are symmetric. |
| `test_driver` | Does a green target mean that every selected test ran once and passed? | Three tests, up to three shards, both drivers, all selections and outcomes in up to two shards; three shards of three tests and the empty selection give empty shards. |
| `site_merge` | Is the merged directory the overlay of the wheels, its bytecode fresh and every conflict reported? | Every pair and every triple of the wheels over a directory with a package, a module and its bytecode cache, four levels deep: bytecode noted by one wheel is removed by another after a third replaced its directory. |
| `venv` | Does Python find what one flat installation would hold, or was the collision reported? Can outputs nest? Does the manifest resolve an import to the distribution it comes from? | Pairs of inspected wheels of up to three files and triples of up to two, over a tree of three levels with packages, namespaces and native libraries; hand-written wheels around one of a single file, and one of a single file before or after two inspected wheels; data files above and below each other; wheels that vendor the metadata of another distribution, which the archive lists before or after their own. The parts do not read each other's state, so one varies at a time. The manifest is computed for the same wheels. |
| `sdist_build` | Does the target fit the tree? Does each attempt, over whatever earlier ones left, deliver the wheel of its own archive and patches or nothing? Do the tools survive the change of directory? Does a sample count each process once, and is the end always noticed? | Archives of one, two or no top directory with vendored configuration files in front of the root's, every combination of the texts a reader tells apart; lists of one or two patches that fit, do not, or touch one file twice; every spelling of each tool; three systems, three processors and seven tag sets. `MaxAttempts` = 2: the second run is the one that meets leftovers, with a sandbox and without. One job is monitored: a build with two threads and two more processes, so one child can be listed under both threads and be re-parented in between; that job is neither killed nor run again, since the monitor dies with the helper. |
| `image_layers` | Is every collision between layers reported, and nothing else? Does the advice contradict itself? | Up to two source rows and two rows of other layers in every order, over files, sandbox symlinks, relative and absolute links, destinations spelled in several ways and below each other, with exclusions by path and by directory, some in the tar of a rule's group that also holds sources; up to three packages around each threshold (`HardLimit` 3, `MaxPromoted` 2, `MinFile` 4, `Megabyte` 2). Two rows decide a collision; the proof is for any number. |
| `wheel_install` | After unpacking, patches, exclusion and compilation: is RECORD true, is the bytecode fresh, does the tree hold what analysis planned for? | A package, a module, their bytecode, two native libraries and data files in every combination, each under every pair of one of 13 glob sets and one of 19 patch lists, compiled or not; archives of three members drawn from 14 that share names, destinations and rows. |

Properties (the comment above each definition states it in full):

* `sccs`: `NeverCutShort`, `ComponentsExact`.
* `uv_resolution`: `WalkExact` (the table holds what the requirements reach, each package under
  exactly the markers by which something asks for it), `DepsFaithful` (interned ids do not mix
  groups up), `AliasesClosed` (no alias dangles, and `select_gen.bzl:36-45` never meets a
  configuration conflict), `CompleteWithoutMarkedCycles`, `NoLeak`, `OneVersionInstalled`.
* `test_tmpdir`: `OneOwner`, `OwnerKeepsAlias`, `LinksArePrivate`, and `LeaseSpec`, the
  refinement of `AliasLease`. `OnlyOwnerUnlinks` and `TakesOwnDirectory` are proved instead.
* `test_driver`: `GreenRanEverything`, `GoodTestsAreGreen`, `ReportMatchesExit`.
* `site_merge`: `IsOverlay` (also that wheels which agree on what is a file are merged),
  `BytecodeFresh`, `ConflictsExact` (at every path but bytecode, whose caches come and go with their
  sources).
* `venv`: `OutputsDisjoint`, `FoundAsInstalled`, `OneDistribution`, `NativeKeepsItsFiles`,
  `SymlinksDisjoint`, `ShowsLastWheel`, `ManifestExact`.
* `sdist_build`: `TargetFitsTree`, `ToolsSurviveChdir`, `ActionSpec` (the refinement of
  `WheelAction`), `WheelFits`, `CountedOnce`, `QuietSampleComplete`, `OneReportPerStep`,
  `ExitNoticed`.
* `image_layers`: `CollisionsExact`, `AdviceConsistent`.
* `wheel_install`: `RecordTrue`, `BytecodeFresh`, `ExclusionExact`, `LayoutHolds`,
  `PreservingJobsInstall`.

For each property `PROJECT.json` "mutants" names a change of the code under which TLC finds
it violated; the operator `...Wrong` before the definition is that change.

Limits of the runs, where a larger instance would fail:

* `AliasesClosed`, `CompleteWithoutMarkedCycles`, `NoLeak` and `OneVersionInstalled` are about groups
  that settle their versions (`VersionsSettled`): the group pins each package of which its graph has
  several versions, and no cycle runs through one of those. A cycle that runs through a version the
  group does not pin puts both versions into one component, and `OneVersionInstalled` and
  `AliasesClosed` do not hold of it. A lock with one version of each package is always settled.
* `OutputsDisjoint` is about wheels that describe their spans (`SpanDescribed`): where a regular
  package spans the wheels of a namespace, they all came with a RECORD, and none installs a file where
  another one has a directory. `_resolve_native_span` resolves the entries without
  `_dedupe_prefix_conflicts`. Say two inspected wheels merge the regular package `a/b/c`, and a hand-written
  wheel next to them has the entry `a/b`: then `a/b` is bound and `a/b/c` is merged inside it. The run has
  hand-written wheels beside such a span, and of its layouts the premise excludes only those; without the
  premise TLC finds the nested outputs.
* `FoundAsInstalled` and `NativeKeepsItsFiles` are about inspected wheels (`Inspected`): a hand-written wheel
  does not say what it holds, so nothing can be promised of its files. And about wheels that one
  directory could hold (`Compatible`): no file where another wheel has a directory. Where a wheel has
  the file `a/b` and two others merge the regular package `a/b`, the file is an entry at a merged root,
  so `_resolve_entry_owners` leaves it out (`virtuals_resolvers.bzl:164`), `_fold_merge_groups` does not count its
  wheel among the contributors, and no collision is reported: the file is lost silently.
* Files of a regular package that spans wheels and has a native library, in one of them, are exempt
  from `FoundAsInstalled`, as the code documents: one wheel gets the package. Namespace directories that
  wheels share are not exempt, with a native library below them or without.
* The rows of files named RECORD below site-packages that are not the wheel's own (a vendored
  `.dist-info`) are exempt from `RecordTrue`: `unpack.py:378` leaves them out unless a patch
  or a glob makes the rows new.
* pytest collects in one order in every shard of a scenario (it is pytest's order, and the shards
  cut by position: `pytest_shard.py:38`); unittest in any. Test ids are distinct: of two unittest
  tests with one id the report keeps the last.
* A process keeps one resident size for life and no id is used twice, so a `statm` read for
  another process than the one listed (`memory_monitor.py:40`) is left out.
* `TargetFitsTree` exempts what the inspection cannot know: configuration files that a patch
  changes (the unpatched archive is inspected, `docs/uv-patching.md:10`), a `pyproject.toml`
  without `[build-system]`, a `setup.py` that raises or hangs when it is evaluated, and archives
  that are flat or have several top directories, of which the helper builds the first it lists
  (`os.listdir(...)[0]`).
* `ManifestExact` is about public modules. Private modules of one distribution below a prefix
  that only another one has in public resolve to the wrong one, and a distribution with nothing
  but private modules has no entry. And it is about archives that list their own METADATA before
  any other: `generate.py:72` takes the first member that ends in `.dist-info/METADATA`, at any depth, so
  a vendored one that is listed first names the wheel; without the premise (`OwnListedFirst`) TLC finds
  the import that resolves to the vendored distribution. That the manifest names the distribution of the file Python finds
  is asked of modules outside the metadata directories.
* `CollisionsExact` allows a report for rows of different types, as the validator makes one for a
  symlink that one row ships as a link and another as the file behind it. And it leaves one mode out: the
  tar of a rule's group takes the files of the source closure at 0755 (`py_image_layer.bzl:717` and `:1149`,
  `modify_mtree.awk:159-162`), which the validator does not know of. So a collision may be reported of two tars
  that agree, and none of two that differ in nothing but that mode; a difference in content, target
  or any other mode is always reported.
* `PreservingJobsInstall` leaves out wheels that ship bytecode caches, and `CompleteWithoutMarkedCycles`
  locks with a marker inside a cycle: there the code refuses, or does not install, what it should, as
  `wheel_install_bytecode` and the note on `graph_utils.bzl:102` below show.

### Fairness

Only `sdist_build` assumes any: weak fairness of the monitor's own steps (`Sample`), because its
loop is what the helper's main thread does while the build is a child process: nothing blocks it, and its sleeps end. Nothing is assumed
of the build, which may fork and exit at any time, nor of Bazel, which may kill an action at any
time. All other specifications are checked for safety only, and a state in which nothing is left
to do has an explicit step of its own, so deadlock is checked everywhere.

### Where the code differs from what it says

| Run | What TLC finds |
|---|---|
| `uv_shared_ids` | `graph_utils.bzl:85`: the content key leaves the inner markers out, so two groups' components share an id and the second group's markers replace the first's. |
| `site_merge_raises` | `site_merge.py:111`: bytecode noted twice, or gone with its directory, makes a later removal raise. |
| `wheel_install_bytecode` | `unpack.py:350`: bytecode caches a wheel ships are dropped after they were counted as an import root and while analysis lists them as paths to preserve; a patch or an exclusion that keeps to the documentation is refused. |

Described, but without a run:

* `graph_utils.bzl:102`: a member of a cycle is gated by the markers of the edges inside the
  cycle, also where a group requires it by itself; where they are false it is not installed,
  against `docs/uv.md:45`. `CompleteWithoutMarkedCycles` holds of every other lock.
* `unittest_main.py:268` and `pytest_main.py:27` can exit before `advertise_sharding`, against the
  docstring at `launcher_env/aspect_rules_py_launcher_env.py:125`.
* `generate.py:72`, the vendored METADATA above, against the comment one line higher, that it is "always in
  `<distribution>-<version>.dist-info/METADATA`".
* The nesting outputs above, against the docstring at `virtuals_resolvers.bzl:186`.
* `build_helper.py:47`: the compiler wrapper calls `os.execv("cc", ...)`, which does not search
  `PATH`, where no `CC` is given, against the comment at `build_helper.py:396`.
* `build_helper.py:359`: without a sandbox the scratch directory of a killed attempt makes every
  later one fail. `ActionSpec` allows this: no wrong wheel is delivered, but none is either.
* `--target-os` and `--target-cpu` are read by the helper and passed by no rule; with them, a
  `win32` wheel for windows on x86 would be refused.
* `sdist_configure/defs.bzl:65` says that the inspection fails on a requirement the lock does not
  hold; the tool leaves such names out before the rule sees them.
* `py_image_layer_validator.py:515` keys its compression advice by label, while
  `py_image_layer.bzl:173` maps names of groups; and the validator looks for a `.dist-info` at the
  root of an install tree, while `unpack.py:294` installs below `site-packages`.

## 4. The proofs

`tlapm <module>.tla` checks each of the eight modules. In each, an invariant is strengthened until every action preserves it:
`Init => IInv`, `IInv /\ [Next]_vars => IInv'` and `IInv => Inv`.

**`SccsProofs`**: for every finite set of nodes and every graph over it, with adjacency lists
of any length and order, the result lists exactly the strongly connected components, each
once (`SccsCorrect`), and the walks never exhaust `range(n * n)` (`WalksComplete`). The
assumptions are those of `Sccs`: the nodes are finite and the graphs are functions to
sequences of nodes. The inductive invariant
`IInv` adds to the types: `Colours` (a node is unvisited, once on the stack or once in the
order), `StackPath` (a node on the stack reaches those above it), `Scanned` and
`FinishedClosed` (no edge leads from a finished node to an unvisited one), `WalkBudget` (two
iterations for each finished node and one for each on the stack, hence at most `2n`), the
property of the finishing order Kosaraju's algorithm rests on, and for the second pass
`EmittedClosed`, `BetweenComponents` and `Collecting`: what was emitted is whole components,
closed under the transposed edges, and what is being collected reaches the root that finished
last. `FinishOrder` alone is not inductive: that a node finishes after what it reaches follows
only from the stack's shape while the walk is on. Reachability is defined by closed sets, not
by recursion over paths, so the proofs pick the set they need (`ReachTrans` and the lemmas around it).

**`TestProofs`** (both parts of what a test goes through): for any number of processes, targets and
aliases and any digest, no alias has two owners (`OneOwnerCorrect`), an owner's alias leads to its own directory
(`OwnerKeepsAliasCorrect`), only its owner removes it (`OnlyOwnerUnlinksCorrect`), and the
launchers implement the leases (`ImplementsLease`). `LauncherInv` conjoins the types, the
three invariants and two facts that make them inductive: `HooksBorn`, a callback names only a
process that was born, so a process that is forked cannot be taken for an owner; and
`SymlinksPrivate`, whoever is about to make a symlink has seen the directory to be private.
The refinement maps each alias to its owner, or to `Free` or `Orphan`; every system call is a
step of `AliasLease` or a stutter, by `OneOwner`.

For any tests, selections, outcomes, orders of collection and number of shards
the three properties of `test_driver` hold. `IInv` is
`TypeOK` and, of every shard, what each
phase has established: `CollectedAll`, `NothingRan`, `RunsItsShare`, `Recorded`, `ExitTells`,
`HasAdvertised`. `SharesPartition` shows that the indices of the shards partition every list, and
`CutIsShare` that a driver's cut of its own list is its share of the common one.

**`ImageValidatorProofs`**: for every list of rows, exclusions and tree of files a collision is
reported when two tars disagree in more than a mode that a rule's group rewrites, and none is reported
when they agree, unless in rows of different types or with such a mode (`ValidatorCorrect`). Assumed: `FsAssumption` (a tree of files and
links), `NoneAssumption` (None is no verdict) and `RowsAssumption` (a job's rows are a sequence of rows
and markers). `IInv` is `RowsRead` while rows are read, that the tables hold the destinations read and one
row for each, and that those rows agree; and `Judged` afterwards. The lemmas carry
the argument: `SkipMatchesAwk` (the validator leaves out what the awk script leaves out), `SameShown`
and `ShownSame` (two rows compare equal exactly if the image shows the same and their types agree, so one
row can stand for the rest). And for packages of any number, files and sizes the advice is consistent
(`AdviceConsistentCorrect`): `Promoted` says that of the packages weighed so far those over the threshold are in the
advice whole or by all their patterns, and no other package by pattern; `Told` which checks the messages so far come
from. Assumed: `LimitAssumption` and `PackagesAssumption`, that sizes are naturals and no label goes on where another ends,
as `normalize_label` sees to; otherwise the pattern of one package could be the label of another
(`LabelsApart`, `GoesOn`). What the folds add (`WholeAdds`, `SplitAdds`) and that sums of sizes are
naturals is shown from the well-foundedness of the finite subsets (`FoldUnique`, `SumExists`).

**`UvResolutionProofs`**: for any lock, groups, extras and markers the walk activates exactly what the
requirements reach, each package under exactly the markers of the requirements and edges that ask for it
(`WalkExactCorrect`), by `WalkIInv`: `WalkTypes`,
`WalkTables` (what is in the table was reached) and `Frontier` (what a visited node leads to is
visited or pending), and for the markers by `ActiveReached` (a marker in the table is that of a
requirement, or of an edge of something reached) and `ActiveComplete` (none is missing);
and interned ids do not mix groups up (`DepsFaithfulCorrect`), by `InternIInv`:
`IdsUnique` (a content has one id), `TablesAtIds`, `NodesAtIds`. For groups that settle their versions the
whole pipeline, from the lock to what the `select` arms install, is right: no alias dangles
and the extension does not stop, on a configuration conflict either, since a version has one component in a group
(`OneScc`) (`AliasesClosedCorrect`), a group installs nothing but what it activates
(`NoLeakCorrect`), one version of each package (`OneVersionInstalledCorrect`) and, where no edge inside
a cycle carries a marker, all it needs (`CompleteCorrect`). This takes two more
invariants. `ActiveIInv`: beside `ActiveComplete`, what is active is in the lock at the group's version, together with its base package
(`ActiveSound`).
`CoverIInv`: a content has one entry (`KeysUnique`), every node of a configured group has an id there
(`NodesCovered`) and the cut keeps what aliases name (`TablesKept`). The lemmas are about the configured graph:
an edge of an active package leads, once redirected, to an active package (`ActiveTargets`), a version the
group redirects is alone in its component (`RedirectedAlone`), so that the component of an active package is active
(`ComponentActive`: what is reached from the package and, if it reaches back, active is a closed set) and each
package has one active version (`ActiveVersions`). Completeness is one more closed set, `Provided`: the nodes
that are active in the environment and belong to a component that the aliases take there (`ProvidedClosed`).
Assumed: that an extra is not named like the base package, that no group is `NoGroup`, and of each lock that it is
well formed, a group's requirements agree on one version of a package (`OneVersion`), the lock has what its
entries and the requirements name (`SelfContained`: a version is looked up in the lock, or resolution fails), and a
requirement on extras is also one on the package (`BaseRequired`).

**`SiteMergeProofs`**: for any wheels, with files at any depth, the finished merge is, at every path but bytecode, the overlay
and wheels that agree on what is a file are merged whole (`IsOverlayCorrect`), the report names
exactly the conflicts at every path but bytecode (`ConflictsExactCorrect`), and bytecode is left exactly where its source was not
replaced since (`BytecodeFreshCorrect`). Assumed: `PathAssumption` (paths are sequences of segments
below the root, with the directories above them), `RankAssumption` (parents come before their entries), `SourceAssumption` (bytecode is in a
directory next to its source) and `MergesAssumption` (an entry's directory is a directory of the same wheel,
no directory is named like bytecode). `IInv` says of the
part merged so far what the output holds (`IsMixed`: this wheel's entries before the cursor, the
overlay of the earlier wheels after it), which wheel it is from (`IsOwned`), what was reported
(`IsReported`), noted (`IsNoted`, `Comes`) and may still be removed (`Removable`). The proof goes
without recursion over the wheels because the overlay is defined by the last wheel that changes a path.
For bytecode `AreFresh` adds that what is in the output is noted under its source (`IsThere`), that a wheel's
source and directories are merged before its bytecode (`ComesAfter`, by the order of `os.walk`), and why what is
not there is gone (`IsGone`).

**`VenvResolutionProofs`**: for any wheels, with data files at paths of any depth, no declared data
symlink is inside another one or in a root of the environment (`SymlinksDisjointCorrect`), and each data
file is shown as its last wheel ships it or was reported and is hidden
(`ShowsLastWheelCorrect`). Assumed: `WheelSetsAssumption`, that one archive does not install a file at a path
and another one below it; without it a bound directory would show what was dropped. The
invariant `DataInv` is `Claimed` (what was looked at is bound to its winner or reported) and, from the
second pass on, `Sorted` (what was passed is kept, below nothing kept, or reported). It needs the order of that
pass: that no path passed has an ancestor still to come. `Declared` says what collapsing leaves: a bound
directory has one wheel for all that is kept below it. That the last claimant exists follows from the
well-foundedness of the naturals, since lists of wheels have any length. Each metadata directory is in one
place of `sys.path`, as the last wheel that has it ships it (`OneDistributionCorrect`). `TopInv` says that
nothing but `ResolveMetadata` makes an output of metadata: what the top levels bind, merge or mark as
conflicted is `PlainPaths`, whichever way a top level is resolved, because a wheel's entries, directories
and roots below a top level begin with it. Assumed: `TopLevelsAssumption`, that the top levels of a wheel
are those of its files. A wheel of unknown layout (a source build before it has run) lists none; it always stays
on `sys.path`, and the resolution cannot say whether its metadata is also another wheel's.
No declared symlink or merge is another one or lies inside it (`OutputsDisjointCorrect`), where spans
are described (`SpanDescribed`, section 3). `OutputsInv` says that the outputs are an `Antichain`, that until
the merges are folded they are `Apart` from the conflicted roots, which may nest and of which the shallowest
become merges, and that neither reaches into a top level still to be resolved; the last part makes it
inductive (`Placing`: what one top level declares begins with it, so it does not meet what others declared).
Within one top level, `DescribedSkeleton` says what a RECORD gives: an entry is a file or a shallowest
regular package, and what lies between the top level and an entry or a root is a namespace directory.
So an entry above another wheel's entry or root is a file where that wheel has a directory, or a regular
package that the other wheel also installs into, hence a conflicted root, which entries exclude
(`EntriesApart`). Roots with a native library are taken with all conflicted roots above them, so those left
for a merge are not above them (`NativeApart`), and a directory bound whole holds nothing excluded and
is not below an entry (`CollapseApart`).

What Python finds is proved from the same passes. Each file is found in the last wheel that has it, unless a
collision above it was reported or it is of a regular package that spans wheels and has a native library
(`FoundAsInstalledCorrect`), and a native
library is found with the files its wheel put next to it (`NativeKeepsItsFilesCorrect`). The property speaks of the
end only, so it needs an invariant that says what each pass leaves behind. `FoundInv`: a top level that is not pending
is `Settled`, that is, bound whole to its only wheel, reported, or `Spread`; every conflicted root is a span of
some top level; after the merges are folded each outermost conflicted root with several contributors has a merge
that lists exactly those, in the order of the wheels; and in the end a metadata directory has one wheel or was reported.
`Spread` says of a namespace of several wheels that the outermost roots that span them are either bound to one regular
wheel (those above a native library) or left for a merge, and that each other entry is reported, or is one
wheel's and bound to it, itself or by a directory above it. TLC checked `FoundInv` on the instance of `venv` before it was
proved. It is preserved because what one top level declares begins with it (`SettledStays`, `ResolveKeeps`).
From it to Python: the search of `sys.path` is defined directory by directory, and `LookKeeps` shows by the least
directory at which it could go wrong, not by induction, that an entry stays in the search as long as no earlier one
has a regular package there; hence `FoundAt` (the file is found in the first entry that has it) and `SiteOnly` (a
regular package in site-packages hides the rest of `sys.path`). `OneOutput` says that what lies in site-packages at a path
comes from one output, since the outputs are an antichain (`OutputsInv`). `Outcome` then follows the case of
the file's top level, `MergedFound` the files below a merge, and `RootHeld` the files below a
root with a native library. Assumed: nothing beyond `TopLevelsAssumption` and `WheelSetsAssumption`;
`Inspected` and `Compatible` are premises of the properties (section 3).

The manifest is exact where every archive lists its own METADATA first (`ManifestExactCorrect`): a public import resolves to the only distribution that has anything by
that name, what several have stays open, no entry is below another one, and what resolves names the
distribution of the file Python finds. `PairsAre` says which prefixes the modules have and whose, the unique prefixes are
those of one distribution, and the shallowest of them are an antichain. The manifest is built depth by depth,
so that it holds exactly these (`MappedIs`) is shown by the least depth at which it would not. What is found
is a file of the wheel it is found in (`FoundIn`, by the invariant `RangeInv`: what is bound, and what is
merged, is wheels of the environment in their order), so its module is one of that wheel's distribution. Assumed:
`StemAssumption` (an importable file name has a stem) and `InstalledAssumption` (a wheel has finitely many
files; what its archive had in a `.data` directory was moved into place; a wheel with a module has METADATA of
its own; what is listed first of some members is one of them). `OwnName` takes the premise to the name: then every
module of an archive is entered under the distribution whose metadata directory the wheel has.

**`SdistBuildProofs`**: for any archives, patches, backends and attempts, killed and run again, the build
implements `WheelAction` (`BuildImplementsAction`); `BuildInv` says that the tree is the archive's
(`Unpacked`) with the patches so far applied to it (`AllPatched`), that scratch which is not this
attempt's is never built in (`Scratched`), and what is about to be delivered (`Delivers`). And for any
process tree, sizes and step each report step the peak enters is printed once
(`OneReportPerStepCorrect`), and a sample during which the tree stood still looked at exactly the
build's processes (`QuietSampleCompleteCorrect`). The latter needs that a listed child belongs to a
thread of a living parent (`TreeOK`), and that what was found so far is of the tree and leads nowhere but to
what is read next (`QuietSampled`). And no process counts twice in a sample (`CountedOnceCorrect`): by
`CountInv` the total is at most the sizes of the processes read so far (`ReadSoFar`), and while the tree stands still at
most those of the living among them. What a sum over a finite set is (`SizeSums`, `SizeOfOthers`) is proved without an
induction theorem: the finite subsets of a set, ordered by inclusion, are well-founded, so a
set of subsets that has the empty one and grows by one element has them all (`SubsetInduction`).
And a tool that Bazel names by a path, in any of its ways, is the same tool when the backend starts it from the
unpacked tree (`ToolsSurviveChdirCorrect`): by `ToolsInv` the environment of the build is the one
`_compiler_env` made of the action's, and `ResolvedValues` follows each variable through the marker, the
tools that are made absolute, the compiler and the C++ compiler beside it, down to the program a wrapper
starts.
And the target fits the tree (`TargetFitsTreeCorrect`): by `TargetInv` the rule, the requirements and the
scripts of a target are those `detect` made of the archive, in every attempt, and a build has a configuration
file. That what `detect` looked for in the archive is what the tree has is shown path by path:
the archive's names are those of the tree below its one directory (`TreeIsArchive`, `OneTop`), a configuration file
is found exactly if it is in the root of the tree (`ConfigFound`), and so are the requirements
(`DeclaredOfTree`), the suffixes (`SuffixesOfTree`) and the project's own entry points (`ScriptsOfTree`).
And what is delivered fits its platform (`WheelFitsCorrect`): `PlatformOkIsFit` shows that what the helper looks for in a
tag singles out the same wheels as the table `PlatformTags`, which says for each system and processor as Bazel
spells them how a tag does, and that the check for a leak of the build's own platform refuses none of them.
Assumed: `ArchiveAssumption` (no file of an archive is below another one, and no directory of metadata has
a configuration file), `EnvironAssumption` (a path in the execroot is written with `$(EXECROOT)/`, as the rule's `env`
attribute asks, except in the toolchain's own variables), `JobsAssumption` (an archive has the text of each of its members), `TagsAssumption` (a wheel has a tag), `PlatformsAssumption` (tags, targets and hosts are of the systems and processors in that table), and of the monitor `RootAssumption`, `TaskAssumption`,
`OutsideAssumption`, `RssAssumption` and `StepAssumption`.

**`WheelInstallProofs`**: for any wheel, globs, patches and interpreter, RECORD is true when the install
is done (`RecordTrueCorrect`), no cache holds bytecode of another text (`BytecodeFreshCorrect`), the files
left are exactly those brought without the excluded, removed and stale ones, whether the globs applied
before the patches or after them (`ExclusionExactCorrect`), and an install that keeps to the documented
rules is not refused unless the wheel ships bytecode caches (`PreservingJobsInstallCorrect`). And what
analysis told venv assembly before the wheel was unpacked is true of every tree that is not refused
(`LayoutHoldsCorrect`). The
invariants speak of every stage: `TreeInv` says which member, console script or patch is the last word on
each path so far, and that nothing in the tree is compiled, or in a cache that had to be dropped, before
`Compile`; `RecordInv` says of each row that is kept for reuse that nothing overwrote its file (`Unpacking`),
then that the rows are exactly those of the tree (`Rows`, `Exact`); `PreserveInv` says that a job that keeps
to the rules still has every file analysis knows of, every import root and no other data file; `LayoutInv`
says that no file is below another one, that what was observed are the shapes of what was unpacked, that
the shapes, the data files and (under exclusions) the RECORD are still those after the patches, and what of that is
left at the end. The layout theorem then needs no tree: first each of the derived sets is told without
cutting paths (`DirsAre`, `NamespacesAre`, `RootsAre`, `EntriesAre`, `NativeRootsAre`), then
`ToldIsThere` shows that two sets of files which agree on every watched path (`SameAs`: a file stays a file, a directory
keeps its `__init__.py` and its native libraries) have the same layout, and `ToldFaithful` that the checks
around the patches compare enough for that. The step that is not obvious is that a namespace directory cannot
become empty: below it lies an entry of its own, which is watched (`SkeletonStays`). The invariants
need no induction over the members or the patches, since a "last member of that name" exists by the well-foundedness
of the naturals and `PatchedAway` is defined by the last patch that names a path. Assumed:
`SegmentAssumption` (the suffix of bytecode is no other file's), `StringAssumption`, `SizeAssumption`,
`WheelsAssumption` (a wheel brings its own RECORD, whose rows have the digests of members),
`PatchesAssumption` (a patch is text and adds no bytecode to a cache) and `LayoutAssumption` (what is
installed in site-packages is in the archive's root or in purelib; no file is below another one; bytecode in a
cache has its module beside the cache; the metadata is one directory without libraries; a directory is
not named `__init__.py`).

Every assumption is named in the module that declares the constant, and TLC evaluates it in the runs.

Only model-checked: `ExitNoticed`, which rests on fairness and is out of the prover's reach. What TLAPS cannot
do here, induction over data, was not needed: a recursion over the depth of a path or over a list is met by the
least place at which the claim would fail.

## 5. What is not modelled

Not modelled, because nothing in them happens in an order or is kept between steps:

* Lock and project parsing, names and hashes, versions and markers: pure functions on strings. Markers
  are sets of environments and versions are tokens everywhere. Two steps of `defs.bzl` and
  `dep_groups.bzl` are worth a reader's attention without a model: a group that is included along two
  paths is refused as circular (`dep_groups.bzl:53`, `visited` is shared by the branches), and equal
  installs of several locks are collapsed after the projects' tables were built (`defs.bzl:676`).
* Hub, wheel install and wheel selection, platform constraints: generated targets whose choice is
  Bazel's `select`.
* Interpreter provisioning: picks from tables of releases.
* Libraries, transitions, providers, the rules that declare virtual environments, launchers and tests,
  pex: attributes and depsets passed on; the pex library is vendored.

Left out of the modelled parts: log and error text, file modes beyond the execute bit, the JUnit XML,
coverage, refused path spellings, the matching of one glob, the console scripts of a virtual
environment (the last wheel wins), parsing of TOML, INI and requirement strings, the macOS SDK and
`PATH` of a build, the assignment of files to layers by the aspects of `py_image_layer.bzl` (analysis
without steps) and the rewriting of symlink targets in the awk script. In the launcher environment a
run that reuses an alias loses it when its creator exits first (`launcher_env:77`): `AliasLease`
promises the alias to the creator only. In a virtual environment, entries that are prefixes of one
another are looked for only where no regular package spans wheels (`virtuals_resolvers.bzl:370`); and
`unpack.py:378` installs vendored files named RECORD without a row, as said above.
