----------------------------- MODULE SdistBuild -----------------------------
(***************************************************************************)
(* From a source distribution to a wheel: sdist_build/repository.bzl turns *)
(* the inspection of the archive into a build rule, and build_helper.py is *)
(* the action of that rule, which Bazel may kill and run again.  A build   *)
(* that asks for it runs under the memory monitor.                         *)
(*                                                                         *)
(* A wheel is the tree it was built from and the spellings its platform    *)
(* tag contains.  What the backend does with the tree is not modelled: it  *)
(* fails, or leaves any wheels.                                            *)
(***************************************************************************)
EXTENDS SdistInspect, CompilerEnv, MemoryMonitor

CONSTANTS
  Jobs,        \* the sdists, overrides and patches to build
  Tags,        \* the platform tags a backend may give
  MaxAttempts  \* how often an action runs (a bound)

ASSUME JobsAssumption ==
  \A j \in Jobs : /\ {"archive", "tool", "deps", "lock", "is_native", "patches", "environ", "infer_cxx",
                         "monitor", "target", "host"}
                        \subseteq DOMAIN j
                   /\ DOMAIN j.archive.text = ToSet(j.archive.members)
                   /\ j.archive.text = [m \in DOMAIN j.archive.text |-> j.archive.text[m]]
                   /\ Len(j.patches) \in Nat
\* An archive has no file below another one, and no configuration file in a
\* directory of metadata.
ASSUME ArchiveAssumption ==
  \A j \in Jobs :
    LET members == ToSet(j.archive.members)
    IN /\ j.archive.members \in Seq(Seq(STRING) \ {<< >>})
       /\ \A m, n \in members : ~IsStrictPrefix(m, n)
       /\ \A m \in members : Last(m) \in {"pyproject.toml", "setup.py"} => Head(m) \notin DOMAIN EggInfo
\* The rule names a path in the execroot by the marker, except where the C++
\* or Java toolchain names the tool of a variable the helper resolves itself.
ASSUME EnvironAssumption ==
  \A j \in Jobs :
    /\ j.infer_cxx \in BOOLEAN
    /\ \A k \in DOMAIN j.environ :
         LET v == j.environ[k]
         IN /\ v = Value(v.at, v.base, v.args)
            /\ v.at \in {"bare", "execroot", "marker", "absolute"}
            /\ v.at = "execroot" => k \in ToolVariables \cup DOMAIN Overrides
ASSUME TagsAssumption == {} \notin Tags

VARIABLES
  job,
  stage,
  rule,      \* "pure" for pep517_whl, "native" for pep517_native_whl
  deps,      \* what the build tool depends on
  scripts,   \* the console scripts the target advertises
  scratch,   \* which of <output>.tmp and its dist exist
  worktree,  \* the unpacked files
  top,       \* listdir(t)[0]
  next,      \* the patch to apply
  built,     \* the environment of the build
  cmd,
  dist,      \* the wheels in dist
  out,
  attempts

target == <<rule, deps, scripts>>
work == <<scratch, worktree, top, next>>
process == <<built, cmd, dist>>
helperVars == <<job, stage, target, work, process, out, attempts>>
buildVars == <<helperVars, monitorVars>>

NoWheel == [tree |-> << >>, tag |-> {}]
NoTarget == [os |-> "", cpu |-> ""]
NoneAny == {"any"}  \* none-any

BuildInit ==
  /\ job \in Jobs
  /\ stage = "configure"
  /\ rule = None /\ deps = {} /\ scripts = {}
  /\ scratch = {} /\ worktree = << >> /\ top = None /\ next = 1
  /\ built = [env |-> << >>, execs |-> << >>] /\ cmd = None /\ dist = {}
  /\ out = NoWheel /\ attempts = 1
  /\ MonitorInit

Become(s) == stage' = s /\ UNCHANGED <<job, attempts, monitorVars>>

-----------------------------------------------------------------------------
(* The repository rule. *)

\* A tool that is missing or fails counts as "pure, nothing found"; native
\* attributes cannot be given to the pure rule.
Configure ==
  /\ stage = "configure"
  /\ LET inspection == IF job.tool THEN detect(job.archive, job.deps, job.lock) ELSE Failed
         is_native == IF job.is_native = "auto" THEN inspection.is_native
                      ELSE job.is_native = "true"
     IN /\ rule' = IF is_native THEN "native" ELSE "pure"
        /\ deps' = job.deps \cup inspection.extra_deps \cup (IF job.monitor THEN {"memory_monitor"} ELSE {})
        /\ scripts' = inspection.console_scripts
        /\ Become(IF ~is_native /\ job.native_attrs THEN "refused" ELSE "root")
  /\ UNCHANGED <<work, process, out>>

-----------------------------------------------------------------------------
(* The helper. *)

\* makedirs(tmp_root, exist_ok=False)
MakeRoot ==
  /\ stage = "root"
  /\ scratch' = scratch \cup {"root"}
  /\ Become(IF "root" \in scratch THEN "failed" ELSE "unpack")
  /\ UNCHANGED <<target, worktree, top, next, process, out>>

Tops(files) == {Head(m) : m \in files}

\* The files after one of them is written.
Write(files, m, text) ==
  [f \in DOMAIN files \cup {m} |-> IF f = m THEN text ELSE files[f]]

\* The directory listing has no order that could be relied on.
Unpack ==
  /\ stage = "unpack"
  /\ LET text == job.archive.text
     IN worktree' = [m \in DOMAIN text \cup DOMAIN worktree |->
                       IF m \in DOMAIN text THEN text[m] ELSE worktree[m]]
  /\ top' \in Tops(DOMAIN worktree')
  /\ Become("patch")
  /\ UNCHANGED <<target, scratch, next, process, out>>

Under(files, t) ==
  [m \in {Tail(n) : n \in {f \in DOMAIN files : Head(f) = t /\ Len(f) > 1}} |-> files[<<t>> \o m]]
unpacked == Under(worktree, top)
TextOf(files, m) == IF m \in DOMAIN files THEN files[m] ELSE NoText

ApplyPatchWrong ==  \* goes on after a patch that does not apply
  /\ stage = "patch" /\ next <= Len(job.patches)
  /\ LET p == job.patches[next]
     IN worktree' = IF TextOf(unpacked, p.file) = p.from
                    THEN Write(worktree, <<top>> \o p.file, p.to) ELSE worktree
  /\ next' = next + 1
  /\ Become("patch")
  /\ UNCHANGED <<target, scratch, top, process, out>>

\* patch -i: it applies to the text it was made for; its failure ends the build.
ApplyPatch ==
  /\ stage = "patch" /\ next <= Len(job.patches)
  /\ LET p == job.patches[next]
         applies == TextOf(unpacked, p.file) = p.from
     IN /\ worktree' = IF applies THEN Write(worktree, <<top>> \o p.file, p.to) ELSE worktree
        /\ Become(IF applies THEN "patch" ELSE "failed")
  /\ next' = next + 1
  /\ UNCHANGED <<target, scratch, top, process, out>>

\* setuptools would read its dependencies from setup.py, and pyproject.toml
\* neither states them nor declares them dynamic.
_legacy_metadata_conflicts_with_pyproject(files) ==
  LET pyproject == TextOf(files, <<"pyproject.toml">>)
      legacy == TextOf(files, <<"setup.py">>).mentions \cup TextOf(files, <<"setup.cfg">>).mentions
  IN /\ {<<"pyproject.toml">>, <<"setup.py">>} \subseteq DOMAIN files
     /\ pyproject.valid /\ pyproject.project
     /\ pyproject.backend \in {None, "setuptools"}
     /\ legacy \ pyproject.static # {}

\* The scratch directory of the wheels, the environment and the command.
ChooseCommand ==
  /\ stage = "patch" /\ next > Len(job.patches)
  /\ scratch' = scratch \cup {"dist"}
  /\ built' = _compiler_env(job.environ, job.infer_cxx)
  /\ cmd' = IF _legacy_metadata_conflicts_with_pyproject(unpacked) THEN "setup.py"
            ELSE IF {<<"pyproject.toml">>, <<"setup.py">>} \cap DOMAIN unpacked # {} THEN "build"
            ELSE None
  /\ Become(IF "dist" \in scratch \/ cmd' = None THEN "failed" ELSE "build")
  /\ UNCHANGED <<target, worktree, top, next, dist, out>>

Leave(tags) == dist' = dist \cup {[tree |-> unpacked, tag |-> t] : t \in tags}

\* run(cmd, check=True): an error, or up to two wheels.
RunBuild ==
  /\ stage = "build" /\ ~job.monitor
  /\ \/ Become("failed") /\ UNCHANGED dist
     \/ \E s, t \in Tags : (Leave({}) \/ Leave({s, t})) /\ Become("collect")
  /\ UNCHANGED <<target, work, built, cmd, out>>

StartMonitored ==
  /\ stage = "build" /\ job.monitor /\ "memory_monitor" \in deps
  /\ Launch
  /\ UNCHANGED helperVars

\* run_with_memory_monitor returned, or raised CalledProcessError.
EndMonitored ==
  /\ stage = "build" /\ pc = "done"
  /\ IF code = 0 THEN (\E t \in Tags : Leave({t})) /\ Become("collect")
     ELSE Become("failed") /\ UNCHANGED dist
  /\ UNCHANGED <<target, work, built, cmd, out>>

-----------------------------------------------------------------------------
(* What may be delivered. *)

wheel_cpuWrong(os, cpu) == cpu  \* Bazel's spelling on every system

wheel_cpu(os, cpu) ==
  CASE os = "darwin" /\ cpu = "aarch64" -> "arm64"
    [] os = "windows" /\ cpu \in {"x86_64", "aarch64"} -> [x86_64 |-> "amd64", aarch64 |-> "arm64"][cpu]
    [] os \notin {"darwin", "windows"} /\ cpu \in {"x86", "arm"} -> [x86 |-> "i686", arm |-> "armv7l"][cpu]
    [] OTHER -> cpu
wheel_os(os) == CASE os = "darwin" -> "macosx" [] os = "windows" -> "win" [] OTHER -> os

\* No target was named, the tag is -none-any, or it names the target.
_wheel_platform_ok(tag, want, host) ==
  \/ want = NoTarget
  \/ tag = NoneAny
  \/ /\ want.os = host \/ wheel_os(host) \notin tag
     /\ wheel_os(want.os) \in tag
     /\ (want.os = "darwin" /\ "universal2" \in tag) \/ wheel_cpu(want.os, want.cpu) \in tag

Collect ==
  /\ stage = "collect"
  /\ LET accepted == /\ Cardinality(dist) = 1
                     /\ \A w \in dist : /\ rule = "pure" => w.tag = NoneAny
                                        /\ _wheel_platform_ok(w.tag, job.target, job.host)
     IN /\ out' = IF accepted THEN CHOOSE w \in dist : TRUE ELSE NoWheel
        /\ dist' = IF accepted THEN {} ELSE dist
        /\ Become(IF accepted THEN "done" ELSE "failed")
  /\ UNCHANGED <<target, work, built, cmd>>

-----------------------------------------------------------------------------
(* Bazel. *)

Ended == {"done", "failed", "killed", "refused"}

\* A monitored build is not killed in the model.
Kill ==
  /\ stage \notin Ended \cup {"configure"} /\ ~job.monitor
  /\ Become("killed")
  /\ UNCHANGED <<target, work, process, out>>

\* The output is dropped, and with a sandbox all that the action left; the
\* patches may have been withdrawn.
RunAgain ==
  /\ stage \in Ended \ {"refused"} /\ attempts < MaxAttempts /\ ~job.monitor
  /\ attempts' = attempts + 1
  /\ stage' = "root"
  /\ job' \in {job, [job EXCEPT !.patches = << >>]}
  /\ out' = NoWheel
  /\ IF job.local THEN UNCHANGED <<scratch, worktree, dist>>
     ELSE scratch' = {} /\ worktree' = << >> /\ dist' = {}
  /\ top' = None /\ next' = 1 /\ cmd' = None
  /\ built' = [env |-> << >>, execs |-> << >>]
  /\ UNCHANGED <<target, monitorVars>>

Sample == Monitor /\ UNCHANGED helperVars

Finished ==
  /\ stage \in Ended /\ (attempts = MaxAttempts \/ job.monitor \/ stage = "refused")
  /\ UNCHANGED buildVars

BuildNext ==
  \/ Configure \/ MakeRoot \/ Unpack \/ ApplyPatch \/ ChooseCommand \/ RunBuild
  \/ StartMonitored \/ EndMonitored \/ Collect \/ Kill \/ RunAgain \/ Finished
  \/ MonitorNext /\ UNCHANGED helperVars

\* The monitor's loop is scheduled and its sleeps end; the build owes nothing.
BuildSpec == BuildInit /\ [][BuildNext]_buildVars /\ WF_buildVars(Sample)

-----------------------------------------------------------------------------
\* The files of an unpacked sdist after its first k patches: each as the last
\* of these that touches it leaves it, the others as they were packed.
Touching(j, t, k, m) == {i \in 1 .. k : <<t>> \o j.patches[i].file = m}
TextAfter(j, t, k, m) ==
  LET touching == Touching(j, t, k, m)
  IN IF touching = {} THEN j.archive.text[m]
     ELSE j.patches[Max(touching)].to
Patched(j, t, k) ==
  [m \in DOMAIN j.archive.text \cup {<<t>> \o j.patches[i].file : i \in 1 .. k} |->
     TextAfter(j, t, k, m)]

\* The files of the job's own sdist, below one of its top-level entries,
\* with every one of its patches applied in order and nothing else.
OwnWheel(j, w) ==
  \E t \in Tops(ToSet(j.archive.members)) :
    w.tree = Under(Patched(j, t, Len(j.patches)), t)

Action == INSTANCE WheelAction WITH Correct <- OwnWheel, ended <- stage \in Ended

\* The build implements the promise of its action: a wheel is delivered at
\* once, never from a tree an earlier attempt left or a patch was missing in.
ActionSpec == Action!Spec

\* The platforms there are wheels for: the system and the processor as Bazel
\* spells them, and the spellings in the tag of a wheel that runs there.
PlatformTags == {
  <<"linux", "x86_64", {"linux", "x86_64"}>>, <<"linux", "x86", {"linux", "i686"}>>,
  <<"linux", "aarch64", {"linux", "aarch64"}>>, <<"linux", "arm", {"linux", "armv7l"}>>,
  <<"darwin", "x86_64", {"macosx", "x86_64"}>>, <<"darwin", "x86_64", {"macosx", "universal2"}>>,
  <<"darwin", "aarch64", {"macosx", "arm64"}>>, <<"darwin", "aarch64", {"macosx", "universal2"}>>,
  <<"windows", "x86_64", {"win", "amd64"}>>, <<"windows", "aarch64", {"win", "arm64"}>>,
  <<"windows", "x86", {"win", "32"}>>}
FitsPlatform(tag, want) == tag = NoneAny \/ <<want.os, want.cpu, tag>> \in PlatformTags

\* A backend tags its wheel for one of these, and a job builds for and on them.
ASSUME PlatformsAssumption ==
  /\ \A t \in Tags : t = NoneAny \/ \E p \in PlatformTags : t = p[3]
  /\ \A j \in Jobs :
       /\ j.target = NoTarget \/ \E p \in PlatformTags : j.target = [os |-> p[1], cpu |-> p[2]]
       /\ j.host \in {"linux", "darwin", "windows"}

\* One wheel is delivered exactly if its platform is the one asked for, and
\* the pure rule delivers none with a platform.  Windows on x86 is left out:
\* its wheels are tagged win32, in which the helper looks for x86.
WheelFits ==
  [][stage = "collect" /\ stage' \in {"done", "failed"} /\ job.target # [os |-> "windows", cpu |-> "x86"] =>
       (stage' = "done" <=>
          /\ Cardinality(dist) = 1
          /\ \A w \in dist : /\ rule = "pure" => w.tag = NoneAny
                             /\ job.target = NoTarget \/ FitsPlatform(w.tag, job.target))]_buildVars

\* The inspection can be right: one top-level directory, files that parse, a
\* setup.py that calls setup(), a pyproject.toml with a [build-system], and no
\* patch to a file it read.
Inspectable ==
  /\ job.tool
  /\ Cardinality(Tops(ToSet(job.archive.members))) = 1
  /\ \A m \in DOMAIN unpacked : unpacked[m].valid /\ unpacked[m].setup = "called"
  /\ <<"pyproject.toml">> \in DOMAIN unpacked => unpacked[<<"pyproject.toml">>].system
  /\ job.patches = << >>

\* What is about to be built is what the target was generated for: its
\* declared requirements and compilers for its languages are there if the lock
\* has them, its native sources get the native rule, and its scripts are
\* its own.  The archive is read before it is unpacked and by other code.
TargetFitsTree ==
  stage = "build" /\ Inspectable =>
    LET config == {<<"pyproject.toml">>, <<"setup.py">>, <<"setup.cfg">>} \cap DOMAIN unpacked
        wanted == (UNION {unpacked[m].requires : m \in config})
                  \cup (IF <<"pyproject.toml">> \in config THEN {} ELSE {"setuptools", "wheel"})
        sources == {Suffix[Last(m)] : m \in {n \in DOMAIN unpacked : Last(n) \in DOMAIN Suffix}}
        project == TextOf(unpacked, <<"PKG-INFO">>).name
        own == {m \in DOMAIN unpacked : /\ Len(m) >= 2 /\ Last(m) = "entry_points.txt"
                                     /\ m[Len(m) - 1] \in DOMAIN EggInfo
                                     /\ EggInfo[m[Len(m) - 1]] = project}
    IN /\ wanted \cap job.lock \subseteq deps
       /\ "pyx" \in sources /\ "cython" \in job.lock => "cython" \in deps
       /\ job.is_native = "auto" => (rule = "native") = (sources \cap NATIVE_EXTENSIONS # {})
       /\ project # None /\ Cardinality(own) = 1 => \A m \in own : scripts = unpacked[m].scripts

\* A tool that Bazel named by a path is still that tool when the build starts
\* it from its own directory, directly or through a wrapper, and keeps its
\* arguments; C++ is compiled by the C++ peer where there is one.
ToolsSurviveChdir ==
  stage = "build" =>
    \A k \in DOMAIN job.environ :
      LET given == job.environ[k]
          ran == Runs(built, k)
          base == IF k = "CXX" /\ job.infer_cxx /\ given.at \in {"marker", "absolute"}
                     /\ given.base \in DOMAIN CxxPeer
                  THEN CxxPeer[given.base] ELSE given.base
      IN /\ built.env[k].args = given.args
         /\ given.at # "bare" /\ k \notin {"CPP", "LDSHARED", "LDCXXSHARED"} =>
              ran.at = "absolute" /\ ran.base = base
         /\ k \in {"CPP", "LDSHARED"} => ran = Runs(built, "CC")
         /\ k = "LDCXXSHARED" => ran = Runs(built, "CXX")
=============================================================================
