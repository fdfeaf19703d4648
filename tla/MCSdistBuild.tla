---------------------------- MODULE MCSdistBuild ----------------------------
(* SdistBuild over the layouts of archives, over the tools Bazel names,   *)
(* over targets and tags, and one build under the memory monitor.         *)
EXTENDS SdistBuild

CONSTANTS r, c1, c2, t1, t2

MCRss == (r :> 1) @@ (c1 :> 2) @@ (c2 :> 1)
MCThreads == (r :> {t1, t2}) @@ (c1 :> {t1}) @@ (c2 :> {t1})

MCSuffix == ("m.c" :> "c") @@ ("m.pyx" :> "pyx")
MCEggInfo == ("own.egg-info" :> "own") @@ ("other.egg-info" :> "other")

\* The root's files, by what they say; absent where NoText.
Pyprojects == {
  NoText,
  Text([system |-> TRUE, requires |-> {"flit"}, backend |-> "flit"]),
  Text([system |-> TRUE, requires |-> {"setuptools", "numpy"}, backend |-> "setuptools",
        project |-> TRUE, static |-> {"install_requires"}]),
  Text([project |-> TRUE]),
  Text([valid |-> FALSE])}
SetupPys == {
  NoText,
  Text([requires |-> {"numpy"}, mentions |-> {"install_requires", "extras_require"}]),
  Text([setup |-> "raises"]), Text([setup |-> "hangs"])}
SetupCfgs == {NoText, Text([requires |-> {"cffi"}, mentions |-> {"install_requires"}])}
Other == Text([requires |-> {"stray"}, mentions |-> {"stray"}])
OwnScripts == Text([scripts |-> {"own"}])
OtherScripts == Text([scripts |-> {"other"}])

\* Below a directory "s": vendored configuration files that come first.
Files(pyproject, setup_py, setup_cfg, extra) ==
  LET root == (<<"pyproject.toml">> :> pyproject) @@ (<<"setup.py">> :> setup_py)
              @@ (<<"setup.cfg">> :> setup_cfg)
  IN extra @@ [m \in {n \in DOMAIN root : root[n] # NoText} |-> root[m]]

Sequence(S) == FoldSet(LAMBDA x, s : Append(s, x), << >>, S)

Archive(files, tops) ==
  LET text == [m \in UNION {{t \o n : n \in DOMAIN files} : t \in tops} |->
                 files[CHOOSE n \in DOMAIN files : \E t \in tops : m = t \o n]]
      nested == {m \in DOMAIN text : Len(m) > 2}
  IN [members |-> Sequence(nested) \o Sequence(DOMAIN text \ nested), text |-> text]

Extras == {
  <<"m.c">> :> NoText, <<"s", "m.pyx">> :> NoText,
  (<<"s", "setup.py">> :> Other) @@ (<<"s", "pyproject.toml">> :> Other),
  (<<"PKG-INFO">> :> Text([name |-> "own"])) @@ (<<"s", "own.egg-info", "entry_points.txt">> :> OwnScripts)
    @@ (<<"other.egg-info", "entry_points.txt">> :> OtherScripts),
  <<"other.egg-info", "entry_points.txt">> :> OtherScripts}

Rooted == {<<"p">>}
Layouts == {Rooted, {<< >>}, {<<"p">>, <<"q">>}}

P1 == [file |-> <<"fix.py">>, from |-> NoText, to |-> Text([name |-> "fixed"])]
P2 == [file |-> <<"setup.py">>, from |-> Text([setup |-> "raises"]), to |-> Text([requires |-> {"stray"}])]

P3 == [file |-> <<"setup.py">>, from |-> Text([requires |-> {"wheel"}]), to |-> Other]

Plain == Archive(Files(NoText, Text([setup |-> "raises"]), NoText, <<"m.c">> :> NoText), Rooted)
DefaultJob == [
  archive |-> Plain, tool |-> TRUE, deps |-> {}, lock |-> {"setuptools", "wheel", "numpy"},
  is_native |-> "auto", native_attrs |-> FALSE, patches |-> << >>, local |-> FALSE, monitor |-> FALSE,
  environ |-> << >>, infer_cxx |-> FALSE, target |-> NoTarget, host |-> "linux"]
Job(fields) == fields @@ DefaultJob

ArchiveJobs == {
  Job([archive |-> Archive(Files(p, s, c, x), tops), lock |-> lock, deps |-> {"numpy"} \cap lock, tool |-> p # NoText]) :
    p \in Pyprojects, s \in SetupPys, c \in SetupCfgs, x \in Extras, tops \in Layouts,
    lock \in {{"setuptools", "wheel", "numpy", "cffi", "flit", "cython"}}}
LegacyJobs == {
  Job([archive |-> Archive(Files(NoText, s, c, x), Rooted), is_native |-> n, native_attrs |-> a]) :
    s \in SetupPys, c \in SetupCfgs, x \in Extras, n \in {"auto", "true", "false"}, a \in BOOLEAN}
PatchJobs == {
  Job([patches |-> ps, local |-> l, archive |-> IF two THEN Archive(Files(NoText, Text([setup |-> "raises"]), NoText, << >>), {<<"p">>, <<"q">>}) ELSE Plain]) :
    ps \in {<<P1>>, <<P1, P2>>, <<P3, P1>>, <<P1, P1>>}, l \in BOOLEAN, two \in BOOLEAN}

\* With and without each tool, named in every way.
Tools == {
  [cc |-> cc, cxx |-> cxx, ar |-> ar, x |-> x] :
    cc \in {None, "bare", "execroot", "marker", "absolute"}, cxx \in {None, "execroot", "absolute"},
    ar \in {None, "bare", "execroot"}, x \in BOOLEAN}
Environ(t) ==
  (IF t.cc = None THEN << >> ELSE "CC" :> Value(t.cc, "gcc", <<"-O2">>))
  @@ (IF t.cxx = None THEN << >> ELSE "CXX" :> Value(t.cxx, "gcc", <<"-O1">>))
  @@ (IF t.ar = None THEN << >> ELSE ("AR" :> Value(t.ar, "ar", << >>)) @@ ("LD" :> Value(t.ar, "ld", << >>)))
  @@ (IF t.x THEN ("LDSHARED" :> Value("bare", "gcc", <<"-shared">>)) @@ ("LDCXXSHARED" :> Value("execroot", "g++", << >>))
                  @@ ("JAVA_HOME" :> Value("execroot", "jdk", << >>)) @@ ("RUSTC" :> Value("marker", "rustc", << >>))
      ELSE << >>)
ToolJobs == {Job([environ |-> Environ(t), infer_cxx |-> i]) : t \in Tools, i \in BOOLEAN}

Targets == {[os |-> os, cpu |-> cpu] : os \in {"linux", "darwin", "windows"}, cpu \in {"x86_64", "aarch64", "x86"}}
TargetJobs == {
  Job([target |-> t, host |-> h, is_native |-> n]) :
    t \in Targets \ {[os |-> "darwin", cpu |-> "x86"]}, h \in {"linux", "darwin"}, n \in {"true", "false"}}
MonitorJobs == {Job([monitor |-> TRUE])}

MCTags == {{"any"}, {"linux", "x86_64"}, {"linux", "i686"}, {"macosx", "arm64"}, {"macosx", "universal2"},
           {"win", "amd64"}, {"win", "32"}}
MCJobs == ArchiveJobs \cup LegacyJobs \cup PatchJobs \cup ToolJobs \cup TargetJobs \cup MonitorJobs
MCCxxPeer == "gcc" :> "g++"
=============================================================================
