---------------------------- MODULE SdistInspect ----------------------------
(***************************************************************************)
(* detect_native.py: what the configure tool reports of a source           *)
(* distribution.  An archive is the sequence of its files and their texts; *)
(* a path is the sequence of its parts; of a text only what some reader    *)
(* extracts is kept.  Names are normalized.                                *)
(***************************************************************************)
EXTENDS Integers, Sequences, FiniteSets, SequencesExt, Functions

CONSTANTS
  Suffix,   \* the suffix of the file names that have one of interest
  EggInfo   \* the project that an egg-info directory is named for

NATIVE_EXTENSIONS == {"c", "cc", "cpp", "cxx", "pyx", "pxd", "rs", "s", "asm"}
EXTENSION_TO_BUILD_DEP == [pyx |-> "cython", pxd |-> "cython", rs |-> "setuptools_rust"]

NoFile == << >>
None == "None"

\* The fields a reader finds in a text; a file that is absent reads as NoText.
NoText == [
  valid |-> TRUE,            \* it parses: TOML, configparser, JSON context
  requires |-> {},           \* [build-system] requires, or [options] setup_requires
  system |-> FALSE,          \* it has a [build-system]
  backend |-> None,          \* build-backend
  project |-> FALSE,         \* it has a [project]
  static |-> {},             \* metadata [project] states or declares dynamic
  mentions |-> {},           \* metadata the text of setup.py or setup.cfg mentions
  setup |-> "called",        \* how setup.py ends: "called", "raises" or "hangs"
  name |-> None,             \* Name of a PKG-INFO
  scripts |-> {}]            \* console_scripts of an entry_points.txt
Text(fields) == fields @@ NoText

_find_config_fileWrong(a, file) ==  \* at any depth
  LET hits == SelectSeq(a.members, LAMBDA m : Last(m) = file)
  IN IF hits = << >> THEN NoFile ELSE Head(hits)

\* The file itself, or the first one directly below some directory.
_find_config_file(a, file) ==
  LET hits == {i \in DOMAIN a.members : Len(a.members[i]) = 2 /\ a.members[i][2] = file}
  IN IF <<file>> \in ToSet(a.members) THEN <<file>>
     ELSE IF hits = {} THEN NoFile ELSE a.members[Min(hits)]

Read(a, m) == IF m = NoFile THEN NoText ELSE a.text[m]

\* What exec'ing setup.py with a capturing setup() tells: nothing when it
\* ends by itself or by an exception.
_parse_setup_py_requires(text) == IF text.setup = "called" THEN text.requires ELSE {}

\* The egg-info whose entry points are the project's own: the one named like
\* its PKG-INFO at any depth, or else the one directly below its root.
EntryPoints(a) ==
  LET members == ToSet(a.members)
      rooted == Cardinality({Head(m) : m \in members}) = 1
      pkg_info == {m \in members : Last(m) = "PKG-INFO" /\ Len(m) = IF rooted THEN 2 ELSE 1}
      package_name == IF Cardinality(pkg_info) = 1
                      THEN a.text[CHOOSE m \in pkg_info : TRUE].name ELSE None
      egg_info == {m \in members : /\ Len(m) >= 2 /\ Last(m) = "entry_points.txt"
                                   /\ m[Len(m) - 1] \in DOMAIN EggInfo}
  IN {m \in egg_info : IF package_name # None
                       THEN EggInfo[m[Len(m) - 1]] = package_name
                       ELSE Len(m) = IF rooted THEN 3 ELSE 2}

suffixes(a) == {Suffix[Last(m)] : m \in {n \in ToSet(a.members) : Last(n) \in DOMAIN Suffix}}

inferred(a) ==
  {EXTENSION_TO_BUILD_DEP[s] : s \in suffixes(a) \cap DOMAIN EXTENSION_TO_BUILD_DEP}

declared(a) ==
  LET pyproject == _find_config_file(a, "pyproject.toml")
      setup_py == _find_config_file(a, "setup.py")
  IN Read(a, pyproject).requires
     \cup Read(a, _find_config_file(a, "setup.cfg")).requires
     \cup _parse_setup_py_requires(Read(a, setup_py))
     \cup IF pyproject = NoFile /\ setup_py # NoFile THEN {"setuptools", "wheel"} ELSE {}

\* The result of the tool with the deps and the lock of its context, or
\* Failed: a file does not parse, or setup.py outlives the timeout.
Failed == [failed |-> TRUE, is_native |-> FALSE, extra_deps |-> {}, console_scripts |-> {}]

detect(a, deps, available_deps) ==
  LET texts == {Read(a, _find_config_file(a, f)) : f \in {"pyproject.toml", "setup.cfg", "setup.py"}}
      entry_points == EntryPoints(a)
  IN IF \E t \in texts : ~t.valid \/ t.setup = "hangs" THEN Failed
     ELSE [failed |-> FALSE,
           is_native |-> suffixes(a) \cap NATIVE_EXTENSIONS # {},
           extra_deps |-> ((declared(a) \cup inferred(a)) \cap available_deps) \ deps,
           console_scripts |-> IF Cardinality(entry_points) = 1
                               THEN a.text[CHOOSE m \in entry_points : TRUE].scripts ELSE {}]
=============================================================================
