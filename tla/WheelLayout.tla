---------------------------- MODULE WheelLayout ----------------------------
(***************************************************************************)
(* whl_install/metadata.bzl and providers.bzl: what venv assembly is told  *)
(* about a wheel, derived from the files its RECORD lists.  A path is the  *)
(* sequence of its segments below site-packages; a top level is a path of  *)
(* one segment.                                                            *)
(***************************************************************************)
EXTENDS Naturals, Sequences, SequencesExt

CONSTANTS
  InitPy,    \* the segment __init__.py
  NativeLib, \* segments with the suffix of a native library
  Metadata   \* segments ending in .dist-info or .egg-info

\* The path with its last segments cut off, at each depth it has.
Ancestors(p) == {SubSeq(p, 1, n) : n \in 1..(Len(p) - 1)}
Within(p, roots) == \E r \in roots : IsPrefix(r, p)
Holds(r, paths) == \E p \in paths : IsPrefix(r, p)

\* The minimal cover: roots that are not below another one.
Shallowest(roots) == {r \in roots : ~ \E q \in roots : IsStrictPrefix(q, r)}

TopLevels(files) == {SubSeq(f, 1, 1) : f \in files}
Dirs(files) == UNION {Ancestors(f) : f \in files}
InitDirs(files) == {Front(f) : f \in {g \in files : Len(g) >= 2 /\ Last(g) = InitPy}}

RegularTopLevels(files) ==
  {SubSeq(f, 1, 1) : f \in {g \in files : Len(g) = 1 \/ g[2] = InitPy}}

NamespaceTopLevels(files) ==
  {tl \in TopLevels(files) \ RegularTopLevels(files) : tl[1] \notin Metadata}

\* From the top, what a namespace top level holds down to the first
\* directory with an __init__.py, or down to the file.
NamespaceEntries(files) ==
  LET inits == InitDirs(files)
      entry(f) == LET depths == {n \in 2..Len(f) : n = Len(f) \/ SubSeq(f, 1, n) \in inits}
                  IN SubSeq(f, 1, CHOOSE n \in depths : \A m \in depths : n <= m)
  IN {entry(f) : f \in {g \in files : Len(g) >= 2 /\ SubSeq(g, 1, 1) \in NamespaceTopLevels(files)}}

\* The skeleton of directories without an __init__.py at or above them, and
\* the shallowest directories that have one.
Roots(files) ==
  LET below == {d \in Dirs(files) : SubSeq(d, 1, 1) \in NamespaceTopLevels(files)}
      inits == InitDirs(files)
  IN [regular |-> {d \in below \cap inits : Ancestors(d) \cap inits = {}},
      namespace |-> {d \in below : Len(d) >= 2 /\ d \notin inits /\ Ancestors(d) \cap inits = {}}]

\* The directories a native library must not be moved out of.
NativeRoots(files) ==
  LET candidates == Roots(files).regular \cup Roots(files).namespace
  IN UNION {{SubSeq(f, 1, 1)} \cup {r \in candidates : IsStrictPrefix(r, f)} :
              f \in {g \in files : Len(g) >= 2 /\ Last(g) \in NativeLib}}

\* One PyWheelsInfo record: files are those below site-packages, data those
\* below the prefix of the environment.
WheelRecord(files, data) ==
  [files |-> files,
   data_files |-> data,
   top_levels |-> TopLevels(files),
   top_level_dirs |-> {tl \in TopLevels(files) \cap Dirs(files) : tl[1] \notin Metadata},
   namespace_top_levels |-> NamespaceTopLevels(files),
   namespace_entries |-> NamespaceEntries(files),
   namespace_dirs |-> Roots(files).namespace,
   regular_roots |-> Roots(files).regular,
   native_roots |-> NativeRoots(files)]

\* What a py_unpacked_wheel says, which has no attribute for the rest; it may
\* list the namespace entries or leave them out.
HandRecord(files, entries) ==
  [WheelRecord(files, {}) EXCEPT !.top_level_dirs = {}, !.namespace_dirs = {},
     !.regular_roots = {}, !.native_roots = {},
     !.namespace_entries = IF entries THEN @ ELSE {}]
=============================================================================
