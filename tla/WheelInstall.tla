---------------------------- MODULE WheelInstall ----------------------------
(***************************************************************************)
(* unpack.py, run by whl_install with the layout that analysis derived     *)
(* from RECORD: a wheel is unpacked, patched, filtered and compiled, and   *)
(* its RECORD is written anew.                                             *)
(*                                                                         *)
(* A path is the sequence of its segments below the prefix; lib/site       *)
(* stands for lib/pythonM.m/site-packages.  A glob is the set of           *)
(* site-packages paths it matches, and matches all below them.             *)
(***************************************************************************)
EXTENDS WheelLayout, FiniteSets

CONSTANTS
  DistInfo,   \* the wheel's own .dist-info segment
  SourceOf,   \* {x.tag.pyc: x.py}, for the segments ending in .pyc
  BytecodeOf, \* {x.py: the x.tag.pyc compileall writes for it}
  SizeOf,     \* {what a wheel or a patch ships: its size}
  Shebang,    \* what starts with the shebang of a python
  Broken,     \* what the interpreter cannot compile
  Jobs        \* wheels with their install's exclude, patches and compile

Path == Seq(STRING) \ {<< >>}

\* A suffix tells bytecode from all other files, and native libraries from
\* what the installer writes.
ASSUME SegmentAssumption ==
  /\ DistInfo \in Metadata /\ "__pycache__" \notin Metadata \cup {InitPy}
  /\ (NativeLib \cup {InitPy}) \cap {"INSTALLER", "REQUESTED"} = {}
  /\ SourceOf \in [DOMAIN SourceOf -> STRING \ DOMAIN SourceOf] /\ DOMAIN SourceOf \subseteq STRING
  /\ \A m \in DOMAIN BytecodeOf :
       BytecodeOf[m] \in DOMAIN SourceOf /\ SourceOf[BytecodeOf[m]] = m
  /\ DOMAIN SourceOf \cap (DOMAIN BytecodeOf \cup NativeLib \cup
       {InitPy, "RECORD", "METADATA", "INSTALLER", "REQUESTED", "entry_points.txt"}) = {}
\* Segments are strings, those that are written here too.
ASSUME StringAssumption ==
  {DistInfo, InitPy, "lib", "site", "bin", "include", "__pycache__", "RECORD", "METADATA",
   "INSTALLER", "REQUESTED", "entry_points.txt"} \subseteq STRING
ASSUME SizeAssumption ==
  /\ SizeOf \in [DOMAIN SizeOf -> Nat] /\ Shebang \subseteq DOMAIN SizeOf
  /\ {"aspect_rules_py", ""} \cap DOMAIN SizeOf = {}  \* what the installer writes

VARIABLES
  job,       \* the wheel and the arguments
  tree,      \* {file: content} below the prefix
  installed, \* {file: row of the wheel's RECORD that is reused, or None}
  seen,      \* names of the members that were unpacked
  roots,     \* original_import_roots
  observed,  \* {--preserve-path: its shape before the patches}
  record,    \* rows of the RECORD file in the tree
  n,         \* the member or the patch that is next
  pc

vars == <<job, tree, installed, seen, roots, observed, record, n, pc>>

Put(f, x, y) == [z \in DOMAIN f \cup {x} |-> IF z = x THEN y ELSE f[z]]
Keep(f, S) == [z \in DOMAIN f \cap S |-> f[z]]
Empty == [z \in {} |-> z]

\* File contents: shipped, with a relocatable shebang, a console script, the
\* files the installer writes, and bytecode.
Shipped(c) == <<"shipped", c>>
Relocated(c) == <<"relocated", c>>
Wrapper(s) == <<"wrapper", s>>
Compiled(c) == <<"compiled", c>>
Installer == <<"shipped", "aspect_rules_py">>
Requested == <<"shipped", "">>

\* A row is a digest and a size; a digest is what it is the digest of.
Size(c) ==
  CASE c = Installer -> 15
    [] c = Requested -> 0
    [] c[1] = "wrapper" -> 200
    [] c[1] = "relocated" -> 100
    [] OTHER -> SizeOf[c[2]]
Hash(c) == [digest |-> c, size |-> Size(c)]
None == [digest |-> <<"none">>, size |-> 0]

Site(p) == <<"lib", "site">> \o p
InSite(f) == Len(f) > 2 /\ SubSeq(f, 1, 2) = <<"lib", "site">>
Rel(f) == SubSeq(f, 3, Len(f))
SiteFiles(t) == {Rel(f) : f \in {g \in DOMAIN t : InSite(g)}}

IsBytecode(p) == Last(p) \in DOMAIN SourceOf
IsCache(p) == IsBytecode(p) /\ Len(p) >= 2 /\ p[Len(p) - 1] = "__pycache__"
cache_source_path(p) ==
  IF IsCache(p) THEN SubSeq(p, 1, Len(p) - 2) \o <<SourceOf[Last(p)]>>
  ELSE Front(p) \o <<SourceOf[Last(p)]>>

SourceExcluded(p, globs) == IsBytecode(p) /\ Within(cache_source_path(p), globs)
_path_excluded(p, globs) == Within(p, globs) \/ SourceExcluded(p, globs)

\* The two files of the metadata the installer itself reads.
_installer_input(p) ==
  Len(p) = 2 /\ p[1] \in Metadata /\ p[2] \in {"entry_points.txt", "RECORD"}

_import_roots(files) ==
  {p[1] : p \in {q \in files :
     /\ q[1] \notin Metadata
     /\ \/ Len(q) > 1
        \/ Last(q) \in DOMAIN BytecodeOf \cup NativeLib
        \/ IsBytecode(q)}}

\* Members of the archive: a category of the .data directory, or "root".
Name(m) == <<m.at, m.rel>>
Dest(m) ==
  CASE m.at \in {"root", "purelib"} -> Site(m.rel)
    [] m.at = "scripts" -> <<"bin", Last(m.rel)>>
    [] m.at = "headers" -> <<"lib", "include">> \o m.rel
    [] m.at = "data" -> m.rel
    [] OTHER -> Site(<<m.at>> \o m.rel)
Members == {job.wheel.members[i] : i \in DOMAIN job.wheel.members}

RecordFile == Site(<<DistInfo, "RECORD">>)
InstallerFile == Site(<<DistInfo, "INSTALLER">>)
RequestedFile == Site(<<DistInfo, "REQUESTED">>)

\* A wheel brings its own RECORD, whose rows tell of members, and its metadata
\* lies in the archive's root.
ASSUME WheelsAssumption ==
  \A j \in Jobs : LET w == j.wheel IN
    /\ w.members \in Seq([at : STRING, rel : Path, data : DOMAIN SizeOf])
    /\ w.scripts \subseteq STRING
    /\ \E i \in DOMAIN w.members : Name(w.members[i]) = <<"root", <<DistInfo, "RECORD">>>>
    /\ \A i \in DOMAIN w.members : LET m == w.members[i] IN
         /\ Last(m.rel) = "RECORD" /\ m.at = "root" => Len(m.rel) >= 2
         /\ Dest(m) \in {InstallerFile, RequestedFile} => m.at = "root"
    /\ \A x \in DOMAIN w.claims : \E i \in DOMAIN w.members :
         /\ Name(w.members[i]) = x
         /\ w.claims[x] = [digest |-> Shipped(w.members[i].data), size |-> w.claims[x].size]

\* Wheels and patches whose layout can be told from paths.  All that is
\* installed in site-packages is in the archive's root or in purelib, no file
\* is below a file, bytecode lies beside its module, and the metadata is in one
\* directory without modules and libraries.
PathsOf(w) ==
  {w.members[i].rel : i \in {k \in DOMAIN w.members : w.members[k].at \in {"root", "purelib"}}}
InCache(p) == \E i \in DOMAIN p : p[i] = "__pycache__"
ASSUME LayoutAssumption ==
  \A j \in Jobs :
    LET paths == PathsOf(j.wheel)
        written == {<<DistInfo, "INSTALLER">>, <<DistInfo, "REQUESTED">>}
        touched == {Rel(f) : f \in {g \in UNION {DOMAIN j.patches[i] : i \in DOMAIN j.patches} : InSite(g)}}
    IN /\ \A i \in DOMAIN j.wheel.members : LET m == j.wheel.members[i] IN
            InSite(Dest(m)) => m.at \in {"root", "purelib"}
       /\ \A p, q \in paths \cup written : ~ IsStrictPrefix(p, q)
       /\ \A p \in paths :
            /\ InCache(p) => LET s == cache_source_path(p) IN IsCache(p) /\ s \in paths /\ ~ InCache(s)
            /\ p[1] \in Metadata => p[1] = DistInfo /\ Last(p) \notin NativeLib
       /\ \A p \in paths \cup touched : \A i \in 1 .. Len(p) - 1 :
            p[i] # InitPy /\ (p[i] \in Metadata => p[i + 1] # InitPy)
       /\ \A p \in touched : ~ InCache(p)

\* A patch is text: it adds no bytecode to a cache.
ASSUME PatchesAssumption ==
  \A j \in Jobs :
    /\ Len(j.patches) \in Nat /\ DOMAIN j.patches = 1 .. Len(j.patches)
    /\ \A i \in DOMAIN j.patches : \A f \in DOMAIN j.patches[i] :
         /\ f \in Path /\ j.patches[i][f][1] \in {"add", "edit", "remove"}
         /\ InSite(f) /\ IsCache(Rel(f)) => j.patches[i][f][1] # "add"

(***************************************************************************)
(* What analysis passes: the layout of the paths RECORD lists that the     *)
(* globs keep.                                                             *)
(***************************************************************************)
RecordPaths == PathsOf(job.wheel)
DataFiles == {m.rel : m \in {x \in Members : x.at = "data"}}
Layout == WheelRecord({p \in RecordPaths : ~ _path_excluded(p, job.exclude)}, DataFiles)

preserve_paths ==
  Layout.top_levels
  \cup {p \in Layout.namespace_entries \cup Layout.namespace_dirs \cup Layout.regular_roots :
          p[1] \notin Metadata}

\* Data files by their place below the prefix, but for bin and lib, which
\* hold other categories too.
_AMBIGUOUS_PREFIX_ROOTS == {"bin", "lib"}
_prefix_data_files(files) == {f \in files : f[1] \notin _AMBIGUOUS_PREFIX_ROOTS}
ExpectedWrong == DataFiles
Expected == _prefix_data_files(DataFiles)

(***************************************************************************)
(* install_wheel                                                           *)
(***************************************************************************)
Patched == job.patches # << >>
drop_pycacheWrong == job.compile
drop_pycache == job.compile \/ Patched

\* RECORD's rows can be reused when the archive has one RECORD only.
RecordMembers == {m \in Members : Last(m.rel) = "RECORD" /\ (m.at = "root" => Len(m.rel) >= 2)}
record_metadata == IF Cardinality(RecordMembers) = 1 THEN job.wheel.claims ELSE Empty
regenerated_markers ==
  IF Cardinality(RecordMembers) # 1 THEN {}
  ELSE {<<"root", <<DistInfo, "INSTALLER">>>>, <<"root", <<DistInfo, "REQUESTED">>>>}

\* A script is read by its name, which gives the last member of that name.
Content(m) ==
  IF m.at # "scripts" THEN Shipped(m.data)
  ELSE LET i == CHOOSE j \in DOMAIN job.wheel.members :
                  /\ Name(job.wheel.members[j]) = Name(m)
                  /\ \A k \in DOMAIN job.wheel.members : Name(job.wheel.members[k]) = Name(m) => k <= j
           d == job.wheel.members[i].data
       IN IF d \in Shebang THEN Relocated(d) ELSE Shipped(d)

ReusableWrong(m) ==
  IF \/ Name(m) \notin DOMAIN record_metadata
     \/ Content(m)[1] = "relocated"
     \/ record_metadata[Name(m)].size # SizeOf[m.data]
  THEN None ELSE record_metadata[Name(m)]
Reusable(m) ==
  IF \/ Name(m) \notin DOMAIN record_metadata
     \/ Name(m) \in seen
     \/ Content(m)[1] = "relocated"
     \/ record_metadata[Name(m)].size # SizeOf[m.data]
  THEN None ELSE record_metadata[Name(m)]

Skipped(p) ==
  \/ ~ Patched /\ _path_excluded(p, job.exclude) /\ ~ _installer_input(p)
  \/ drop_pycache /\ IsCache(p)

Init ==
  /\ job \in Jobs
  /\ tree = Empty
  /\ installed = Empty
  /\ seen = {}
  /\ roots = {}
  /\ observed = Empty
  /\ record = {}
  /\ n = 1
  /\ pc = "install"

Install ==
  /\ pc = "install" /\ n <= Len(job.wheel.members)
  /\ n' = n + 1
  /\ LET m == job.wheel.members[n]
         f == Dest(m)
     IN /\ roots' = IF InSite(f) THEN roots \cup _import_roots({Rel(f)}) ELSE roots
        /\ IF InSite(f) /\ Skipped(Rel(f)) THEN UNCHANGED <<tree, installed, seen>>
           ELSE /\ tree' = Put(tree, f, Content(m))
                /\ seen' = seen \cup {Name(m)}
                /\ installed' = IF m \in RecordMembers \/ Name(m) \in regenerated_markers
                                THEN installed ELSE Put(installed, f, Reusable(m))
  /\ UNCHANGED <<job, observed, record, pc>>

\* Console scripts overwrite what the wheel put into bin.
EntryPoints ==
  /\ pc = "install" /\ n > Len(job.wheel.members)
  /\ LET scripts == IF Site(<<DistInfo, "entry_points.txt">>) \in DOMAIN tree
                    THEN {<<"bin", s>> : s \in job.wheel.scripts} ELSE {}
     IN /\ tree' = [f \in DOMAIN tree \cup scripts |->
                      IF f \in scripts THEN Wrapper(f[2]) ELSE tree[f]]
        /\ installed' = [f \in DOMAIN installed \cup scripts |->
                           IF f \in scripts THEN None ELSE installed[f]]
  /\ pc' = "record"
  /\ UNCHANGED <<job, seen, roots, observed, record, n>>

WriteRecord ==
  /\ pc = "record"
  /\ IF RecordFile \notin DOMAIN tree THEN UNCHANGED <<tree, record>>
     ELSE /\ tree' = Put(Put(tree, InstallerFile, Installer), RequestedFile, Requested)
          /\ record' = {<<f, IF installed[f] = None THEN Hash(tree'[f]) ELSE installed[f]>> :
                          f \in DOMAIN installed}
                       \cup {<<f, Hash(tree'[f])>> : f \in {InstallerFile, RequestedFile}}
  /\ n' = 1
  /\ pc' = "observe"
  /\ UNCHANGED <<job, installed, seen, roots, observed>>

(***************************************************************************)
(* main                                                                    *)
(***************************************************************************)
\* What the checks around the patches compare of a path.
IsDir(t, d) == \E p \in SiteFiles(t) : IsStrictPrefix(d, p)
_retained_init(t, d) ==
  /\ Append(d, InitPy) \in SiteFiles(t)
  /\ ~ _path_excluded(Append(d, InitPy), job.exclude)
_native_descendants(t, d) ==
  {p \in SiteFiles(t) : /\ IsStrictPrefix(d, p) /\ Last(p) \in NativeLib
                        /\ ~ _path_excluded(p, job.exclude)}
ShapeWrong(t, p) == IF IsDir(t, p) THEN <<"dir">> ELSE IF p \in SiteFiles(t) THEN <<"file">> ELSE <<"none">>
Shape(t, p) ==
  IF IsDir(t, p)
  THEN <<"dir", Last(p) \notin Metadata /\ _retained_init(t, p), _native_descendants(t, p)>>
  ELSE IF p \in SiteFiles(t) THEN <<"file">> ELSE <<"none">>

Fail == pc' = "failed" /\ UNCHANGED <<job, tree, installed, seen, roots, observed, record, n>>

Observe ==
  /\ pc = "observe"
  /\ LET paths == IF Patched THEN preserve_paths ELSE {} IN
     IF \E p \in paths : Shape(tree, p) = <<"none">> THEN Fail
     ELSE /\ observed' = [p \in paths |-> Shape(tree, p)]
          /\ pc' = "patch"
          /\ UNCHANGED <<job, tree, installed, seen, roots, record, n>>

\* A patch maps a file to <<"add", c>>, <<"edit", c>> or <<"remove">>, and is
\* rejected when it does not fit the tree or puts a file below a file.
PatchedFiles(patch) ==
  (DOMAIN tree \cup DOMAIN patch) \ {f \in DOMAIN patch : patch[f][1] = "remove"}
Fits(patch) ==
  /\ \A f \in DOMAIN patch : f \in DOMAIN tree <=> patch[f][1] # "add"
  /\ \A f \in DOMAIN patch, g \in PatchedFiles(patch) :
       patch[f][1] = "add" => ~ IsStrictPrefix(f, g) /\ ~ IsStrictPrefix(g, f)
ApplyPatch ==
  /\ pc = "patch" /\ n <= Len(job.patches)
  /\ LET patch == job.patches[n]
     IN IF ~ Fits(patch) THEN Fail
        ELSE /\ tree' = [f \in PatchedFiles(patch) |->
                           IF f \in DOMAIN patch THEN Shipped(patch[f][2]) ELSE tree[f]]
             /\ n' = n + 1
             /\ UNCHANGED <<job, installed, seen, roots, observed, record, pc>>

CheckPatched ==
  /\ pc = "patch" /\ n > Len(job.patches)
  /\ IF \/ \E p \in DOMAIN observed : Shape(tree, p) # observed[p]
        \/ Patched /\ _prefix_data_files(DOMAIN tree) # Expected
     THEN Fail
     ELSE /\ pc' = "exclude"
          /\ UNCHANGED <<job, tree, installed, seen, roots, observed, record, n>>

_remove_excluded(t) ==
  Keep(t, {f \in DOMAIN t : InSite(f) => ~ _path_excluded(Rel(f), job.exclude)})

RemoveExcluded ==
  /\ pc = "exclude"
  /\ LET t == _remove_excluded(tree) IN
     IF job.exclude # {} /\ ~ roots \subseteq _import_roots(SiteFiles(t)) THEN Fail
     ELSE /\ tree' = t
          /\ pc' = "rewrite"
          /\ UNCHANGED <<job, installed, seen, roots, observed, record, n>>

\* The rows of the patched or filtered tree; the bytecode of a patched one
\* may be stale and goes.
RewriteRecord ==
  /\ pc = "rewrite"
  /\ LET found == RecordFile \in DOMAIN tree
         stale == IF Patched THEN {f \in DOMAIN tree : InSite(f) /\ IsCache(Rel(f))} ELSE {}
     IN IF job.exclude # {} /\ ~ (found /\ Site(<<DistInfo, "METADATA">>) \in DOMAIN tree) THEN Fail
        ELSE /\ IF found /\ (Patched \/ job.exclude # {})
                THEN /\ tree' = Keep(tree, DOMAIN tree \ stale)
                     /\ record' = {<<f, Hash(tree[f])>> : f \in DOMAIN tree' \ {RecordFile}}
                ELSE UNCHANGED <<tree, record>>
             /\ pc' = "compile"
             /\ UNCHANGED <<job, installed, seen, roots, observed, n>>

BytecodePath(p) == Front(p) \o <<"__pycache__", BytecodeOf[Last(p)]>>
CompileWrong ==
  /\ pc = "compile"
  /\ LET sources == {p \in SiteFiles(tree) : Last(p) \in DOMAIN BytecodeOf
                                            /\ tree[Site(p)][2] \notin Broken}
         made == {Site(BytecodePath(p)) : p \in sources}
         t == [f \in DOMAIN tree \cup made |->
                 IF f \in made THEN Compiled(tree[Site(cache_source_path(Rel(f)))]) ELSE tree[f]]
     IN tree' = IF ~ job.compile THEN tree ELSE t
  /\ pc' = "done"
  /\ UNCHANGED <<job, installed, seen, roots, observed, record, n>>
Compile ==
  /\ pc = "compile"
  /\ LET sources == {p \in SiteFiles(tree) : Last(p) \in DOMAIN BytecodeOf
                                            /\ tree[Site(p)][2] \notin Broken}
         made == {Site(BytecodePath(p)) : p \in sources}
         t == [f \in DOMAIN tree \cup made |->
                 IF f \in made THEN Compiled(tree[Site(cache_source_path(Rel(f)))]) ELSE tree[f]]
     IN tree' = IF ~ job.compile THEN tree
                ELSE IF job.exclude # {} THEN _remove_excluded(t) ELSE t
  /\ pc' = "done"
  /\ UNCHANGED <<job, installed, seen, roots, observed, record, n>>

Terminating == pc \in {"done", "failed"} /\ UNCHANGED vars

Next ==
  \/ Install \/ EntryPoints \/ WriteRecord \/ Observe \/ ApplyPatch \/ CheckPatched
  \/ RemoveExcluded \/ RewriteRecord \/ Compile \/ Terminating

Spec == Init /\ [][Next]_vars

-----------------------------------------------------------------------------
IsCompiled(f) == tree[f][1] = "compiled"

\* Every row of the RECORD that is left has the digest and the size of a file
\* that is there, and every file but the RECORDs and the compiled bytecode has
\* a row: rows of the wheel that are reused (unpack.py:379) are still true
\* after members of one name, rewritten scripts, console scripts and patches.
RecordTrue ==
  pc = "done" /\ RecordFile \in DOMAIN tree =>
    /\ \A r \in record : r[1] \in DOMAIN tree /\ r[2] = Hash(tree[r[1]])
    /\ \A f \in DOMAIN tree : IsCompiled(f) \/ Last(f) = "RECORD" \/ \E r \in record : r[1] = f

\* "Supplied bytecode outlives the source it was built from" (unpack.py:520):
\* a module that was patched or compiled has no other bytecode in its cache
\* than that of its final text.
BytecodeFresh ==
  pc = "done" =>
    \A p \in SiteFiles(tree) : IsCache(p) =>
      \/ tree[Site(p)] = Compiled(tree[Site(cache_source_path(p))])
      \/ ~ Patched /\ ~ job.compile

\* The site-packages files that are left are those the wheel and the patches
\* bring, without the excluded ones, their bytecode and any bytecode that is
\* made anew, whether the globs apply before the patches or after them.
Brought ==
  {Rel(f) : f \in {g \in {Dest(m) : m \in Members} \cup {InstallerFile, RequestedFile}
                    \cup UNION {DOMAIN job.patches[i] : i \in DOMAIN job.patches} : InSite(g)}}
PatchedAway(p) ==
  \E i \in DOMAIN job.patches :
    /\ Site(p) \in DOMAIN job.patches[i] /\ job.patches[i][Site(p)][1] = "remove"
    /\ \A j \in (i + 1)..Len(job.patches) : Site(p) \notin DOMAIN job.patches[j]
ExclusionExact ==
  pc = "done" =>
    /\ \A p \in SiteFiles(tree) : ~ _path_excluded(p, job.exclude)
    /\ {p \in SiteFiles(tree) : ~ IsCompiled(Site(p))} =
         {p \in Brought : /\ ~ _path_excluded(p, job.exclude) /\ ~ PatchedAway(p)
                          /\ ~ (IsCache(p) /\ (Patched \/ job.compile))}

\* What venv assembly was told before the wheel was unpacked is true of the
\* tree: every top level and every entry, directory and package root is there
\* and of the kind it was said to be, a directory has native libraries if and
\* only if it was said to, and the data files are those announced.  Bytecode
\* caches are left to the property above.
LayoutHolds ==
  pc = "done" =>
    LET files == {p \in SiteFiles(tree) : ~ InCache(p)}
        told == Layout
        there == WheelRecord(files, {})
        dirs == told.top_level_dirs \cup told.namespace_dirs \cup told.regular_roots
        real(S) == {p \in S : ~ InCache(p)}
    IN /\ real(told.top_levels) \subseteq there.top_levels
       /\ real(told.top_level_dirs) \subseteq there.top_level_dirs
       /\ real(told.namespace_top_levels) = there.namespace_top_levels \cap told.top_levels
       /\ real(told.namespace_entries) \subseteq there.namespace_entries
       /\ real(told.namespace_dirs) \subseteq there.namespace_dirs
       /\ real(told.regular_roots) \subseteq there.regular_roots
       /\ real(told.native_roots) = there.native_roots \cap dirs
       /\ _prefix_data_files(told.data_files) = _prefix_data_files(DOMAIN tree)

\* docs/uv-patching.md:216: exclusions must preserve every top-level import
\* root, METADATA and RECORD, and patches every path that analysis used.  A
\* job that keeps to it: its patches edit modules, its globs leave a file of
\* every root.
SitePaths == {Rel(f) : f \in {g \in {Dest(m) : m \in Members} : InSite(g)}}
Preserving ==
  LET left == {p \in SitePaths : ~ _path_excluded(p, job.exclude)}
  IN /\ \A i \in DOMAIN job.patches : \A f \in DOMAIN job.patches[i] :
          /\ job.patches[i][f][1] = "edit"
          /\ f \in {Dest(m) : m \in Members} \ {RecordFile}
          /\ InSite(f) => ~ IsCache(Rel(f))
     /\ _import_roots(SitePaths) = _import_roots(left)
     /\ {<<DistInfo, "RECORD">>, <<DistInfo, "METADATA">>} \subseteq left

\* Such a job is not refused, as long as the wheel ships no bytecode caches.
PreservingJobsInstall ==
  pc = "failed" => ~ Preserving \/ \E p \in SitePaths : IsCache(p)

\* Such a job is not refused.
AllPreservingJobsInstall == pc = "failed" => ~ Preserving
=============================================================================
