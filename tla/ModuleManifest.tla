--------------------------- MODULE ModuleManifest ---------------------------
(***************************************************************************)
(* gazelle_manifest/tools/generate.py: the manifest by which Gazelle turns *)
(* an import into the dependency on a distribution, for the wheels of an   *)
(* environment, next to what Python finds in that environment.             *)
(*                                                                         *)
(* A module name is the sequence of its parts; a distribution stands for   *)
(* its normalized name.                                                    *)
(***************************************************************************)
EXTENDS VenvResolution

CONSTANTS
  Stem,      \* a file's name up to its first dot
  Importable,\* names that end in .py, .so or .dylib
  Private,   \* names and stems that begin with an underscore
  DataDirs,  \* names that end in .data
  Stubs,     \* distributions that is_stub_package, none without the flag
  FirstListed(_, _)  \* the member of a set that a wheel's archive lists first

ASSUME StemAssumption ==
  Importable \subseteq DOMAIN Stem /\ \A name \in Importable : Stem[name] \in STRING

\* The members that end in .dist-info/METADATA, a vendored distribution's too.
metadata_files(files) ==
  {m \in files : Len(m) > 1 /\ m[Len(m) - 1] \in Metadata /\ Last(m) = "METADATA"}

\* What the archive has below <name>.data was moved into place, a wheel with a
\* module has a METADATA of its own, and an archive lists one of its members first.
ASSUME InstalledAssumption ==
  /\ "d.data" \in DataDirs /\ (DataDirs \cup {"platlib"}) \cap Metadata = {}
  /\ \A ws \in WheelSets : \A w \in DOMAIN ws :
       LET files == ws[w].files
           named == metadata_files(files)
       IN /\ IsFiniteSet(files)
          /\ named # {} => FirstListed(w, named) \in named
          /\ \A f \in files : f[1] \notin DataDirs /\ (Last(f) \in Importable =>
                                                       \E m \in named : Len(m) = 2)

\* An archive holds native libraries below <name>.data/platlib.
Members(w) ==
  {IF Last(f) \in NativeLib THEN <<"d.data", "platlib">> \o f ELSE f : f \in wheels[w].files}

\* The distribution of the METADATA that is listed first, at whatever depth; { } for None.
extract_package_name(w) ==
  LET named == metadata_files(wheels[w].files)
      first == FirstListed(w, named)
  IN IF named = {} THEN {} ELSE {first[Len(first) - 1]}

\* .dist-info/ is in the member's path.
InDistInfo(member) == \E i \in 1 .. Len(member) - 1 : member[i] \in Metadata

\* << >> where the code has None.
get_importable_module_name(member) ==
  LET path == Append(Front(member), Stem[Last(member)])
      segments == IF Len(path) >= 2 /\ path[1] \in DataDirs /\ path[2] \in {"platlib", "purelib"}
                  THEN SubSeq(path, 3, Len(path)) ELSE path
      module == IF Last(segments) = "__init__" THEN Front(segments) ELSE segments
  IN IF ToSet(module) \cap Private # {} THEN << >> ELSE module

identify_modules(w) ==
  {get_importable_module_name(m) : m \in
     {n \in Members(w) : ~InDistInfo(n) /\ Last(n) \in Importable}} \ {<< >>}

\* The pairs of main: modules, and the names Gazelle asks stubs by.
Pairs ==
  LET pairs(w) == (identify_modules(w) \X extract_package_name(w))
                    \cup {<<<<d>>, d>> : d \in Stubs \cap extract_package_name(w)}
  IN UNION {pairs(w) : w \in Wheel}

prefix_to_packagesWrong(prefix) == {x[2] : x \in {y \in Pairs : prefix = y[1]}}  \* whole names only
prefix_to_packages(prefix) == {x[2] : x \in {y \in Pairs : IsPrefix(prefix, y[1])}}

AllPrefixes == UNION {Prefixes(x[1]) \ {<< >>} : x \in Pairs}

\* Shallower prefixes first; one is left out below another of its package.
find_unique_shallowest_prefixes ==
  LET packages == [p \in AllPrefixes |-> prefix_to_packages(p)]
      unique == {p \in DOMAIN packages : Cardinality(packages[p]) = 1}
      upTo[n \in Nat] ==
        IF n = 0 THEN {}
        ELSE upTo[n - 1] \cup
               {p \in unique : /\ Len(p) = n
                               /\ \A q \in upTo[n - 1] : IsStrictPrefix(q, p) =>
                                    packages[q] # packages[p]}
  IN UNION {{<<p, d>> : d \in packages[p]}
            : p \in IF unique = {} THEN {} ELSE upTo[Max({Len(p) : p \in unique})]}

\* Gazelle answers by the longest prefix in the manifest.
Resolve(manifest, name) ==
  LET at == {x \in manifest : IsPrefix(x[1], name)}
  IN {x[2] : x \in {y \in at : \A z \in at : Len(z[1]) <= Len(y[1])}}

\* The distribution that a wheel is of: the one its own metadata directory names.
Distribution(w) == {m[1] : m \in {n \in metadata_files(wheels[w].files) : Len(n) = 2}}

\* The METADATA that the archive lists first is the wheel's own, and its only one.
OwnListedFirst(w) ==
  LET named == metadata_files(wheels[w].files)
  IN named # {} => {n \in named : Len(n) = 2} = {FirstListed(w, named)}

\* Where every archive lists the wheel's own METADATA before those of what it
\* vendors, an import of a public module, or of a package above one, is resolved
\* to the only distribution that has anything by that name, and is left open where
\* several have; the manifest says so without an entry below another; and the
\* module that Python finds by that name is of the distribution it resolves to.
ManifestExact ==
  LET manifest == find_unique_shallowest_prefixes
      modules == [d \in Metadata |-> UNION {identify_modules(w) : w \in
                                              {v \in Wheel : d \in Distribution(v)}}]
      shipped == UNION {Distribution(w) : w \in Wheel}
      having(name) == {d \in shipped : \/ \E m \in modules[d] : IsPrefix(name, m)
                                       \/ d \in Stubs /\ name = <<d>>}
  IN stage = "done" /\ (\A w \in Wheel : OwnListedFirst(w)) =>
       /\ \A p \in AllPrefixes :
            Resolve(manifest, p) = IF Cardinality(having(p)) = 1 THEN having(p) ELSE {}
       /\ \A x, y \in manifest : ~IsStrictPrefix(x[1], y[1])
       /\ \A w \in Wheel : \A f \in wheels[w].files :
            ~InDistInfo(f) /\ Last(f) \in Importable /\ get_importable_module_name(f) # << >> =>
              \A d \in Resolve(manifest, get_importable_module_name(f)), v \in Found(f) :
                d \in Distribution(v)
=============================================================================
