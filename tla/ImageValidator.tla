--------------------------- MODULE ImageValidator ---------------------------
(***************************************************************************)
(* py_image_layer_validator.py: whether the layers of an image agree on    *)
(* every destination, and what it advises about packages too large for the *)
(* squashed layer.  It judges mtree rows; on the way into a tar            *)
(* modify_mtree.awk leaves out the source layer's where another layer owns *)
(* them, and gives those of a rule's groups another mode.                  *)
(*                                                                         *)
(* A path is the sequence of its parts, a label that of what its colons    *)
(* separate; sizes are in units of which Megabyte make one.                *)
(***************************************************************************)
EXTENDS Integers, Sequences, FiniteSets, SequencesExt, FiniteSetsExt, Functions

CONSTANTS
  Jobs,
  Fs,           \* what each source is once the sandbox's own link is peeled
  None,
  HardLimit,    \* _OCI_LAYER_HARD_LIMIT
  Megabyte,
  MinFile,      \* the least size of a file that gets a layer (10 MB)
  MaxPromoted   \* how many packages the advice names (15)

ASSUME LimitAssumption ==
  HardLimit \in Nat /\ {Megabyte, MinFile, MaxPromoted} \subseteq Nat \ {0}
ASSUME FsAssumption == \A s \in DOMAIN Fs : s \in Seq(STRING) \ {<< >>} /\ Fs[s].is \in {"file", "link"}
ASSUME NoneAssumption == None \notin {"collides", "escapes", "invalid", "no marker", "contents", "content", "link"}

VARIABLES
  job,
  stage,
  at,           \* the row being read
  skipping,     \* skip_paths and skip_dirs are in force
  paths,        \* the entry at each destination
  descendants,  \* the destinations something lies below
  collision,
  messages,
  groups,       \* the keys of suggestions.group_lines
  compression,
  packages      \* the packages still to weigh

rowVars == <<at, skipping, paths, descendants>>
vars == <<job, stage, rowVars, collision, messages, groups, compression, packages>>

Marker == [marker |-> "#end-source"]

\* What the mappers of py_image_layer.bzl write; without a source, kind is None.
Row == {r \in [dest : Seq(STRING), kind : {"contents", "content", "link", None},
               mode : {"0644", "0755"}, source : DOMAIN Fs, type : {"file", "link"}] :
          r.kind # None => (r.type = "link") = (r.kind = "link")}
\* The rows of a rule's groups, from job.rule_groups on, are the last.
ASSUME RowsAssumption ==
  \A j \in Jobs : /\ j.rows \in Seq(Row \cup {Marker})
                  /\ \A n \in j.rule_groups .. Len(j.rows) : j.rows[n] # Marker

\* A part of an installed package; its size is None unless RECORD tells it.
Installed == [record : Nat \cup {None}, binary : BOOLEAN, files : Seq([glob : STRING, size : Nat])]

\* normalize_label ends every label with the name of its target, so that none
\* goes on where another ends.
ASSUME PackagesAssumption ==
  \A j \in Jobs :
    /\ j.threshold \in Nat
    /\ j.packages \in [DOMAIN j.packages -> Seq(Installed)] /\ IsFiniteSet(DOMAIN j.packages)
    /\ \A label, other \in DOMAIN j.packages :
         label \in Seq(STRING) \ {<< >>} /\ (IsPrefix(label, other) => label = other)

Errors == {"collision", "too many layers", "squashed layer too large"}

Init ==
  /\ job \in Jobs
  /\ stage = "rows" /\ at = 1 /\ skipping = TRUE
  /\ paths = << >> /\ descendants = {} /\ collision = None
  /\ messages = {} /\ groups = {} /\ compression = {}
  /\ packages = DOMAIN job.packages

-----------------------------------------------------------------------------
(* Rows. *)

Escapes == <<"..">>

\* The destination without empty, "." and ".." parts.
Destination(parts) ==
  FoldLeft(LAMBDA done, part :
             IF done = Escapes \/ part \in {"", "."} THEN done
             ELSE IF part # ".." THEN Append(done, part)
             ELSE IF done = << >> THEN Escapes ELSE Front(done),
           << >>, parts)

Above(path) == {SubSeq(path, 1, n) : n \in 0 .. Len(path) - 1}

_skip_matchWrong(source) == source \in job.skip_paths  \* forgets tree artifacts

\* The source is skipped itself, or a tree artifact above it is.
_skip_match(source) ==
  source \in job.skip_paths \/ (Above(source) \ {<< >>}) \cap job.skip_dirs # {}

\* One hop of the sandbox is peeled off; what lies behind it decides.
_peel_sandbox_symlink(source) == Fs[source]

\* The bytes of a regular file, None if they cannot be compared.
_comparable_file(row) ==
  LET node == _peel_sandbox_symlink(row.source)
  IN CASE row.kind = "contents" -> Fs[row.source].behind
       [] row.kind = "content" /\ node.is = "file" -> node.behind
       [] OTHER -> None

\* The target of a relative symlink.
_comparable_symlink_target(row) ==
  LET node == _peel_sandbox_symlink(row.source)
  IN IF row.kind \in {"content", "link"} /\ node.is = "link" THEN node.target ELSE None

Same(row, other) ==
  \/ row = other
  \/ /\ row.type = other.type /\ row.mode = other.mode
     /\ \/ /\ row.type = "file" /\ _comparable_file(row) # None
           /\ _comparable_file(row) = _comparable_file(other)
        \/ /\ _comparable_symlink_target(row) # None
           /\ _comparable_symlink_target(row) = _comparable_symlink_target(other)

Entry(row) == [row EXCEPT !.dest = Destination(row.dest)]

Verdict(row) ==
  LET dest == Destination(row.dest)
  IN IF dest = Escapes THEN "escapes"
     ELSE IF row.kind = None THEN "invalid"
     ELSE IF skipping /\ _skip_match(row.source) THEN "skipped"
     ELSE IF dest \in DOMAIN paths
          THEN IF Same(paths[dest], Entry(row)) THEN "same" ELSE "collides"
     ELSE IF Above(dest) \cap DOMAIN paths # {} \/ dest \in descendants THEN "collides"
     ELSE "new"

Rows == job.rows
Rest == <<messages, groups, compression, packages>>

ReadRow ==
  /\ stage = "rows" /\ at <= Len(Rows) /\ Rows[at] # Marker
  /\ LET verdict == Verdict(Rows[at])
         dest == Destination(Rows[at].dest)
         new == verdict = "new"
     IN /\ paths' = IF new THEN [d \in DOMAIN paths \cup {dest} |-> IF d = dest THEN Entry(Rows[at]) ELSE paths[d]]
                    ELSE paths
        /\ descendants' = IF new THEN descendants \cup Above(dest) ELSE descendants
        /\ IF verdict \in {"new", "same", "skipped"}
           THEN UNCHANGED <<stage, collision>>
           ELSE stage' = "layers" /\ collision' = verdict
  /\ at' = at + 1
  /\ UNCHANGED <<job, skipping, Rest>>

\* The rows that follow belong to the layers that own them.
ReadMarker ==
  /\ stage = "rows" /\ at <= Len(Rows) /\ Rows[at] = Marker
  /\ skipping' = FALSE
  /\ at' = at + 1
  /\ UNCHANGED <<job, stage, paths, descendants, collision, Rest>>

EndRows ==
  /\ stage = "rows" /\ at > Len(Rows)
  /\ collision' = IF skipping /\ job.skip_paths \cup job.skip_dirs # {} THEN "no marker" ELSE None
  /\ stage' = "layers"
  /\ UNCHANGED <<job, rowVars, Rest>>

-----------------------------------------------------------------------------
(* Sizes and advice.  A package is a sequence of paths. *)

Total(Size(_), S) == MapThenSumSet(Size, S)

\* RECORD tells the size of an installed wheel, else its files do.
_pkg_size(label) ==
  LET p == job.packages[label]
      Files(n) == Total(LAMBDA f : p[n].files[f].size, DOMAIN p[n].files)
  IN Total(LAMBDA n : IF p[n].record = None THEN Files(n) ELSE p[n].record, DOMAIN p)

_pkg_is_binary(label) == \E n \in DOMAIN job.packages[label] : job.packages[label][n].binary

_find_large_files(label, min) ==
  {f \in UNION {ToSet(job.packages[label][n].files) : n \in DOMAIN job.packages[label]} : f.size >= min}

_suggest_subpath_groups(label, min) == {f.glob : f \in _find_large_files(label, min)}

add_groupWrong(keys, key) == keys \cup {key}  \* subpath does not win
\* A subpath replaces its whole package; after one, the whole is not added.
add_group(keys, key) ==
  IF Len(key) > 1 THEN (keys \ {Front(key)}) \cup {key}
  ELSE IF \E k \in keys : Len(k) > 1 /\ k[1] = key[1] THEN keys ELSE keys \cup {key}

Whole(keys, labels) == FoldSet(LAMBDA label, acc : add_group(acc, label), keys, labels)
Binaries(labels) == {label \in labels : _pkg_is_binary(label)}

CheckCollision ==
  /\ stage = "layers"
  /\ messages' = (IF collision = None THEN {} ELSE {"collision"}) \cup
       (IF job.layer_count > HardLimit THEN {"too many layers"}
        ELSE IF job.layer_count > job.warn_layer_count THEN {"many layers"} ELSE {})
  /\ stage' = "squashed"
  /\ UNCHANGED <<job, rowVars, collision, groups, compression, packages>>

\* The largest packages of a squashed layer over the threshold are promoted
\* whole; equals go by the order of the arguments, any one here.
CheckSquashed ==
  LET all == DOMAIN job.packages
  IN /\ stage = "squashed" /\ stage' = "packages"
     /\ IF Total(_pkg_size, all) <= job.threshold THEN UNCHANGED <<messages, groups, compression>>
        ELSE \E top \in SUBSET all :
               LET named == {label \in top : _pkg_size(label) >= Megabyte}
               IN /\ Cardinality(top) = Min({MaxPromoted, Cardinality(all)})
                  /\ \A label \in top, other \in all \ top : _pkg_size(label) >= _pkg_size(other)
                  /\ messages' = messages \cup {"squashed layer too large"}
                  /\ groups' = Whole(groups, named)
                  /\ compression' = Binaries(named)
     /\ UNCHANGED <<job, rowVars, collision, packages>>

\* A package over the threshold is split by the patterns of its large files,
\* or promoted whole when it has none.
CheckPackage(label) ==
  LET globs == _suggest_subpath_groups(label, Max({job.threshold \div 4, MinFile}))
  IN /\ stage = "packages" /\ label \in packages
     /\ packages' = packages \ {label}
     /\ IF _pkg_size(label) <= job.threshold
        THEN /\ messages' = messages \cup (IF _pkg_is_binary(label) THEN {"binary packages"} ELSE {})
             /\ UNCHANGED <<groups, compression>>
        ELSE /\ messages' = messages \cup {"large package"}
             /\ groups' = IF globs = {} THEN Whole(groups, {label})
                          ELSE FoldSet(LAMBDA g, keys : add_group(keys, Append(label, g)), groups, globs)
             /\ compression' = compression \cup
                  (IF globs = {} THEN Binaries({label}) ELSE IF globs \cap job.binary_globs # {} THEN {label} ELSE {})
     /\ UNCHANGED <<job, stage, rowVars, collision>>

Report ==
  /\ stage = "packages" /\ packages = {}
  /\ stage' = IF messages \cap Errors # {} THEN "exit 1" ELSE "exit 0"
  /\ UNCHANGED <<job, rowVars, collision, messages, groups, compression, packages>>

Ended == stage \in {"exit 0", "exit 1"}
Terminating == Ended /\ UNCHANGED vars

Next ==
  \/ ReadRow \/ ReadMarker \/ EndRows
  \/ CheckCollision \/ CheckSquashed \/ (\E label \in DOMAIN job.packages : CheckPackage(label)) \/ Report
  \/ Terminating

Spec == Init /\ [][Next]_vars

-----------------------------------------------------------------------------
(* Properties. *)

\* modify_mtree.awk: a path of a set, or below a directory of it.
path_in_set(source, exact, dirs) ==
  \E n \in 1 .. Len(source) : SubSeq(source, 1, n) \in (IF n = Len(source) THEN exact ELSE dirs)

\* The rows of all tars: of the source's, what the awk script keeps.
InTar(n) ==
  \/ \E m \in 1 .. n : Rows[m] = Marker
  \/ Rows[n].kind = None \/ ~path_in_set(Rows[n].source, job.skip_paths, job.skip_dirs)
InTars == {n \in DOMAIN Rows : Rows[n] # Marker /\ InTar(n)}

\* The mode of a row in its tar: in the tar of a rule's group, the files that
\* the binaries' source closure has too are executable.
Mode(n) ==
  IF /\ n >= job.rule_groups /\ Rows[n].kind # None
     /\ path_in_set(Rows[n].source, job.chmod_paths, job.chmod_dirs)
  THEN "0755" ELSE Rows[n].mode
Rewritten == {n \in InTars : Mode(n) # Rows[n].mode}

Dest(n) == Destination(Rows[n].dest)

\* What stands in a tar for a row: the bytes of a file, or a symlink; a
\* symlink out of the tree is like no other source's.
Shown(row, mode) ==
  LET node == Fs[row.source]
      link == row.kind # "contents" /\ node.is = "link"
      what == IF link THEN node.target ELSE IF row.kind = "link" THEN None ELSE node.behind
  IN [is |-> IF link THEN "link" ELSE row.type, mode |-> mode,
      what |-> what, of |-> IF what = None THEN <<row.kind, row.source>> ELSE << >>]

Malformed == \E n \in DOMAIN Rows : Rows[n] # Marker /\ (Rows[n].kind = None \/ Dest(n) = Escapes)
Disagree(m, n) ==
  IF Dest(m) = Dest(n) THEN Shown(Rows[m], Mode(m)) # Shown(Rows[n], Mode(n))
  ELSE Dest(m) \in Above(Dest(n))
\* They show the same up to a mode that was rewritten on the way into a tar.
Recast(m, n) ==
  /\ Dest(m) = Dest(n) /\ {m, n} \cap Rewritten # {}
  /\ Shown(Rows[m], "0755") = Shown(Rows[n], "0755")
Mixed == \E m, n \in InTars : Dest(m) = Dest(n) /\ Rows[m].type # Rows[n].type
Unmarked == job.skip_paths \cup job.skip_dirs # {} /\ Marker \notin ToSet(Rows)

\* For every order of the rows, the validator ends with an error where the
\* tars, as the awk script rewrites them, disagree: two show different things
\* at one destination, or one has a file where another has a directory (or a
\* row leaves the image or names no source, or the skipped rows are not told
\* apart); and it ends with one nowhere else.  Two limits are the code's own:
\* rows of two types that show the same are refused, and a mode that the tar
\* of a rule's group rewrites is judged as it was before, so that a difference
\* in it alone is missed if it comes of that, and reported if it goes by it.
CollisionsExact ==
  Ended =>
    /\ Malformed \/ Unmarked \/ (\E m, n \in InTars : Disagree(m, n) /\ ~Recast(m, n))
         => stage = "exit 1" /\ "collision" \in messages
    /\ "collision" \in messages =>
         \/ Malformed \/ Unmarked \/ Mixed
         \/ \E m, n \in InTars :
              Disagree(m, n) \/ (Recast(m, n) /\ Rows[m].mode # Rows[n].mode)

\* The advice of all checks, taken together, is consistent: no package is
\* promoted both whole and by pattern, every package over the threshold is
\* promoted one way, the patterns are of its own large files, and the action
\* fails for an error only: a collision, too many layers or a squashed layer
\* over the threshold.
AdviceConsistent ==
  LET over == {label \in DOMAIN job.packages : _pkg_size(label) > job.threshold}
      By(label) == {key \in groups : Len(key) > Len(label) /\ IsPrefix(label, key)}
  IN Ended =>
       /\ \A label \in DOMAIN job.packages : label \in groups => By(label) = {}
       /\ \A label \in over :
            /\ label \in groups \/ By(label) # {}
            /\ \A key \in By(label) : \E f \in _find_large_files(label, MinFile) : f.glob = Last(key)
       /\ stage = "exit 1" <=> \/ collision # None
                               \/ job.layer_count > HardLimit
                               \/ Total(_pkg_size, DOMAIN job.packages) > job.threshold
=============================================================================
