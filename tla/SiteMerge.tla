----------------------------- MODULE SiteMerge -----------------------------
(***************************************************************************)
(* site_merge.py: the copies of one package directory that several wheels  *)
(* contribute are merged into one directory, in overlay order, and what    *)
(* two wheels disagree on is reported.                                     *)
(*                                                                         *)
(* One action merges one entry of one wheel.  A file is its content and    *)
(* its execute bit, all of its mode that the merge looks at.               *)
(***************************************************************************)
EXTENDS Naturals, Sequences, FiniteSets, SequencesExt

CONSTANTS
  Path,     \* relative paths, as the sequences of their components
  Rank,     \* the place of a path in the order of its components
  Source,   \* cache_source_path of the bytecode in a __pycache__
  NoSource, \* the Source of any other path
  Content,  \* file contents
  Merges    \* the wheels' trees, in overlay order

Missing == <<"missing">>
Dir == <<"dir">>
File == {<<"file", c, x>> : c \in Content, x \in BOOLEAN}
IsFile(e) == e[1] = "file"
Tree == [Path -> {Missing, Dir} \cup File]

\* The package directory itself, the directory a path is in, all directories
\* above it, and the paths below one.
Root == << >>
Parent(p) == Front(p)
Above(p) == {SubSeq(p, 1, k) : k \in 1 .. Len(p) - 1}
Below(p) == {q \in Path : p \in Above(q)}

\* What an unpacked wheel can hold: entries are in directories.
WellFormed(t) == \A p \in Path : t[p] # Missing => \A q \in Above(p) : t[q] = Dir

ASSUME PathAssumption ==
  Path \subseteq Seq(STRING) \ {Root} /\ \A p \in Path : Above(p) \subseteq Path
\* A directory is sorted before all that is below it.
ASSUME RankAssumption ==
  /\ Rank \in [Path \cup {Root} -> Nat]
  /\ \A p \in Path : \A q \in Above(p) \cup {Root} : Rank[q] < Rank[p]
\* cache_source_path: bytecode is in a directory next to its source.
ASSUME SourceAssumption ==
  /\ Source \in [Path -> Path \cup {NoSource}] /\ NoSource \notin Path
  /\ \A p \in Path : Source[p] # p /\ (Source[p] # NoSource =>
       /\ Below(p) = {} /\ Source[Source[p]] = NoSource
       /\ Parent(p) \notin {Root, Source[p]} /\ Parent(Source[p]) = Parent(Parent(p)))
\* No directory of a wheel is called like bytecode.
ASSUME MergesAssumption ==
  \A m \in Merges :
    /\ m \in Seq(Tree) /\ m # << >>
    /\ \A w \in DOMAIN m :
         WellFormed(m[w]) /\ \A p \in Path : Source[p] # NoSource => m[w][p] # Dir

Policy == {"error", "warning", "ignore"}

VARIABLES
  sources,   \* the wheels' trees, --src by --src
  src,       \* the wheel being merged
  walk,      \* what os.walk has still to give of it
  into,      \* the output directory
  owners,    \* {path: wheel}; 0 where there is none
  caches,    \* {source: [bytecode]}
  conflicts, \* what is reported: paths with both wheels
  pc         \* "merging", "raised", "done" or "refused"

vars == <<sources, src, walk, into, owners, caches, conflicts, pc>>

\* os.walk: directory by directory, its directories before its files.
Before(t, p, q) ==
  IF Parent(p) # Parent(q) THEN Rank[Parent(p)] < Rank[Parent(q)]
  ELSE IF t[p] = Dir /\ t[q] # Dir THEN TRUE
  ELSE IF t[p] # Dir /\ t[q] = Dir THEN FALSE
  ELSE Rank[p] < Rank[q]
Walk(t) == {p \in Path : t[p] # Missing}
Entry(p) ==
  /\ pc = "merging" /\ p \in walk
  /\ \A q \in walk \ {p} : Before(sources[src], p, q)

Init ==
  /\ sources \in Merges
  /\ src = 1
  /\ walk = Walk(sources[1])
  /\ into = [p \in Path |-> Missing]
  /\ owners = [p \in Path |-> 0]
  /\ caches = [p \in Path |-> << >>]
  /\ conflicts = {}
  /\ pc = "merging"

_removeWrong(t, p) == [t EXCEPT ![p] = Missing]  \* leaves what is below p
_remove(t, p) == [q \in Path |-> IF q = p \/ p \in Above(q) THEN Missing ELSE t[q]]

Conflict(p) == [path |-> p, previous |-> owners[p], current |-> src]

\* A directory of the wheel: a file in its place gives way.
MergeDir(p) ==
  /\ Entry(p)
  /\ sources[src][p] = Dir
  /\ conflicts' = IF IsFile(into[p]) THEN conflicts \cup {Conflict(p)} ELSE conflicts
  /\ into' = [into EXCEPT ![p] = Dir]
  /\ owners' = [owners EXCEPT ![p] = src]
  /\ walk' = walk \ {p}
  /\ UNCHANGED <<sources, src, caches, pc>>

\* A file the output has with the same content: only the mode is copied.
MergeSameFileWrong(p) ==  \* leaves the earlier wheel the owner
  /\ Entry(p)
  /\ LET new == sources[src][p] IN
     /\ IsFile(new) /\ IsFile(into[p]) /\ into[p][2] = new[2]
     /\ conflicts' = IF into[p] # new THEN conflicts \cup {Conflict(p)} ELSE conflicts
     /\ into' = [into EXCEPT ![p] = new]
  /\ walk' = walk \ {p}
  /\ UNCHANGED <<sources, src, owners, caches, pc>>
MergeSameFile(p) ==
  /\ Entry(p)
  /\ LET new == sources[src][p] IN
     /\ IsFile(new) /\ IsFile(into[p]) /\ into[p][2] = new[2]
     /\ conflicts' = IF into[p] # new THEN conflicts \cup {Conflict(p)} ELSE conflicts
     /\ into' = [into EXCEPT ![p] = new]
  /\ owners' = [owners EXCEPT ![p] = src]
  /\ walk' = walk \ {p}
  /\ UNCHANGED <<sources, src, caches, pc>>

\* The bytecode to drop with a source: removing what is not there raises.
StaleCachesWrong(p) == {}
StaleCaches(p) == ToSet(caches[p])
RemovalRaises(t, p) ==
  \/ \E i, j \in DOMAIN caches[p] : i # j /\ caches[p][i] = caches[p][j]
  \/ \E c \in StaleCaches(p) : t[c] = Missing

pop(p) == [caches EXCEPT ![p] = << >>]

\* Any other file: what is in its place gives way, the bytecode of what it
\* replaces is dropped, and bytecode is noted under its source.
MergeFile(p) ==
  /\ Entry(p)
  /\ LET new == sources[src][p]
         old == into[p]
         cleared == _remove(into, p)
     IN
     /\ IsFile(new) /\ ~ (IsFile(old) /\ old[2] = new[2])
     /\ conflicts' = IF old # Missing THEN conflicts \cup {Conflict(p)} ELSE conflicts
     /\ IF RemovalRaises(cleared, p)
        THEN pc' = "raised" /\ UNCHANGED <<into, owners, caches, walk>>
        ELSE /\ into' = [q \in Path |->
                  IF q = p THEN new
                  ELSE IF ({q} \cup Above(q)) \cap StaleCaches(p) # {} THEN Missing
                  ELSE cleared[q]]
             /\ owners' = [owners EXCEPT ![p] = src]
             /\ caches' = IF Source[p] = NoSource THEN pop(p)
                          ELSE [pop(p) EXCEPT ![Source[p]] = Append(@, p)]
             /\ walk' = walk \ {p}
             /\ UNCHANGED pc
  /\ UNCHANGED <<sources, src>>

NextSource ==
  /\ pc = "merging" /\ walk = {} /\ src < Len(sources)
  /\ src' = src + 1
  /\ walk' = Walk(sources[src'])
  /\ UNCHANGED <<sources, into, owners, caches, conflicts, pc>>

\* main: the merge is over; --collision-policy says what the conflicts mean.
Finish ==
  /\ pc = "merging" /\ walk = {} /\ src = Len(sources)
  /\ \E policy \in Policy :
       pc' = IF conflicts # {} /\ policy = "error" THEN "refused" ELSE "done"
  /\ UNCHANGED <<sources, src, walk, into, owners, caches, conflicts>>

Terminating == pc # "merging" /\ UNCHANGED vars

Next ==
  \/ \E p \in Path : MergeDir(p) \/ MergeSameFile(p) \/ MergeFile(p)
  \/ NextSource
  \/ Finish
  \/ Terminating

Spec == Init /\ [][Next]_vars

-----------------------------------------------------------------------------
(* The overlay, as one definition: what the first k wheels leave at a path. *)
Providers(p, k) == {w \in 1 .. k : sources[w][p] # Missing}
LastProvider(p, k) == CHOOSE w \in Providers(p, k) : \A u \in Providers(p, k) : u <= w
Overlay(p, k) ==
  IF \/ Providers(p, k) = {}
     \/ \E u \in LastProvider(p, k) .. k : \E q \in Above(p) : IsFile(sources[u][q])
  THEN Missing
  ELSE sources[LastProvider(p, k)][p]

Bytecode == {p \in Path : Source[p] # NoSource}
Merged == pc \in {"done", "refused"}
n == Len(sources)

\* They agree on what is a file and what a directory, and on the bytecode.
Agreeing ==
  \A v, w \in DOMAIN sources, p \in Path :
    /\ sources[v][p] = Dir => ~ IsFile(sources[w][p])
    /\ p \in Bytecode /\ IsFile(sources[v][p]) /\ IsFile(sources[w][p])
         => sources[v][p] = sources[w][p]

\* site_merge.py:25: "in overlay order: on conflicts the later wheel overlays
\* the earlier one".  A finished merge has left, at every path but bytecode,
\* what the last wheel says, whichever directories became files and back; and
\* a removal that would stop it half way is met only where wheels disagree.
IsOverlay ==
  /\ Merged => \A p \in Path \ Bytecode : into[p] = Overlay(p, n)
  /\ Agreeing => pc # "raised"

\* Bytecode that is left is the last wheel's, next to the very source that it
\* had in the overlay up to that wheel; other bytecode was dropped.
BytecodeFresh ==
  Merged => \A c \in Bytecode :
    IF into[c] = Missing
    THEN Overlay(c, n) = Missing \/
         \E k \in LastProvider(c, n) + 1 .. n :
           /\ IsFile(sources[k][Source[c]])
           /\ \/ ~ IsFile(Overlay(Source[c], k - 1))
              \/ Overlay(Source[c], k - 1)[2] # sources[k][Source[c]][2]
    ELSE /\ into[c] = Overlay(c, n)
         /\ IsFile(into[Source[c]]) =>
              \/ ~ IsFile(Overlay(Source[c], LastProvider(c, n)))
              \/ into[Source[c]][2] = Overlay(Source[c], LastProvider(c, n))[2]

\* A later wheel says something else of a path than the overlay before it.
Disputes(p, w) ==
  /\ sources[w][p] # Missing
  /\ Overlay(p, w - 1) # Missing
  /\ Overlay(p, w - 1) # sources[w][p]

\* What is reported is what two wheels disagree on, at every path but bytecode
\* (which is gone with its source, and then nothing is left to disagree with):
\* a path with the wheel that provided it last and a later one that says
\* something else.
ConflictsExact ==
  Merged =>
    {c \in conflicts : c.path \notin Bytecode} =
      UNION {{[path |-> p, previous |-> LastProvider(p, w - 1), current |-> w] :
                w \in {u \in DOMAIN sources : Disputes(p, u)}} : p \in Path \ Bytecode}

\* A merge never stops half way: every combination of wheels has an overlay.
AlwaysMerges == pc # "raised"
=============================================================================
