--------------------------- MODULE VenvResolution ---------------------------
(***************************************************************************)
(* resolve_wheel_collisions as a whole: the top levels and their merges    *)
(* (VenvCollisions), then the prefix data files (PrefixData), then the     *)
(* distribution metadata.  Both parts read the same wheels and report into *)
(* one list; neither reads what the other decides.                         *)
(***************************************************************************)
EXTENDS VenvCollisions

CONSTANT VENV_OWNED_ROOTS

\* An archive does not install a file at one path and another one below it.
ASSUME WheelSetsAssumption ==
  \A ws \in WheelSets :
    /\ Len(ws) \in Nat /\ DOMAIN ws = 1 .. Len(ws)
    /\ \A w \in DOMAIN ws : \A f \in ws[w].data_files :
         f \in Seq(STRING) \ {<< >>} /\ Ancestors(f) \cap ws[w].data_files = {}

\* The layout of a wheel is known: its top levels are those of its files, and
\* what is said of it are paths below site-packages.
ASSUME TopLevelsAssumption ==
  \A ws \in WheelSets : \A w \in DOMAIN ws :
    /\ ws[w].files \subseteq Seq(STRING) \ {<< >>}
    /\ ws[w].top_levels = TopLevels(ws[w].files)
    /\ ws[w].namespace_entries \cup ws[w].namespace_dirs \cup ws[w].regular_roots \subseteq Seq(STRING)

VARIABLES
  unclaimed, resolved, unsorted, kept, dataProjected, dataCollisions, dataStage

dataVars == <<unclaimed, resolved, unsorted, kept, dataProjected,
              dataCollisions, dataStage>>

Data == INSTANCE PrefixData WITH
  WheelSets <- {},
  wheels <- [w \in Wheel |-> wheels[w].data_files],
  projected <- dataProjected, collisions <- dataCollisions, stage <- dataStage

VenvInit == Init /\ Data!Start

VenvNext ==
  \/ (\E tl \in pending : ResolveTopLevel(tl)) /\ UNCHANGED dataVars
  \/ FoldMergeGroups /\ UNCHANGED dataVars
  \/ stage = "metadata" /\ UNCHANGED vars /\ Data!Next
  \/ dataStage = "done" /\ ResolveMetadata /\ UNCHANGED dataVars

\* The call returns, or fails because a wheel's metadata cannot be hidden.
Terminating == stage \in {"done", "failed"} /\ UNCHANGED <<vars, dataVars>>

VenvSpec == VenvInit /\ [][VenvNext \/ Terminating]_<<vars, dataVars>>
-----------------------------------------------------------------------------
\* No declared symlink for data is inside another one, nor in a root that
\* belongs to the environment.
SymlinksDisjoint == Data!SymlinksDisjoint

\* The prefix shows each data file in the version of its last wheel; what it
\* does not show was reported.
ShowsLastWheel == Data!ShowsLastWheel
=============================================================================
