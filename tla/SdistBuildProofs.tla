-------------------------- MODULE SdistBuildProofs --------------------------
(***************************************************************************)
(* Proofs about SdistBuild for any archives, patches, tags and process     *)
(* trees: the build implements the promise of its action, the monitor      *)
(* reports each step of memory once, counts no process twice, and its      *)
(* sample of a tree that stands still misses no process; the tools Bazel   *)
(* named are those the build starts; the target fits the tree; and the     *)
(* wheel fits the target's platform.                                       *)
(***************************************************************************)
EXTENDS SdistBuild, SequenceTheorems, FiniteSetTheorems, WellFoundedInduction, TLAPS

-----------------------------------------------------------------------------
(* Where the build's files are, between its steps.                         *)

\* The archive of the job with its first next - 1 patches, below one of its
\* own top-level entries.
Unpacked ==
  stage \in {"patch", "build", "collect"} =>
    /\ top \in Tops(ToSet(job.archive.members))
    /\ next \in Nat /\ next >= 1 /\ next <= Len(job.patches) + 1
    /\ worktree = Patched(job, top, next - 1)
AllPatched ==
  /\ stage \in {"configure", "root", "unpack"} => next = 1
  /\ stage \in {"build", "collect"} => next = Len(job.patches) + 1

\* What an earlier attempt left is only where its scratch directory is, and
\* an attempt that finds that ends.
Scratched ==
  /\ "root" \notin scratch => worktree = << >> /\ dist = {}
  /\ stage = "unpack" => worktree = << >>
  /\ stage \in {"unpack", "patch", "build"} => dist = {}
  /\ stage \in {"unpack", "patch", "build", "collect"} => "root" \in scratch

Delivers ==
  /\ stage = "collect" => \A w \in dist : w.tree = Under(worktree, top) /\ w.tag \in Tags
  /\ stage \notin Ended => out = NoWheel

JobOK ==
  /\ {"archive", "patches"} \subseteq DOMAIN job
  /\ DOMAIN job.archive.text = ToSet(job.archive.members)
  /\ job.archive.text = [m \in DOMAIN job.archive.text |-> job.archive.text[m]]
  /\ Len(job.patches) \in Nat

BuildInv == JobOK /\ Unpacked /\ AllPatched /\ Scratched /\ Delivers

LEMMA PatchedNone ==
  ASSUME JobOK, NEW t
  PROVE  Patched(job, t, 0) = job.archive.text
<1>1. \A m : TextAfter(job, t, 0, m) = job.archive.text[m]
  <2>1. \A m : Touching(job, t, 0, m) = {}
    BY DEF Touching
  <2> QED
    BY <2>1 DEF TextAfter
<1>2. {<<t>> \o job.patches[i].file : i \in 1 .. 0} = {}
  OBVIOUS
<1>3. Patched(job, t, 0) = [m \in DOMAIN job.archive.text |-> job.archive.text[m]]
  BY <1>1, <1>2 DEF Patched
<1> QED
  BY <1>3 DEF JobOK

LEMMA PatchedOne ==
  ASSUME NEW j, NEW t, NEW k \in Nat \ {0}
  PROVE  Patched(j, t, k) =
           Write(Patched(j, t, k - 1), <<t>> \o j.patches[k].file, j.patches[k].to)
<1> DEFINE name == <<t>> \o j.patches[k].file
           Names(i) == DOMAIN j.archive.text \cup {<<t>> \o j.patches[h].file : h \in 1 .. i}
<1>1. 1 .. k = (1 .. k - 1) \cup {k}
  OBVIOUS
<1>2. Names(k) = Names(k - 1) \cup {name}
  BY <1>1
<1>3. \A i : Patched(j, t, i) = [m \in Names(i) |-> TextAfter(j, t, i, m)]
  BY DEF Patched
<1>4. TextAfter(j, t, k, name) = j.patches[k].to
  <2> DEFINE S == Touching(j, t, k, name)
  <2>1. k \in S /\ \A h \in S : h \in Nat /\ h <= k
    BY DEF Touching
  <2> HIDE DEF S
  <2>2. Max(S) = k
    <3>1. \A h \in S : k >= h
      BY <2>1
    <3>2. \A x \in S : (\A h \in S : x >= h) => x = k
      BY <2>1
    <3> QED
      BY <2>1, <3>1, <3>2, Zenon DEF Max
  <2> QED
    BY <2>1, <2>2 DEF TextAfter, S
<1>5. ASSUME NEW m, m # name
      PROVE  TextAfter(j, t, k, m) = TextAfter(j, t, k - 1, m)
  <2>1. Touching(j, t, k, m) = Touching(j, t, k - 1, m)
    BY <1>1, <1>5 DEF Touching
  <2> QED
    BY <2>1 DEF TextAfter
<1> HIDE DEF name, Names
<1>6. Patched(j, t, k) = [m \in Names(k - 1) \cup {name} |->
                            IF m = name THEN j.patches[k].to ELSE TextAfter(j, t, k - 1, m)]
  <2>1. \A m : TextAfter(j, t, k, m) = IF m = name THEN j.patches[k].to
                                       ELSE TextAfter(j, t, k - 1, m)
    BY <1>4, <1>5
  <2>2. Patched(j, t, k) = [m \in Names(k - 1) \cup {name} |-> TextAfter(j, t, k, m)]
    BY <1>2, <1>3
  <2> QED
    BY <2>1, <2>2
<1>7. DOMAIN Patched(j, t, k - 1) = Names(k - 1)
      /\ \A m \in Names(k - 1) : Patched(j, t, k - 1)[m] = TextAfter(j, t, k - 1, m)
  BY <1>3
<1>8. Write(Patched(j, t, k - 1), name, j.patches[k].to)
        = [m \in Names(k - 1) \cup {name} |->
             IF m = name THEN j.patches[k].to ELSE TextAfter(j, t, k - 1, m)]
  BY <1>7 DEF Write
<1> QED
  BY <1>6, <1>8 DEF name

LEMMA BuildInvInit == BuildInit => BuildInv
<1> SUFFICES ASSUME BuildInit PROVE BuildInv
  OBVIOUS
<1>1. /\ job \in Jobs /\ stage = "configure" /\ scratch = {} /\ worktree = << >>
      /\ dist = {} /\ out = NoWheel /\ next = 1
  BY DEF BuildInit
<1>2. JobOK
  BY <1>1, JobsAssumption DEF JobOK
<1> QED
  BY <1>1, <1>2 DEF BuildInv, Unpacked, AllPatched, Scratched, Delivers, Ended

-----------------------------------------------------------------------------
(* The steps of the build.                                                 *)

LEMMA StaysInv ==
  ASSUME BuildInv, UNCHANGED <<job, stage, scratch, worktree, top, next, dist, out>>
  PROVE  BuildInv'
<1>1. JobOK' /\ AllPatched' /\ Scratched' /\ Delivers'
  BY ZenonT(40) DEF BuildInv, JobOK, AllPatched, Scratched, Delivers, Under, Ended
<1>2. Unpacked'
  BY DEF BuildInv, Unpacked
<1> QED
  BY <1>1, <1>2 DEF BuildInv

\* An attempt that has ended has nothing left to keep.
LEMMA EndsInv ==
  ASSUME BuildInv, UNCHANGED <<job, scratch, worktree>>, dist' = dist,
         stage' \in Ended
  PROVE  BuildInv'
<1>1. stage' \notin {"configure", "root", "unpack", "patch", "build", "collect"}
  BY DEF Ended
<1>2. JobOK' /\ Unpacked' /\ AllPatched' /\ Scratched'
  BY <1>1 DEF BuildInv, JobOK, Unpacked, AllPatched, Scratched
<1>3. Delivers'
  BY <1>1 DEF Delivers
<1> QED
  BY <1>2, <1>3 DEF BuildInv

LEMMA ConfigureInv == BuildInv /\ Configure => BuildInv'
<1> SUFFICES ASSUME BuildInv, Configure PROVE BuildInv'
  OBVIOUS
<1>1. stage' \in {"refused", "root"} /\ UNCHANGED <<job, scratch, worktree, top, next, dist, out>>
      /\ stage = "configure"
  BY DEF Configure, Become, work, process
<1> QED
  BY <1>1 DEF BuildInv, JobOK, Unpacked, AllPatched, Scratched, Delivers, Ended

LEMMA MakeRootInv == BuildInv /\ MakeRoot => BuildInv'
<1> SUFFICES ASSUME BuildInv, MakeRoot PROVE BuildInv'
  OBVIOUS
<1>1. /\ stage = "root" /\ UNCHANGED <<job, worktree, top, next, dist, out>>
      /\ scratch' = scratch \cup {"root"}
      /\ stage' = IF "root" \in scratch THEN "failed" ELSE "unpack"
  BY DEF MakeRoot, Become, process
<1> QED
  BY <1>1 DEF BuildInv, JobOK, Unpacked, AllPatched, Scratched, Delivers, Ended

LEMMA UnpackInv == BuildInv /\ Unpack => BuildInv'
<1> SUFFICES ASSUME BuildInv, Unpack PROVE BuildInv'
  OBVIOUS
<1> DEFINE text == job.archive.text
<1>1. /\ stage = "unpack" /\ stage' = "patch" /\ UNCHANGED <<job, scratch, next, dist, out>>
      /\ worktree' = [m \in DOMAIN text \cup DOMAIN worktree |->
                        IF m \in DOMAIN text THEN text[m] ELSE worktree[m]]
      /\ top' \in Tops(DOMAIN worktree')
  BY DEF Unpack, Become, process
<1>2. worktree = << >> /\ JobOK /\ next = 1 /\ dist = {} /\ "root" \in scratch /\ out = NoWheel
  BY <1>1 DEF BuildInv, AllPatched, Scratched, Delivers, Ended
<1>3. worktree' = text
  <2>1. DOMAIN << >> = {}
    OBVIOUS
  <2>2. worktree' = [m \in DOMAIN text |-> text[m]]
    BY <1>1, <1>2, <2>1
  <2> QED
    BY <1>2, <2>2 DEF JobOK
<1>4. \A t : Patched(job, t, 0) = text
  BY <1>2, PatchedNone
<1>5. JobOK' /\ AllPatched' /\ Scratched' /\ Delivers'
  BY <1>1, <1>2 DEF JobOK, AllPatched, Scratched, Delivers, Ended
<1>6. Unpacked'
  <2>1. Patched(job, top, 0)' = Patched(job, top', 0)
    BY <1>1 DEF Patched, TextAfter, Touching
  <2>2. DOMAIN worktree' = ToSet(job.archive.members)
    BY <1>2, <1>3 DEF JobOK
  <2>3. Patched(job, top, next - 1)' = worktree'
    BY <1>1, <1>2, <1>3, <1>4, <2>1
  <2>4. top' \in Tops(ToSet(job.archive.members))
    BY <1>1, <2>2
  <2>5. 1 <= Len(job.patches) + 1
    BY <1>2 DEF JobOK
  <2> QED
    BY <1>1, <1>2, <2>3, <2>4, <2>5 DEF Unpacked, Tops
<1> QED
  BY <1>5, <1>6 DEF BuildInv

LEMMA ApplyPatchInv == BuildInv /\ ApplyPatch => BuildInv'
<1> SUFFICES ASSUME BuildInv, ApplyPatch PROVE BuildInv'
  OBVIOUS
<1> DEFINE p == job.patches[next]
           applies == TextOf(unpacked, p.file) = p.from
<1>1. /\ stage = "patch" /\ next <= Len(job.patches) /\ next' = next + 1
      /\ UNCHANGED <<job, scratch, top, dist, out>>
      /\ worktree' = IF applies THEN Write(worktree, <<top>> \o p.file, p.to) ELSE worktree
      /\ stage' = IF applies THEN "patch" ELSE "failed"
  BY DEF ApplyPatch, Become, process
<1> HIDE DEF applies
<1>2. CASE ~ applies
  <2>1. stage' = "failed" /\ worktree' = worktree
    BY <1>1, <1>2
  <2> QED
    BY <1>1, <2>1, EndsInv DEF Ended
<1>3. CASE applies
  <2>1. /\ next \in Nat \ {0} /\ worktree = Patched(job, top, next - 1)
        /\ top \in Tops(ToSet(job.archive.members)) /\ Len(job.patches) \in Nat
    BY <1>1 DEF BuildInv, Unpacked, JobOK
  <2>2. worktree' = Patched(job, top, next)
    BY <1>1, <1>3, <2>1, PatchedOne
  <2>3. Unpacked'
    <3>1. next' - 1 = next /\ next' \in Nat /\ next' >= 1 /\ next' <= Len(job.patches) + 1
      BY <1>1, <2>1
    <3> QED
      BY <1>1, <2>1, <2>2, <3>1 DEF Unpacked
  <2>4. JobOK' /\ AllPatched' /\ Scratched' /\ Delivers'
    BY <1>1, <1>3 DEF BuildInv, JobOK, AllPatched, Scratched, Delivers, Ended
  <2> QED
    BY <2>3, <2>4 DEF BuildInv
<1> QED
  BY <1>2, <1>3

LEMMA ChooseCommandInv == BuildInv /\ ChooseCommand => BuildInv'
<1> SUFFICES ASSUME BuildInv, ChooseCommand PROVE BuildInv'
  OBVIOUS
<1>1. /\ stage = "patch" /\ next > Len(job.patches)
      /\ UNCHANGED <<job, worktree, top, next, dist, out>>
      /\ scratch' = scratch \cup {"dist"} /\ stage' \in {"failed", "build"}
  BY DEF ChooseCommand, Become
<1>2. next = Len(job.patches) + 1 /\ dist = {} /\ "root" \in scratch /\ out = NoWheel
  BY <1>1 DEF BuildInv, Unpacked, JobOK, Scratched, Delivers, Ended
<1>3. JobOK' /\ AllPatched' /\ Scratched' /\ Delivers'
  BY <1>1, <1>2 DEF BuildInv, JobOK, AllPatched, Scratched, Delivers, Ended
<1>4. Unpacked'
  BY <1>1 DEF BuildInv, Unpacked
<1> QED
  BY <1>3, <1>4 DEF BuildInv

\* The wheels a backend leaves are of the tree it was given.
LEMMA LeaveInv ==
  ASSUME BuildInv, stage = "build", NEW tags \in SUBSET Tags, Leave(tags), stage' = "collect",
         UNCHANGED <<job, scratch, worktree, top, next, out>>
  PROVE  BuildInv'
<1>1. dist = {} /\ out = NoWheel /\ "root" \in scratch
  BY DEF BuildInv, Scratched, Delivers, Ended
<1>2. \A w \in dist' : w.tree = Under(worktree, top) /\ w.tag \in Tags
  BY <1>1 DEF Leave, unpacked
<1>3. JobOK' /\ AllPatched' /\ Scratched'
  BY <1>1 DEF BuildInv, JobOK, AllPatched, Scratched
<1>4. Delivers'
  BY <1>1, <1>2 DEF Delivers
<1>5. Unpacked'
  BY DEF BuildInv, Unpacked
<1> QED
  BY <1>3, <1>4, <1>5 DEF BuildInv

LEMMA RunBuildInv == BuildInv /\ RunBuild => BuildInv'
<1> SUFFICES ASSUME BuildInv, RunBuild PROVE BuildInv'
  OBVIOUS
<1>1. stage = "build" /\ UNCHANGED <<job, scratch, worktree, top, next, out>>
  BY DEF RunBuild, Become, work
<1>2. CASE stage' = "failed" /\ dist' = dist
  BY <1>1, <1>2, EndsInv DEF Ended
<1>3. CASE stage' = "collect" /\ \E s, t \in Tags : Leave({}) \/ Leave({s, t})
  <2>1. PICK tags \in SUBSET Tags : Leave(tags)
    BY <1>3
  <2> QED
    BY <1>1, <1>3, <2>1, LeaveInv
<1> QED
  BY <1>2, <1>3 DEF RunBuild, Become

LEMMA EndMonitoredInv == BuildInv /\ EndMonitored => BuildInv'
<1> SUFFICES ASSUME BuildInv, EndMonitored PROVE BuildInv'
  OBVIOUS
<1>1. stage = "build" /\ UNCHANGED <<job, scratch, worktree, top, next, out>>
  BY DEF EndMonitored, Become, work
<1>2. CASE stage' = "failed" /\ dist' = dist
  BY <1>1, <1>2, EndsInv DEF Ended
<1>3. CASE stage' = "collect" /\ \E t \in Tags : Leave({t})
  <2>1. PICK tags \in SUBSET Tags : Leave(tags)
    BY <1>3
  <2> QED
    BY <1>1, <1>3, <2>1, LeaveInv
<1> QED
  BY <1>2, <1>3 DEF EndMonitored, Become

LEMMA CollectInv == BuildInv /\ Collect => BuildInv'
<1> SUFFICES ASSUME BuildInv, Collect PROVE BuildInv'
  OBVIOUS
<1>1. /\ stage = "collect" /\ stage' \in {"done", "failed"} /\ dist' \in {dist, {}}
      /\ UNCHANGED <<job, scratch, worktree, top, next>>
  BY DEF Collect, Become, work
<1>2. JobOK' /\ Unpacked' /\ AllPatched' /\ Scratched' /\ Delivers'
  BY <1>1 DEF BuildInv, JobOK, Unpacked, AllPatched, Scratched, Delivers, Ended
<1> QED
  BY <1>2 DEF BuildInv

LEMMA KillInv == BuildInv /\ Kill => BuildInv'
<1> SUFFICES ASSUME BuildInv, Kill PROVE BuildInv'
  OBVIOUS
<1>1. stage' = "killed" /\ UNCHANGED <<job, scratch, worktree, dist>>
  BY DEF Kill, Become, work, process
<1> QED
  BY <1>1, EndsInv DEF Ended

LEMMA RunAgainInv == BuildInv /\ RunAgain => BuildInv'
<1> SUFFICES ASSUME BuildInv, RunAgain PROVE BuildInv'
  OBVIOUS
<1>1. /\ stage' = "root" /\ out' = NoWheel /\ next' = 1
      /\ job' \in {job, [job EXCEPT !.patches = << >>]}
      /\ \/ UNCHANGED <<scratch, worktree, dist>>
         \/ scratch' = {} /\ worktree' = << >> /\ dist' = {}
  BY DEF RunAgain
<1>2. JobOK'
  <2>1. CASE job' = job
    BY <2>1 DEF BuildInv, JobOK
  <2>2. CASE job' = [job EXCEPT !.patches = << >>]
    <3>1. job'.patches = << >> /\ job'.archive = job.archive /\ DOMAIN job' = DOMAIN job
      BY <2>2 DEF BuildInv, JobOK
    <3>2. Len(<< >>) \in Nat
      OBVIOUS
    <3> QED
      BY <3>1, <3>2 DEF BuildInv, JobOK
  <2> QED
    BY <1>1, <2>1, <2>2
<1>3. Unpacked' /\ AllPatched' /\ Scratched' /\ Delivers'
  BY <1>1 DEF BuildInv, Unpacked, AllPatched, Scratched, Delivers, Ended
<1> QED
  BY <1>2, <1>3 DEF BuildInv

LEMMA BuildInvariance == BuildSpec => []BuildInv
<1>1. BuildInv /\ [BuildNext]_buildVars => BuildInv'
  <2> SUFFICES ASSUME BuildInv, [BuildNext]_buildVars PROVE BuildInv'
    OBVIOUS
  <2>1. ASSUME UNCHANGED helperVars PROVE BuildInv'
    BY <2>1, StaysInv DEF helperVars, work, process
  <2>2. StartMonitored \/ Finished \/ UNCHANGED buildVars \/ (MonitorNext /\ UNCHANGED helperVars)
          => UNCHANGED helperVars
    BY DEF StartMonitored, Finished, buildVars
  <2> QED
    BY <2>1, <2>2, ConfigureInv, MakeRootInv, UnpackInv, ApplyPatchInv, ChooseCommandInv,
       RunBuildInv, EndMonitoredInv, CollectInv, KillInv, RunAgainInv DEF BuildNext
<1> QED
  BY <1>1, BuildInvInit, PTL DEF BuildSpec

-----------------------------------------------------------------------------
(* The promise of the action.                                              *)

LEMMA CollectDelivers ==
  ASSUME BuildInv, Collect
  PROVE  Action!Deliver \/ Action!Fail
<1>1. /\ stage = "collect" /\ job' = job /\ stage' \in {"done", "failed"}
      /\ stage' = "failed" => out' = NoWheel
      /\ stage' = "done" => Cardinality(dist) = 1 /\ out' = CHOOSE w \in dist : TRUE
  BY DEF Collect, Become
<1>2. ~ (stage \in Ended) /\ (stage \in Ended)' /\ out = NoWheel
  BY <1>1 DEF Ended, BuildInv, Delivers
<1>3. CASE stage' = "failed"
  BY <1>1, <1>2, <1>3 DEF Action!Fail
<1>4. CASE stage' = "done"
  <2>1. dist # {}
    BY <1>1, <1>4, FS_EmptySet
  <2>2. out' \in dist
    BY <1>1, <1>4, <2>1
  <2>3. out'.tree = Under(worktree, top) /\ out'.tag \in Tags
    BY <1>1, <2>2 DEF BuildInv, Delivers
  <2>4. out' # NoWheel
    BY <2>3, TagsAssumption DEF NoWheel
  <2>5. worktree = Patched(job, top, Len(job.patches)) /\ top \in Tops(ToSet(job.archive.members))
    BY <1>1 DEF BuildInv, Unpacked, AllPatched, JobOK
  <2>6. OwnWheel(job, out')
    BY <2>3, <2>5 DEF OwnWheel
  <2> QED
    BY <1>1, <1>2, <2>4, <2>6 DEF Action!Deliver
<1> QED
  BY <1>1, <1>3, <1>4

\* Every other step leaves the output alone, and ends the action or not.
LEMMA OtherStepFails ==
  ASSUME stage \notin Ended, UNCHANGED <<job, out>>
  PROVE  Action!Fail \/ UNCHANGED <<job, out, stage \in Ended>>
BY DEF Action!Fail

LEMMA RunAgainIsAgain ==
  ASSUME RunAgain
  PROVE  Action!Again
BY DEF RunAgain, Action!Again, Ended

\* The build delivers a wheel at once and whole, made from its own archive and
\* all of its patches, for any archives and patches and whatever attempts were
\* killed before with their scratch directory left in place
\* (build_helper.py's main).
THEOREM BuildImplementsAction == BuildSpec => ActionSpec
<1>1. BuildInit => Action!Init
  BY DEF BuildInit, Action!Init, Ended
<1>2. BuildInv /\ [BuildNext]_buildVars => [Action!Next]_<<job, out, stage \in Ended>>
  <2> SUFFICES ASSUME BuildInv, [BuildNext]_buildVars
               PROVE  Action!Next \/ UNCHANGED <<job, out, stage \in Ended>>
    OBVIOUS
  <2>1. ASSUME UNCHANGED <<job, out, stage>>
        PROVE  UNCHANGED <<job, out, stage \in Ended>>
    BY <2>1
  <2>2. ASSUME \/ Configure \/ MakeRoot \/ Unpack \/ ApplyPatch \/ ChooseCommand \/ RunBuild
               \/ EndMonitored \/ Kill
        PROVE  Action!Next \/ UNCHANGED <<job, out, stage \in Ended>>
    <3>1. stage \notin Ended /\ UNCHANGED <<job, out>>
      BY <2>2 DEF Configure, MakeRoot, Unpack, ApplyPatch, ChooseCommand, RunBuild,
                  EndMonitored, Kill, Become, process, Ended
    <3> QED
      BY <3>1, OtherStepFails DEF Action!Next
  <2>3. ASSUME \/ StartMonitored \/ Finished \/ UNCHANGED buildVars
               \/ MonitorNext /\ UNCHANGED helperVars
        PROVE  UNCHANGED <<job, out, stage>>
    BY <2>3 DEF StartMonitored, Finished, buildVars, helperVars
  <2> QED
    BY <2>1, <2>2, <2>3, CollectDelivers, RunAgainIsAgain DEF BuildNext, Action!Next
<1> QED
  BY <1>1, <1>2, BuildInvariance, PTL DEF BuildSpec, ActionSpec, Action!Spec

-----------------------------------------------------------------------------
(* The reports of the monitor.                                             *)

\* The next report is due one step after the last one, and the peak has not
\* come that far.
ReportsTypes ==
  /\ total \in Nat /\ peak \in Nat \cup {NoPeak} /\ nextReport \in Nat
  /\ reports \in Seq(Nat) /\ at \in Pid /\ pending \in Seq(Pid)
Due ==
  IF reports = << >> THEN nextReport = 0 /\ peak = NoPeak
  ELSE /\ nextReport = nextStep(Last(reports))
       /\ Last(reports) <= peak /\ peak < nextReport
Rising == \A i \in 2 .. Len(reports) : reports[i] \div Step > reports[i - 1] \div Step
ReportsInv == ReportsTypes /\ Due /\ Rising

LEMMA StepBounds ==
  ASSUME NEW a \in Nat
  PROVE  /\ a \div Step \in Nat /\ nextStep(a) \in Nat
         /\ a < nextStep(a)
         /\ \A b \in Nat : b < nextStep(a) /\ a <= b => b \div Step = a \div Step
         /\ \A b \in Nat : b >= nextStep(a) => b \div Step > a \div Step
BY StepAssumption DEF nextStep

LEMMA ListedChildren ==
  ASSUME NEW S, IsFiniteSet(S)
  PROVE  SetToSeq(S) \in Seq(S) /\ ToSet(SetToSeq(S)) = S
<1> DEFINE k == Cardinality(S)
           l == SetToSeq(S)
<1>1. k \in Nat /\ ExistsBijection(1 .. k, S)
  BY FS_CardinalityType
<1>2. \E f \in [1 .. k -> S] : IsInjective(f)
  BY <1>1, Zenon DEF ExistsBijection, Bijection, Injection
<1>3. l \in [1 .. k -> S] /\ IsInjective(l)
  BY <1>2, Zenon DEF SetToSeq
<1>4. l \in Surjection(1 .. k, S)
  <2>1. l \in Injection(1 .. k, S)
    BY <1>3, Zenon DEF Injection
  <2>2. Cardinality(1 .. k) = k
    BY <1>1, FS_Interval
  <2> HIDE DEF l
  <2> QED
    BY <2>1, <2>2, FS_Injection
<1>5. ToSet(l) = S
  BY <1>3, <1>4 DEF ToSet, Surjection
<1> QED
  BY <1>1, <1>3, <1>5

LEMMA ReportsInit == BuildInit => ReportsInv
BY RootAssumption DEF BuildInit, MonitorInit, ReportsInv, ReportsTypes, Due, Rising, NoPeak

LEMMA EndSampleReports == ReportsInv /\ EndSample => ReportsInv'
<1> SUFFICES ASSUME ReportsInv, EndSample PROVE ReportsInv'
  OBVIOUS
<1>1. UNCHANGED <<total, at, pending>>
  BY DEF EndSample, sample
<1>2. CASE UNCHANGED memory
  BY <1>1, <1>2 DEF memory, ReportsInv, ReportsTypes, Due, Rising
<1>3. CASE /\ peak' = IF total > peak THEN total ELSE peak
           /\ ~ (peak' >= nextReport) /\ UNCHANGED <<nextReport, reports>>
  <2>1. peak' \in Nat /\ peak' >= peak /\ peak' < nextReport
    BY <1>3 DEF ReportsInv, ReportsTypes, NoPeak
  <2>2. reports # << >>
    BY <2>1 DEF ReportsInv, Due
  <2>3. Last(reports) \in Nat
    BY <2>2 DEF ReportsInv, ReportsTypes, Last
  <2>4. peak \in Nat \cup {NoPeak} /\ NoPeak \in Int /\ Last(reports) <= peak
        /\ nextReport = nextStep(Last(reports)) /\ nextReport \in Nat
    BY <2>2 DEF ReportsInv, ReportsTypes, Due, NoPeak
  <2>5. Due'
    BY <1>3, <2>1, <2>2, <2>3, <2>4 DEF Due, NoPeak
  <2>6. ReportsTypes' /\ Rising'
    BY <1>1, <1>3, <2>1 DEF ReportsInv, ReportsTypes, Rising
  <2> QED
    BY <2>5, <2>6 DEF ReportsInv
<1>4. CASE /\ peak' = IF total > peak THEN total ELSE peak
           /\ peak' >= nextReport
           /\ reports' = Append(reports, peak') /\ nextReport' = nextStep(peak')
  <2>1. peak' \in Nat /\ reports \in Seq(Nat)
    BY <1>4 DEF ReportsInv, ReportsTypes, NoPeak
  <2>2. /\ reports' \in Seq(Nat) /\ Len(reports') = Len(reports) + 1 /\ Len(reports) \in Nat
        /\ reports'[Len(reports) + 1] = peak'
        /\ \A i \in 1 .. Len(reports) : reports'[i] = reports[i]
    BY <1>4, <2>1
  <2>3. Last(reports') = peak' /\ reports' # << >>
    BY <2>2 DEF Last
  <2>4. nextReport' \in Nat /\ peak' < nextReport'
    BY <1>4, <2>1, StepBounds
  <2>5. Due' /\ ReportsTypes'
    BY <1>1, <1>4, <2>1, <2>2, <2>3, <2>4 DEF Due, ReportsTypes, ReportsInv
  <2>6. ASSUME NEW i \in 2 .. Len(reports')
        PROVE  reports'[i] \div Step > reports'[i - 1] \div Step
    <3>1. CASE i <= Len(reports)
      BY <2>2, <3>1 DEF ReportsInv, Rising
    <3>2. CASE i = Len(reports) + 1
      <4>1. /\ reports # << >> /\ Len(reports) >= 1 /\ i - 1 = Len(reports)
            /\ Last(reports) = reports[Len(reports)] /\ Last(reports) \in Nat
        <5>1. i - 1 = Len(reports) /\ Len(reports) >= 1
          BY <2>2, <2>6, <3>2
        <5> QED
          BY <2>1, <5>1 DEF Last
      <4>4. reports'[i - 1] = Last(reports) /\ reports'[i] = peak'
        BY <2>2, <3>2, <4>1
      <4>2. peak' >= nextStep(Last(reports))
        BY <1>4, <4>1 DEF ReportsInv, Due
      <4>3. peak' \div Step > Last(reports) \div Step
        BY <2>1, <4>1, <4>2, StepBounds
      <4> QED
        BY <4>3, <4>4
    <3> QED
      BY <2>2, <2>6, <3>1, <3>2
  <2> QED
    BY <2>5, <2>6 DEF ReportsInv, Rising
<1> QED
  BY <1>2, <1>3, <1>4 DEF EndSample, memory

LEMMA MonitorReports == ReportsInv /\ Monitor => ReportsInv'
<1> SUFFICES ASSUME ReportsInv, Monitor PROVE ReportsInv'
  OBVIOUS
<1>1. ASSUME UNCHANGED memory, ReportsTypes' PROVE ReportsInv'
  BY <1>1 DEF memory, ReportsInv, Due, Rising
<1>2. ASSUME Pop PROVE ReportsInv'
  <2>1. pending # << >> /\ pending' = Front(pending) /\ at' \in {at, Last(pending)}
        /\ UNCHANGED <<total, memory>>
    BY <1>2 DEF Pop
  <2>2. Front(pending) \in Seq(Pid) /\ Last(pending) \in Pid
    BY <2>1 DEF ReportsInv, ReportsTypes, Front, Last
  <2> QED
    BY <1>1, <2>1, <2>2 DEF ReportsInv, ReportsTypes, memory
<1>3. ASSUME ReadStatm PROVE ReportsInv'
  <2>1. /\ total' \in {total, total + Rss[at], total + 0}
        /\ UNCHANGED <<at, pending, memory>>
    BY <1>3 DEF ReadStatm
  <2>2. Rss[at] \in Nat /\ total \in Nat
    BY RssAssumption DEF ReportsInv, ReportsTypes
  <2>3. total' \in Nat
    BY <2>1, <2>2
  <2> QED
    BY <1>1, <2>1, <2>3 DEF ReportsInv, ReportsTypes, memory
<1>4. ASSUME NEW t \in left, ReadChildren(t) PROVE ReportsInv'
  <2>1. (pending' = pending \/ pending' = pending \o SetToSeq(Children(at, t)))
        /\ UNCHANGED <<at, total, memory>>
    BY <1>4 DEF ReadChildren
  <2>2. Children(at, t) \subseteq Pid /\ IsFiniteSet(Children(at, t))
    BY RootAssumption, FS_Subset DEF Children
  <2>3. SetToSeq(Children(at, t)) \in Seq(Pid)
    BY <2>2, ListedChildren
  <2>4. pending' \in Seq(Pid)
    <3>1. \A x \in Seq(Pid) : pending \o x \in Seq(Pid)
      BY DEF ReportsInv, ReportsTypes
    <3> QED
      BY <2>1, <2>3, <3>1 DEF ReportsInv, ReportsTypes
  <2> QED
    BY <1>1, <2>1, <2>4 DEF ReportsInv, ReportsTypes, memory
<1>5. ASSUME ListTasks \/ EndTasks PROVE ReportsInv'
  <2>1. UNCHANGED <<at, total, pending, memory>>
    BY <1>5 DEF ListTasks, EndTasks, sample
  <2> QED
    BY <1>1, <2>1 DEF ReportsInv, ReportsTypes, memory
<1>6. ASSUME Poll PROVE ReportsInv'
  <2>1. at' = at /\ (total' = total \/ total' = 0) /\ (pending' = pending \/ pending' = <<Root>>)
        /\ UNCHANGED memory
    BY <1>6 DEF Poll, sample
  <2>2. <<Root>> \in Seq(Pid)
    BY RootAssumption
  <2>3. pending' \in Seq(Pid)
    <3>1. pending \in Seq(Pid)
      BY DEF ReportsInv, ReportsTypes
    <3> QED
      BY <2>1, <2>2, <3>1
  <2>4. total' \in Nat /\ at' \in Pid
    BY <2>1 DEF ReportsInv, ReportsTypes
  <2> QED
    BY <1>1, <2>1, <2>3, <2>4 DEF ReportsInv, ReportsTypes, memory
<1> QED
  BY <1>2, <1>3, <1>4, <1>5, <1>6, EndSampleReports DEF Monitor

LEMMA ReportsInvariance == BuildSpec => []ReportsInv
<1>1. ReportsInv /\ [BuildNext]_buildVars => ReportsInv'
  <2> SUFFICES ASSUME ReportsInv, [BuildNext]_buildVars PROVE ReportsInv'
    OBVIOUS
  <2>1. ASSUME UNCHANGED <<sample, memory>> PROVE ReportsInv'
    BY <2>1 DEF sample, memory, ReportsInv, ReportsTypes, Due, Rising
  <2>2. ASSUME \/ Configure \/ MakeRoot \/ Unpack \/ ApplyPatch \/ ChooseCommand \/ RunBuild
               \/ EndMonitored \/ Collect \/ Kill \/ RunAgain \/ Finished \/ UNCHANGED buildVars
        PROVE  UNCHANGED <<sample, memory>>
    <3>1. UNCHANGED monitorVars
      BY <2>2 DEF Configure, MakeRoot, Unpack, ApplyPatch, ChooseCommand, RunBuild, EndMonitored,
                  Collect, Kill, RunAgain, Finished, Become, buildVars
    <3> QED
      BY <3>1 DEF monitorVars
  <2>3. ASSUME StartMonitored \/ Tree PROVE UNCHANGED <<sample, memory>>
    BY <2>3 DEF StartMonitored, Launch, Tree, StartThread, EndThread, Fork, Exit, Reap, Disturb
  <2> QED
    BY <2>1, <2>2, <2>3, MonitorReports DEF BuildNext, MonitorNext
<1> QED
  BY <1>1, ReportsInit, PTL DEF BuildSpec

\* The monitor prints one report for each step of memory that the peak enters,
\* for any tree of processes, sizes and step (memory_monitor.py's
\* run_with_memory_monitor).
THEOREM OneReportPerStepCorrect == BuildSpec => []OneReportPerStep
<1>1. ASSUME ReportsInv, peak # NoPeak
      PROVE  reports # << >> /\ Last(reports) \div Step = peak \div Step
  <2>1. reports # << >> /\ peak \in Nat
    BY <1>1 DEF ReportsInv, ReportsTypes, Due
  <2>2. Last(reports) \in Nat
    BY <1>1, <2>1 DEF ReportsInv, ReportsTypes, Last
  <2>3. Last(reports) <= peak /\ peak < nextStep(Last(reports))
    BY <1>1, <2>1 DEF ReportsInv, Due
  <2> QED
    BY <2>1, <2>2, <2>3, StepBounds
<1>2. ReportsInv => OneReportPerStep
  BY <1>1 DEF ReportsInv, Rising, OneReportPerStep
<1> QED
  BY <1>2, ReportsInvariance, PTL

-----------------------------------------------------------------------------
(* A sample while the tree stands still.                                   *)

\* A process that is listed under another one is a child of one of the other's
\* threads, and the other is alive.
TreeOK ==
  /\ life \in [Pid -> {"unborn", "alive", "zombie", "gone"}]
  /\ tasks \in [Pid -> SUBSET Task]
  /\ parent \in [Pid -> (Pid \cup {Outside}) \X Task]
  /\ \A c \in Pid : Listed(c) /\ parent[c][1] \in Pid =>
       life[parent[c][1]] = "alive" /\ parent[c][2] \in tasks[parent[c][1]]

\* The children still to be read of the process being looked at.
ToRead(c) ==
  /\ parent[c][1] = at
  /\ pc \in {"statm", "tasks"} \/ (pc = "children" /\ parent[c][2] \in left)

\* What was found is of the tree, and leads nowhere else but to what is read next.
Found == seen \cup ToSet(pending)
Sampled ==
  /\ Root \in Found
  /\ Found \subseteq Descendants
  /\ \A c \in Pid : Listed(c) /\ parent[c][1] \in seen /\ ~ ToRead(c) => c \in Found
  /\ pc \in {"statm", "tasks", "children"} => at \in seen
  /\ pc = "poll" => pending = << >>
QuietSampled == quiet /\ pc # "done" => Sampled

LEMMA RootDescends == Root \in Descendants /\ Descendants \subseteq Pid
BY RootAssumption DEF Descendants

LEMMA ChildDescends ==
  ASSUME NEW c \in Pid, Listed(c), parent[c][1] \in Descendants
  PROVE  c \in Descendants
BY DEF Descendants

LEMMA DescendantsLeast ==
  ASSUME NEW S \in SUBSET Pid, Root \in S,
         \A c \in Pid : Listed(c) /\ parent[c][1] \in S => c \in S
  PROVE  Descendants \subseteq S
BY DEF Descendants

LEMMA TreeStays ==
  ASSUME UNCHANGED <<life, parent>>
  PROVE  UNCHANGED Descendants /\ \A c : UNCHANGED Listed(c)
BY DEF Descendants, Listed

LEMMA PopTakesLast ==
  ASSUME NEW s \in Seq(Pid), s # << >>
  PROVE  ToSet(s) = ToSet(Front(s)) \cup {Last(s)}
<1>1. Len(s) \in Nat \ {0} /\ DOMAIN s = 1 .. Len(s)
  BY EmptySeq, LenProperties
<1>2. /\ Front(s) \in Seq(Pid) /\ Len(Front(s)) = Len(s) - 1
      /\ \A i \in 1 .. Len(s) - 1 : Front(s)[i] = s[i]
  BY <1>1 DEF Front
<1>3. DOMAIN Front(s) = 1 .. Len(s) - 1
  BY <1>2, LenProperties
<1>4. 1 .. Len(s) = (1 .. Len(s) - 1) \cup {Len(s)}
  BY <1>1
<1> QED
  BY <1>1, <1>2, <1>3, <1>4 DEF ToSet, Last

LEMMA AppendedBoth ==
  ASSUME NEW s \in Seq(Pid), NEW t \in Seq(Pid)
  PROVE  ToSet(s \o t) = ToSet(s) \cup ToSet(t)
<1>1. Len(s) \in Nat /\ Len(t) \in Nat /\ DOMAIN s = 1 .. Len(s) /\ DOMAIN t = 1 .. Len(t)
  BY LenProperties
<1>2. /\ DOMAIN (s \o t) = 1 .. Len(s) + Len(t)
      /\ \A i \in 1 .. Len(s) + Len(t) : (s \o t)[i] = IF i <= Len(s) THEN s[i] ELSE t[i - Len(s)]
  BY ConcatProperties, LenProperties
<1>3. \A i \in 1 .. Len(t) : Len(s) + i \in 1 .. Len(s) + Len(t) /\ (s \o t)[Len(s) + i] = t[i]
  BY <1>1, <1>2
<1>4. \A i \in 1 .. Len(s) : i \in 1 .. Len(s) + Len(t) /\ (s \o t)[i] = s[i]
  BY <1>1, <1>2
<1>5. \A i \in 1 .. Len(s) + Len(t) : (s \o t)[i] \in ToSet(s) \cup ToSet(t)
  <2> TAKE i \in 1 .. Len(s) + Len(t)
  <2>1. CASE i <= Len(s)
    <3>1. i \in 1 .. Len(s)
      BY <1>1, <2>1
    <3>2. (s \o t)[i] = s[i]
      BY <1>4, <3>1
    <3> QED
      BY <1>1, <3>1, <3>2 DEF ToSet
  <2>2. CASE ~ i <= Len(s)
    <3>1. i - Len(s) \in 1 .. Len(t)
      BY <1>1, <2>2
    <3>2. (s \o t)[i] = t[i - Len(s)]
      BY <1>2, <2>2
    <3> QED
      BY <1>1, <3>1, <3>2 DEF ToSet
  <2> QED
    BY <2>1, <2>2
<1>6. ToSet(s \o t) \subseteq ToSet(s) \cup ToSet(t)
  BY <1>2, <1>5 DEF ToSet
<1>7. ASSUME NEW x \in ToSet(s) PROVE x \in ToSet(s \o t)
  <2>1. PICK i \in 1 .. Len(s) : x = s[i]
    BY <1>1 DEF ToSet
  <2> QED
    BY <1>2, <1>4, <2>1 DEF ToSet
<1>8. ASSUME NEW x \in ToSet(t) PROVE x \in ToSet(s \o t)
  <2>1. PICK i \in 1 .. Len(t) : x = t[i]
    BY <1>1 DEF ToSet
  <2> QED
    BY <1>2, <1>3, <2>1 DEF ToSet
<1> QED
  BY <1>6, <1>7, <1>8

-----------------------------------------------------------------------------
(* The tree's own steps.                                                   *)

LEMMA TreeInit == BuildInit => TreeOK /\ QuietSampled
<1> SUFFICES ASSUME BuildInit PROVE TreeOK /\ QuietSampled
  OBVIOUS
<1>1. TreeOK
  BY RootAssumption, TaskAssumption, OutsideAssumption DEF BuildInit, MonitorInit, TreeOK, Listed
<1>2. seen = {} /\ pending = <<Root>> /\ pc = "off"
  BY DEF BuildInit, MonitorInit
<1>3. ToSet(<<Root>>) = {Root}
  BY DEF ToSet
<1> QED
  BY <1>1, <1>2, <1>3, RootDescends DEF QuietSampled, Sampled, Found

LEMMA TreeSteps == TreeOK /\ Tree => TreeOK' /\ QuietSampled'
<1> SUFFICES ASSUME TreeOK, NEW p \in Pid,
                    \/ \E t \in Task : StartThread(p, t) \/ EndThread(p, t) \/ \E c \in Pid : Fork(p, t, c)
                    \/ Exit(p) \/ Reap(p)
             PROVE  TreeOK' /\ QuietSampled'
  BY DEF Tree
<1>1. QuietSampled'
  BY DEF StartThread, EndThread, Fork, Exit, Reap, Disturb, QuietSampled
<1>2. ASSUME NEW t \in Task, StartThread(p, t) PROVE TreeOK'
  <2>1. tasks' = [tasks EXCEPT ![p] = @ \cup {t}] /\ UNCHANGED <<life, parent>>
    BY <1>2 DEF StartThread
  <2>2. tasks' \in [Pid -> SUBSET Task] /\ \A q \in Pid : tasks[q] \subseteq tasks'[q]
    BY <2>1 DEF TreeOK
  <2> QED
    BY <2>1, <2>2 DEF TreeOK, Listed
<1>3. ASSUME NEW t \in Task, EndThread(p, t) PROVE TreeOK'
  <2>1. PICK heir \in tasks[p] \ {t} :
          parent' = [c \in Pid |-> IF parent[c] = <<p, t>> THEN <<p, heir>> ELSE parent[c]]
    BY <1>3 DEF EndThread
  <2>2. tasks' = [tasks EXCEPT ![p] = @ \ {t}] /\ UNCHANGED life /\ life[p] = "alive"
    BY <1>3 DEF EndThread
  <2>3. heir \in Task /\ tasks' \in [Pid -> SUBSET Task]
    BY <2>2 DEF TreeOK
  <2>4. parent' \in [Pid -> (Pid \cup {Outside}) \X Task]
    BY <2>1, <2>3 DEF TreeOK
  <2>5. ASSUME NEW c \in Pid, Listed(c)', parent'[c][1] \in Pid
        PROVE  life'[parent'[c][1]] = "alive" /\ parent'[c][2] \in tasks'[parent'[c][1]]
    <3>1. Listed(c)
      BY <2>2, <2>5 DEF Listed
    <3>2. CASE parent[c] = <<p, t>>
      <4>1. parent'[c] = <<p, heir>>
        BY <2>1, <3>2
      <4> QED
        BY <2>1, <2>2, <4>1 DEF TreeOK
    <3>3. CASE parent[c] # <<p, t>>
      <4>1. parent'[c] = parent[c] /\ (parent[c][1] # p \/ parent[c][2] # t)
        BY <2>1, <3>3 DEF TreeOK
      <4> QED
        BY <2>2, <2>5, <3>1, <4>1 DEF TreeOK
    <3> QED
      BY <3>2, <3>3
  <2> QED
    BY <2>2, <2>3, <2>4, <2>5 DEF TreeOK
<1>4. ASSUME NEW t \in Task, NEW c \in Pid, Fork(p, t, c) PROVE TreeOK'
  <2>1. /\ life[p] = "alive" /\ t \in tasks[p] /\ life[c] = "unborn"
        /\ life' = [life EXCEPT ![c] = "alive"] /\ tasks' = [tasks EXCEPT ![c] = {Main}]
        /\ parent' = [parent EXCEPT ![c] = <<p, t>>]
    BY <1>4 DEF Fork
  <2>2. /\ life' \in [Pid -> {"unborn", "alive", "zombie", "gone"}]
        /\ tasks' \in [Pid -> SUBSET Task]
        /\ parent' \in [Pid -> (Pid \cup {Outside}) \X Task]
    BY <2>1, TaskAssumption DEF TreeOK
  <2>3. ASSUME NEW d \in Pid, Listed(d)', parent'[d][1] \in Pid
        PROVE  life'[parent'[d][1]] = "alive" /\ parent'[d][2] \in tasks'[parent'[d][1]]
    <3>1. CASE d = c
      <4>1. parent'[d] = <<p, t>> /\ p # c
        BY <2>1, <3>1 DEF TreeOK
      <4> QED
        BY <2>1, <4>1 DEF TreeOK
    <3>2. CASE d # c
      <4>1. parent'[d] = parent[d] /\ Listed(d)
        BY <2>1, <2>3, <3>2 DEF TreeOK, Listed
      <4>2. life[parent[d][1]] = "alive" /\ parent[d][2] \in tasks[parent[d][1]]
        BY <2>3, <4>1 DEF TreeOK
      <4> QED
        BY <2>1, <2>3, <4>1, <4>2 DEF TreeOK
    <3> QED
      BY <3>1, <3>2
  <2> QED
    BY <2>2, <2>3 DEF TreeOK
<1>5. ASSUME Exit(p) PROVE TreeOK'
  <2>1. /\ life' = [life EXCEPT ![p] = "zombie"] /\ tasks' = [tasks EXCEPT ![p] = {Main}]
        /\ parent' = [c \in Pid |-> IF parent[c][1] = p THEN <<Outside, Main>> ELSE parent[c]]
        /\ life[p] = "alive"
    BY <1>5 DEF Exit
  <2>2. /\ life' \in [Pid -> {"unborn", "alive", "zombie", "gone"}]
        /\ tasks' \in [Pid -> SUBSET Task]
        /\ parent' \in [Pid -> (Pid \cup {Outside}) \X Task]
    BY <2>1, TaskAssumption DEF TreeOK
  <2>3. ASSUME NEW c \in Pid, Listed(c)', parent'[c][1] \in Pid
        PROVE  life'[parent'[c][1]] = "alive" /\ parent'[c][2] \in tasks'[parent'[c][1]]
    <3>1. parent'[c] = parent[c] /\ parent[c][1] # p
      BY <2>1, <2>3, OutsideAssumption
    <3>2. Listed(c)
      BY <2>1, <2>3 DEF TreeOK, Listed
    <3> QED
      BY <2>1, <2>3, <3>1, <3>2 DEF TreeOK
  <2> QED
    BY <2>2, <2>3 DEF TreeOK
<1>6. ASSUME Reap(p) PROVE TreeOK'
  <2>1. life' = [life EXCEPT ![p] = "gone"] /\ UNCHANGED <<tasks, parent>> /\ life[p] = "zombie"
    BY <1>6 DEF Reap
  <2> QED
    BY <2>1 DEF TreeOK, Listed
<1> QED
  BY <1>1, <1>2, <1>3, <1>4, <1>5, <1>6

-----------------------------------------------------------------------------
(* The reads of the monitor.                                               *)

\* A read leaves the tree alone.
LEMMA ReadKeepsTree ==
  ASSUME TreeOK, UNCHANGED <<life, tasks, parent>>
  PROVE  TreeOK'
BY DEF TreeOK, Listed

LEMMA PopSamples == ReportsInv /\ TreeOK /\ QuietSampled /\ Pop => TreeOK' /\ QuietSampled'
<1> SUFFICES ASSUME ReportsInv, TreeOK, QuietSampled, Pop PROVE TreeOK' /\ QuietSampled'
  OBVIOUS
<1>1. /\ pc = "pop" /\ pending # << >> /\ pending' = Front(pending)
      /\ UNCHANGED <<life, tasks, parent, quiet>>
  BY DEF Pop, Goto, tree
<1>2. \/ Last(pending) \in seen /\ pc' = "pop" /\ UNCHANGED <<seen, at>>
      \/ at' = Last(pending) /\ seen' = seen \cup {Last(pending)} /\ pc' = "statm"
  BY DEF Pop, Goto
<1>3. UNCHANGED Found
  <2>1. ToSet(pending) = ToSet(pending') \cup {Last(pending)}
    BY <1>1, PopTakesLast DEF ReportsInv, ReportsTypes
  <2> QED
    BY <1>2, <2>1 DEF Found
<1>4. UNCHANGED Descendants /\ \A c : UNCHANGED Listed(c)
  BY <1>1, TreeStays
<1>5. \A c : ~ ToRead(c)
  BY <1>1 DEF ToRead
<1>6. QuietSampled'
  <2>1. ASSUME Sampled, NEW c \in Pid, Listed(c), parent[c][1] \in seen', ~ ToRead(c)'
        PROVE  c \in Found
    <3>1. CASE parent[c][1] \in seen
      BY <1>5, <2>1, <3>1 DEF Sampled
    <3>2. CASE parent[c][1] \notin seen
      BY <1>1, <1>2, <2>1, <3>2 DEF ToRead
    <3> QED
      BY <3>1, <3>2
  <2>2. Sampled => Sampled'
    BY <1>1, <1>2, <1>3, <1>4, <2>1 DEF Sampled
  <2> QED
    BY <1>1, <1>2, <2>2 DEF QuietSampled
<1> QED
  BY <1>1, <1>6, ReadKeepsTree

LEMMA StatmSamples == TreeOK /\ QuietSampled /\ ReadStatm => TreeOK' /\ QuietSampled'
<1> SUFFICES ASSUME TreeOK, QuietSampled, ReadStatm PROVE TreeOK' /\ QuietSampled'
  OBVIOUS
<1>1. /\ pc = "statm" /\ pc' = "tasks" /\ UNCHANGED <<pending, seen, at, left>>
      /\ UNCHANGED <<life, tasks, parent, quiet>>
  BY DEF ReadStatm, Goto, tree
<1>2. UNCHANGED Descendants /\ \A c : UNCHANGED Listed(c)
  BY <1>1, TreeStays
<1>3. \A c : ToRead(c)' = ToRead(c)
  BY <1>1 DEF ToRead
<1>4. Sampled => Sampled'
  BY <1>1, <1>2, <1>3 DEF Sampled, Found
<1> QED
  BY <1>1, <1>4, ReadKeepsTree DEF QuietSampled

LEMMA ListSamples == TreeOK /\ QuietSampled /\ ListTasks => TreeOK' /\ QuietSampled'
<1> SUFFICES ASSUME TreeOK, QuietSampled, ListTasks PROVE TreeOK' /\ QuietSampled'
  OBVIOUS
<1>1. /\ pc = "tasks" /\ pc' = "children" /\ UNCHANGED <<pending, seen, at>>
      /\ left' = IF Listed(at) THEN tasks[at] ELSE {}
      /\ UNCHANGED <<life, tasks, parent, quiet>>
  BY DEF ListTasks, Goto, tree
<1>2. UNCHANGED Descendants /\ \A c : UNCHANGED Listed(c)
  BY <1>1, TreeStays
<1>3. ASSUME Sampled, NEW c \in Pid, Listed(c), ToRead(c) PROVE ToRead(c)'
  <2>1. parent[c][1] = at /\ at \in Pid
    BY <1>1, <1>3, RootDescends DEF ToRead, Sampled, Found
  <2>2. life[at] = "alive" /\ parent[c][2] \in tasks[at]
    BY <1>3, <2>1 DEF TreeOK
  <2> QED
    BY <1>1, <2>1, <2>2 DEF ToRead, Listed
<1>4. Sampled => Sampled'
  BY <1>1, <1>2, <1>3 DEF Sampled, Found
<1> QED
  BY <1>1, <1>4, ReadKeepsTree DEF QuietSampled

LEMMA ChildrenSamples ==
  ASSUME ReportsInv, TreeOK, QuietSampled, NEW t \in left, ReadChildren(t)
  PROVE  TreeOK' /\ QuietSampled'
<1> DEFINE kids == IF Listed(at) /\ t \in tasks[at] THEN Children(at, t) ELSE {}
<1>1. /\ pc = "children" /\ pc' = "children" /\ UNCHANGED <<seen, at>> /\ left' = left \ {t}
      /\ pending' = IF Listed(at) /\ t \in tasks[at] THEN pending \o SetToSeq(Children(at, t))
                    ELSE pending
      /\ UNCHANGED <<life, tasks, parent, quiet>>
  BY DEF ReadChildren, Goto, tree
<1>2. UNCHANGED Descendants /\ \A c : UNCHANGED Listed(c)
  BY <1>1, TreeStays
<1>3. Found' = Found \cup kids
  <2>1. Children(at, t) \subseteq Pid /\ IsFiniteSet(Children(at, t))
    BY RootAssumption, FS_Subset DEF Children
  <2>2. /\ SetToSeq(Children(at, t)) \in Seq(Children(at, t))
        /\ ToSet(SetToSeq(Children(at, t))) = Children(at, t)
    BY <2>1, ListedChildren
  <2>3. SetToSeq(Children(at, t)) \in Seq(Pid)
    BY <2>1, <2>2, SeqMonotonic
  <2>4. ToSet(pending \o SetToSeq(Children(at, t))) = ToSet(pending) \cup Children(at, t)
    BY <2>2, <2>3, AppendedBoth DEF ReportsInv, ReportsTypes
  <2> QED
    BY <1>1, <2>4 DEF Found
<1>4. ASSUME Sampled, NEW c \in kids PROVE c \in Descendants
  <2>1. c \in Pid /\ Listed(c) /\ parent[c] = <<at, t>>
    BY DEF Children
  <2>2. parent[c][1] \in Descendants
    BY <1>1, <1>4, <2>1 DEF Sampled, Found
  <2> QED
    BY <2>1, <2>2, ChildDescends
<1>5. ASSUME Sampled, NEW c \in Pid, Listed(c), ToRead(c), ~ ToRead(c)' PROVE c \in kids
  <2>1. parent[c][1] = at /\ parent[c][2] = t /\ at \in Pid
    BY <1>1, <1>5, RootDescends DEF ToRead, Sampled, Found
  <2>2. parent[c] = <<at, t>>
    BY <2>1 DEF TreeOK
  <2>3. life[at] = "alive" /\ t \in tasks[at]
    BY <1>5, <2>1 DEF TreeOK
  <2> QED
    BY <1>5, <2>2, <2>3 DEF Children, Listed
<1> HIDE DEF kids
<1>6. Sampled => Sampled'
  BY <1>1, <1>2, <1>3, <1>4, <1>5 DEF Sampled
<1> QED
  BY <1>1, <1>6, ReadKeepsTree DEF QuietSampled

LEMMA EndTasksSamples == TreeOK /\ QuietSampled /\ EndTasks => TreeOK' /\ QuietSampled'
<1> SUFFICES ASSUME TreeOK, QuietSampled, EndTasks PROVE TreeOK' /\ QuietSampled'
  OBVIOUS
<1>1. /\ pc = "children" /\ left = {} /\ pc' = "pop" /\ UNCHANGED <<pending, seen, at, left>>
      /\ UNCHANGED <<life, tasks, parent, quiet>>
  BY DEF EndTasks, Goto, tree, sample
<1>2. UNCHANGED Descendants /\ \A c : UNCHANGED Listed(c)
  BY <1>1, TreeStays
<1>3. \A c : ~ ToRead(c)
  BY <1>1 DEF ToRead
<1>4. Sampled => Sampled'
  BY <1>1, <1>2, <1>3 DEF Sampled, Found
<1> QED
  BY <1>1, <1>4, ReadKeepsTree DEF QuietSampled

LEMMA EndSampleSamples == TreeOK /\ QuietSampled /\ EndSample => TreeOK' /\ QuietSampled'
<1> SUFFICES ASSUME TreeOK, QuietSampled, EndSample PROVE TreeOK' /\ QuietSampled'
  OBVIOUS
<1>1. /\ pc = "pop" /\ pending = << >> /\ pc' = "poll" /\ UNCHANGED <<pending, seen, at, left>>
      /\ UNCHANGED <<life, tasks, parent, quiet>>
  BY DEF EndSample, Goto, tree, sample
<1>2. UNCHANGED Descendants /\ \A c : UNCHANGED Listed(c)
  BY <1>1, TreeStays
<1>3. \A c : ~ ToRead(c)
  BY <1>1 DEF ToRead
<1>4. Sampled => Sampled'
  BY <1>1, <1>2, <1>3 DEF Sampled, Found
<1> QED
  BY <1>1, <1>4, ReadKeepsTree DEF QuietSampled

LEMMA PollSamples == TreeOK /\ QuietSampled /\ Poll => TreeOK' /\ QuietSampled'
<1> SUFFICES ASSUME TreeOK, QuietSampled, Poll PROVE TreeOK' /\ QuietSampled'
  OBVIOUS
<1>1. CASE life[Root] = "zombie"
  <2>1. life' = [life EXCEPT ![Root] = "gone"] /\ pc' = "done" /\ UNCHANGED <<tasks, parent>>
    BY <1>1 DEF Poll
  <2>2. TreeOK'
    BY <1>1, <2>1, RootAssumption DEF TreeOK, Listed
  <2> QED
    BY <2>1, <2>2 DEF QuietSampled
<1>2. CASE life[Root] # "zombie"
  <2>1. pc' = "pop" /\ pending' = <<Root>> /\ seen' = {} /\ UNCHANGED <<life, tasks, parent>>
    BY <1>2 DEF Poll
  <2>2. Found' = {Root}
    BY <2>1 DEF Found, ToSet
  <2>3. Root \in Descendants'
    BY <2>1, TreeStays, RootDescends
  <2>4. Sampled'
    BY <2>1, <2>2, <2>3 DEF Sampled
  <2> QED
    BY <2>1, <2>4, ReadKeepsTree DEF QuietSampled
<1> QED
  BY <1>1, <1>2

LEMMA SampleInvariance == BuildSpec => [](TreeOK /\ QuietSampled)
<1>1. ReportsInv /\ TreeOK /\ QuietSampled /\ [BuildNext]_buildVars => TreeOK' /\ QuietSampled'
  <2> SUFFICES ASSUME ReportsInv, TreeOK, QuietSampled, [BuildNext]_buildVars
               PROVE  TreeOK' /\ QuietSampled'
    OBVIOUS
  <2>1. ASSUME UNCHANGED <<life, tasks, parent, pending, seen, at, left, quiet>>,
               pc' = pc \/ (pc = "off" /\ pc' = "pop")
        PROVE  TreeOK' /\ QuietSampled'
    <3>1. UNCHANGED Descendants /\ \A c : UNCHANGED Listed(c)
      BY <2>1, TreeStays
    <3>2. \A c : ToRead(c)' = ToRead(c)
      BY <2>1 DEF ToRead
    <3>3. Sampled => Sampled'
      BY <2>1, <3>1, <3>2 DEF Sampled, Found
    <3> QED
      BY <2>1, <3>3, ReadKeepsTree DEF QuietSampled
  <2>2. ASSUME \/ Configure \/ MakeRoot \/ Unpack \/ ApplyPatch \/ ChooseCommand \/ RunBuild
               \/ EndMonitored \/ Collect \/ Kill \/ RunAgain \/ Finished \/ UNCHANGED buildVars
        PROVE  UNCHANGED <<tree, pc, sample, quiet>>
    <3>1. UNCHANGED monitorVars
      BY <2>2 DEF Configure, MakeRoot, Unpack, ApplyPatch, ChooseCommand, RunBuild, EndMonitored,
                  Collect, Kill, RunAgain, Finished, Become, buildVars
    <3> QED
      BY <3>1 DEF monitorVars
  <2>3. ASSUME UNCHANGED <<tree, pc, sample, quiet>> PROVE TreeOK' /\ QuietSampled'
    BY <2>1, <2>3 DEF tree, sample
  <2>4. ASSUME StartMonitored PROVE TreeOK' /\ QuietSampled'
    BY <2>1, <2>4 DEF StartMonitored, Launch, tree, sample
  <2>5. ASSUME Monitor PROVE TreeOK' /\ QuietSampled'
    BY <2>5, PopSamples, StatmSamples, ListSamples, ChildrenSamples, EndTasksSamples,
       EndSampleSamples, PollSamples DEF Monitor
  <2> QED
    BY <2>2, <2>3, <2>4, <2>5, TreeSteps DEF BuildNext, MonitorNext
<1> QED
  BY <1>1, TreeInit, ReportsInvariance, PTL DEF BuildSpec

\* A sample during which the tree stood still looked at the build and at every
\* process it leads to, for any processes, threads and order of reading
\* (memory_monitor.py's _process_tree_rss).
THEOREM QuietSampleCompleteCorrect == BuildSpec => []QuietSampleComplete
<1>1. ASSUME QuietSampled, pc = "poll", quiet PROVE seen = Descendants
  <2>1. Sampled /\ pending = << >>
    BY <1>1 DEF QuietSampled, Sampled
  <2>2. Found = seen
    BY <2>1 DEF Found, ToSet
  <2>3. \A c : ~ ToRead(c)
    BY <1>1 DEF ToRead
  <2>4. Descendants \subseteq seen
    BY <2>1, <2>2, <2>3, DescendantsLeast, RootDescends DEF Sampled
  <2> QED
    BY <2>1, <2>2, <2>4 DEF Sampled
<1>2. QuietSampled => QuietSampleComplete
  BY <1>1 DEF QuietSampleComplete
<1> QED
  BY <1>2, SampleInvariance, PTL

-----------------------------------------------------------------------------
(* Sums of sizes.                                                          *)

\* The naturals are well-founded, and so are the subsets of a finite set.
LEMMA NatSets ==
  ASSUME NEW A, \A m \in Nat : (\A k \in Nat : k < m => k \in A) => m \in A
  PROVE  Nat \subseteq A
<1> SUFFICES ASSUME Nat \ A # {} PROVE FALSE
  OBVIOUS
<1>1. PICK m \in Nat \ A : \A k \in Nat \ A : ~ (<<k, m>> \in OpToRel(<, Nat))
  <2> DEFINE T == Nat \ A
  <2>1. T \subseteq Nat /\ T # {}
    OBVIOUS
  <2> HIDE DEF T
  <2>2. \E m \in T : \A k \in T : ~ (<<k, m>> \in OpToRel(<, Nat))
    BY <2>1, WFMin, NatLessThanWellFounded, Zenon
  <2> QED
    BY <2>2 DEF T
<1>2. \A k \in Nat \ A : ~ (k < m)
  BY <1>1 DEF OpToRel
<1> QED
  BY <1>2

LEMMA SubsetInduction ==
  ASSUME NEW S, IsFiniteSet(S), NEW A,
         \A s \in SUBSET S : (\A t \in SUBSET s : t # s => t \in A) => s \in A
  PROVE  \A s \in SUBSET S : s \in A
<1> DEFINE B == {k \in Nat : \A s \in SUBSET S : Cardinality(s) = k => s \in A}
<1>1. ASSUME NEW m \in Nat, \A k \in Nat : k < m => k \in B
      PROVE  m \in B
  <2> SUFFICES ASSUME NEW s \in SUBSET S, Cardinality(s) = m PROVE s \in A
    OBVIOUS
  <2>1. IsFiniteSet(s)
    BY FS_Subset
  <2>2. ASSUME NEW t \in SUBSET s, t # s PROVE t \in A
    <3>1. IsFiniteSet(t) /\ Cardinality(t) <= Cardinality(s) /\ Cardinality(t) # Cardinality(s)
      BY <2>1, <2>2, FS_Subset
    <3>2. Cardinality(t) \in Nat /\ t \in SUBSET S
      BY <3>1, FS_CardinalityType
    <3>3. Cardinality(t) \in B
      BY <1>1, <3>1, <3>2
    <3> QED
      BY <3>2, <3>3
  <2> QED
    BY <2>2
<1> HIDE DEF B
<1>2. Nat \subseteq B
  BY <1>1, NatSets
<1>3. ASSUME NEW s \in SUBSET S PROVE s \in A
  <2>1. Cardinality(s) \in Nat
    BY FS_Subset, FS_CardinalityType
  <2> QED
    BY <1>2, <2>1 DEF B
<1> QED
  BY <1>3

\* f sums the sizes of each subset of S, element by element.
Chosen(s) == CHOOSE x \in s : TRUE
Sums(S, f) == f = [s \in SUBSET S |-> IF s = {} THEN 0 ELSE Rss[Chosen(s)] + f[s \ {Chosen(s)}]]

LEMMA SumsExist ==
  ASSUME NEW S \in SUBSET Pid
  PROVE  \E f \in [SUBSET S -> Nat] : Sums(S, f)
<1> DEFINE Next1(f, s) == IF s = {} THEN 0 ELSE Rss[Chosen(s)] + f[s \ {Chosen(s)}]
           UpTo(f, m) == \A s \in SUBSET S : Cardinality(s) <= m => f[s] = Next1(f, s)
           B == {m \in Nat : \E f \in [SUBSET S -> Nat] : UpTo(f, m)}
<1>1. IsFiniteSet(S)
  BY RootAssumption, FS_Subset
<1>2. ASSUME NEW s \in SUBSET S
      PROVE  /\ IsFiniteSet(s) /\ Cardinality(s) \in Nat /\ (Cardinality(s) = 0 <=> s = {})
             /\ s # {} => /\ Chosen(s) \in s /\ Rss[Chosen(s)] \in Nat
                          /\ s \ {Chosen(s)} \in SUBSET S
                          /\ Cardinality(s \ {Chosen(s)}) = Cardinality(s) - 1
  <2>1. IsFiniteSet(s)
    BY <1>1, FS_Subset
  <2>2. s # {} => Chosen(s) \in s
    BY DEF Chosen
  <2> QED
    BY <2>1, <2>2, FS_CardinalityType, FS_EmptySet, FS_RemoveElement, RssAssumption
<1>3. ASSUME NEW f \in [SUBSET S -> Nat], NEW s \in SUBSET S
      PROVE  Next1(f, s) \in Nat
  <2>1. s # {} => Rss[Chosen(s)] \in Nat /\ f[s \ {Chosen(s)}] \in Nat
    BY <1>2
  <2> QED
    BY <2>1
<1>4. ASSUME NEW m \in Nat, \A k \in Nat : k < m => k \in B
      PROVE  m \in B
  <2>1. CASE m = 0
    <3> DEFINE f == [s \in SUBSET S |-> 0]
    <3>1. f \in [SUBSET S -> Nat] /\ UpTo(f, m)
      BY <1>2, <2>1
    <3> QED
      BY <3>1
  <2>2. CASE m # 0
    <3>1. m - 1 \in B
      <4>1. m - 1 \in Nat /\ m - 1 < m
        BY <2>2
      <4> QED
        BY <1>4, <4>1
    <3>2. PICK g \in [SUBSET S -> Nat] : UpTo(g, m - 1)
      BY <3>1
    <3> DEFINE f == [s \in SUBSET S |-> IF Cardinality(s) <= m - 1 THEN g[s] ELSE Next1(g, s)]
    <3>3. f \in [SUBSET S -> Nat]
      BY <1>3
    <3>4. ASSUME NEW s \in SUBSET S, Cardinality(s) <= m PROVE f[s] = Next1(f, s)
      <4>1. f[s] = Next1(g, s)
        BY <3>2
      <4>2. s # {} => f[s \ {Chosen(s)}] = g[s \ {Chosen(s)}]
        BY <1>2, <3>4
      <4> QED
        BY <4>1, <4>2
    <3>5. UpTo(f, m)
      BY <3>4
    <3> HIDE DEF f
    <3> QED
      BY <3>3, <3>5
  <2> QED
    BY <2>1, <2>2
<1> HIDE DEF B
<1>5. Cardinality(S) \in B
  BY <1>2, <1>4, NatSets
<1>6. PICK f \in [SUBSET S -> Nat] : UpTo(f, Cardinality(S))
  BY <1>5 DEF B
<1>7. \A s \in SUBSET S : f[s] = Next1(f, s)
  BY <1>1, <1>6, FS_Subset
<1>8. f = [s \in SUBSET S |-> f[s]]
  OBVIOUS
<1>9. f = [s \in SUBSET S |-> Next1(f, s)]
  BY <1>7, <1>8
<1> QED
  BY <1>9 DEF Sums

LEMMA SumsUnique ==
  ASSUME NEW S \in SUBSET Pid, NEW T \in SUBSET S, NEW f, NEW g, Sums(S, f), Sums(T, g)
  PROVE  f[T] = g[T]
<1> DEFINE A == {s \in SUBSET T : f[s] = g[s]}
<1>1. IsFiniteSet(T)
  BY RootAssumption, FS_Subset
<1>2. ASSUME NEW s \in SUBSET T, \A t \in SUBSET s : t # s => t \in A PROVE s \in A
  <2>1. /\ f[s] = IF s = {} THEN 0 ELSE Rss[Chosen(s)] + f[s \ {Chosen(s)}]
        /\ g[s] = IF s = {} THEN 0 ELSE Rss[Chosen(s)] + g[s \ {Chosen(s)}]
    BY DEF Sums
  <2>2. CASE s = {}
    BY <2>1, <2>2
  <2>3. CASE s # {}
    <3>1. Chosen(s) \in s
      BY <2>3 DEF Chosen
    <3>2. s \ {Chosen(s)} \in A
      BY <1>2, <3>1
    <3> QED
      BY <2>1, <2>3, <3>2
  <2> QED
    BY <2>2, <2>3
<1> HIDE DEF A
<1>3. T \in A
  BY <1>1, <1>2, SubsetInduction
<1> QED
  BY <1>3 DEF A

LEMMA SizeSums ==
  ASSUME NEW S \in SUBSET Pid
  PROVE  \E f \in [SUBSET S -> Nat] : Sums(S, f) /\ SizeOf(S) = f[S]
<1>1. PICK g \in [SUBSET S -> Nat] : Sums(S, g)
  BY SumsExist
<1> DEFINE iter == CHOOSE f : Sums(S, f)
<1>2. Sums(S, iter)
  BY <1>1
<1>3. SizeOf(S) = iter[S]
  BY Zenon DEF SizeOf, MapThenSumSet, MapThenFoldSet, Sums, Chosen
<1>4. iter[S] = g[S]
  BY <1>1, <1>2, SumsUnique
<1> QED
  BY <1>1, <1>3, <1>4

LEMMA SizeOfChosen ==
  ASSUME NEW S \in SUBSET Pid
  PROVE  /\ SizeOf(S) \in Nat
         /\ S = {} => SizeOf(S) = 0
         /\ S # {} => SizeOf(S) = Rss[Chosen(S)] + SizeOf(S \ {Chosen(S)})
<1>1. PICK f \in [SUBSET S -> Nat] : Sums(S, f) /\ SizeOf(S) = f[S]
  BY SizeSums
<1>2. f[S] = IF S = {} THEN 0 ELSE Rss[Chosen(S)] + f[S \ {Chosen(S)}]
  BY <1>1 DEF Sums
<1>3. PICK g \in [SUBSET (S \ {Chosen(S)}) -> Nat] :
        Sums(S \ {Chosen(S)}, g) /\ SizeOf(S \ {Chosen(S)}) = g[S \ {Chosen(S)}]
  BY SizeSums
<1>4. f[S \ {Chosen(S)}] = g[S \ {Chosen(S)}]
  BY <1>1, <1>3, SumsUnique
<1> QED
  BY <1>1, <1>2, <1>3, <1>4

\* The sum of a set is that of the others and any one of it.
LEMMA SizeOfOthers ==
  ASSUME NEW S \in SUBSET Pid, NEW p \in S
  PROVE  SizeOf(S) = Rss[p] + SizeOf(S \ {p})
<1> DEFINE A == {s \in SUBSET Pid : \A x \in s : SizeOf(s) = Rss[x] + SizeOf(s \ {x})}
<1>1. ASSUME NEW s \in SUBSET Pid, \A t \in SUBSET s : t # s => t \in A PROVE s \in A
  <2> SUFFICES ASSUME NEW x \in s PROVE SizeOf(s) = Rss[x] + SizeOf(s \ {x})
    OBVIOUS
  <2> DEFINE y == Chosen(s)
  <2>1. y \in s /\ SizeOf(s) = Rss[y] + SizeOf(s \ {y})
    BY SizeOfChosen DEF Chosen
  <2>2. CASE x = y
    BY <2>1, <2>2
  <2>3. CASE x # y
    <3> HIDE DEF y
    <3>1. SizeOf(s \ {y}) = Rss[x] + SizeOf((s \ {y}) \ {x})
      BY <1>1, <2>1, <2>3
    <3>2. SizeOf(s \ {x}) = Rss[y] + SizeOf((s \ {x}) \ {y})
      BY <1>1, <2>1, <2>3
    <3>3. (s \ {y}) \ {x} = (s \ {x}) \ {y}
      OBVIOUS
    <3>4. Rss[x] \in Nat /\ Rss[y] \in Nat /\ SizeOf((s \ {x}) \ {y}) \in Nat
      BY <2>1, RssAssumption, SizeOfChosen
    <3>5. SizeOf((s \ {y}) \ {x}) = SizeOf((s \ {x}) \ {y})
      BY <3>3
    <3> DEFINE rest == SizeOf((s \ {x}) \ {y})
    <3>6. /\ SizeOf(s) = Rss[y] + (Rss[x] + rest)
          /\ SizeOf(s \ {x}) = Rss[y] + rest
      BY <2>1, <3>1, <3>2, <3>5
    <3> HIDE DEF rest
    <3>7. \A a, b, c \in Nat : a + (b + c) = b + (a + c)
      OBVIOUS
    <3>8. rest \in Nat
      BY <3>4 DEF rest
    <3> QED
      BY <3>4, <3>6, <3>7, <3>8
  <2> QED
    BY <2>2, <2>3
<1> HIDE DEF A
<1>2. S \in A
  BY <1>1, RootAssumption, SubsetInduction
<1> QED
  BY <1>2 DEF A

-----------------------------------------------------------------------------
(* What a sample counts.                                                   *)

\* The processes whose sizes were read.
ReadSoFar == IF pc = "statm" THEN seen \ {at} ELSE seen
Alive(S) == {p \in S : life[p] = "alive"}
CountInv ==
  /\ seen \subseteq Pid /\ (pc = "statm" => at \in seen)
  /\ total <= SizeOf(ReadSoFar)
  /\ quiet /\ pc # "done" => total <= SizeOf(Alive(ReadSoFar))

\* A read that looks at no size.
LEMMA CountStays ==
  ASSUME CountInv, UNCHANGED <<life, seen, total, quiet>>,
         pc # "statm", pc' \notin {"statm", "done"}, pc # "done"
  PROVE  CountInv'
<1>1. ReadSoFar' = ReadSoFar /\ Alive(ReadSoFar)' = Alive(ReadSoFar)
  BY DEF ReadSoFar, Alive
<1>2. SizeOf(ReadSoFar)' = SizeOf(ReadSoFar) /\ SizeOf(Alive(ReadSoFar))' = SizeOf(Alive(ReadSoFar))
  BY <1>1
<1> QED
  BY <1>2 DEF CountInv

LEMMA TreeCounts ==
  ASSUME CountInv, quiet' = FALSE, UNCHANGED <<pc, seen, at, total>>
  PROVE  CountInv'
<1>1. ReadSoFar' = ReadSoFar
  BY DEF ReadSoFar
<1>2. SizeOf(ReadSoFar)' = SizeOf(ReadSoFar)
  BY <1>1
<1> QED
  BY <1>2 DEF CountInv

LEMMA PopCounts ==
  ASSUME ReportsInv, CountInv, Pop
  PROVE  CountInv'
<1>1. pc = "pop" /\ pending # << >> /\ UNCHANGED <<life, quiet, total>>
  BY DEF Pop, Goto, tree
<1>2. \/ Last(pending) \in seen /\ pc' = "pop" /\ UNCHANGED <<seen, at>>
      \/ /\ Last(pending) \notin seen
         /\ at' = Last(pending) /\ seen' = seen \cup {Last(pending)} /\ pc' = "statm"
  BY DEF Pop, Goto
<1>3. Last(pending) \in Pid
  BY <1>1, PopTakesLast, EmptySeq DEF ReportsInv, ReportsTypes, Last
<1>4. ReadSoFar' = ReadSoFar /\ Alive(ReadSoFar)' = Alive(ReadSoFar)
  BY <1>1, <1>2 DEF ReadSoFar, Alive
<1>5. SizeOf(ReadSoFar)' = SizeOf(ReadSoFar) /\ SizeOf(Alive(ReadSoFar))' = SizeOf(Alive(ReadSoFar))
  BY <1>4
<1> QED
  BY <1>1, <1>2, <1>3, <1>5 DEF CountInv

LEMMA StatmCounts ==
  ASSUME ReportsInv, CountInv, ReadStatm
  PROVE  CountInv'
<1>1. /\ pc = "statm" /\ pc' = "tasks" /\ UNCHANGED <<life, seen, at, quiet>>
      /\ at \in seen /\ seen \subseteq Pid /\ total \in Nat /\ Rss[at] \in Nat
  BY RssAssumption DEF ReadStatm, Goto, tree, CountInv, ReportsInv, ReportsTypes
<1>2. total' \in {total, total + Rss[at], total + 0}
      /\ (life[at] # "alive" => total' \in {total, total + 0})
  BY DEF ReadStatm
<1>3. ReadSoFar = seen \ {at} /\ ReadSoFar' = seen
  BY <1>1 DEF ReadSoFar
<1>4. SizeOf(seen) = Rss[at] + SizeOf(seen \ {at}) /\ SizeOf(seen \ {at}) \in Nat
  BY <1>1, SizeOfOthers, SizeOfChosen
<1>5. total' <= SizeOf(seen)
  BY <1>1, <1>2, <1>3, <1>4 DEF CountInv
<1>6. ASSUME quiet PROVE total' <= SizeOf(Alive(seen))
  <2>1. total <= SizeOf(Alive(seen \ {at}))
    BY <1>1, <1>3, <1>6 DEF CountInv
  <2>2. CASE life[at] = "alive"
    <3>1. at \in Alive(seen) /\ Alive(seen) \ {at} = Alive(seen \ {at}) /\ Alive(seen) \in SUBSET Pid
      BY <1>1, <2>2 DEF Alive
    <3>2. /\ SizeOf(Alive(seen)) = Rss[at] + SizeOf(Alive(seen \ {at}))
          /\ SizeOf(Alive(seen \ {at})) \in Nat
      BY <3>1, SizeOfOthers, SizeOfChosen
    <3> QED
      BY <1>1, <1>2, <2>1, <3>2
  <2>3. CASE life[at] # "alive"
    <3>1. Alive(seen) = Alive(seen \ {at})
      BY <2>3 DEF Alive
    <3> QED
      BY <1>1, <1>2, <2>1, <2>3, <3>1
  <2> QED
    BY <2>2, <2>3
<1>7. SizeOf(ReadSoFar)' = SizeOf(seen) /\ SizeOf(Alive(ReadSoFar))' = SizeOf(Alive(seen))
  <2>1. Alive(ReadSoFar)' = Alive(seen)
    BY <1>1, <1>3 DEF Alive
  <2> QED
    BY <1>3, <2>1
<1> QED
  BY <1>1, <1>5, <1>6, <1>7 DEF CountInv

LEMMA PollCounts ==
  ASSUME ReportsInv, CountInv, Poll
  PROVE  CountInv'
<1>1. CASE life[Root] = "zombie"
  <2>1. pc = "poll" /\ pc' = "done" /\ UNCHANGED <<seen, at, total>>
    BY <1>1 DEF Poll, sample
  <2>2. ReadSoFar' = ReadSoFar
    BY <2>1 DEF ReadSoFar
  <2>3. SizeOf(ReadSoFar)' = SizeOf(ReadSoFar)
    BY <2>2
  <2> QED
    BY <2>1, <2>3 DEF CountInv
<1>2. CASE life[Root] # "zombie"
  <2>1. pc' = "pop" /\ seen' = {} /\ total' = 0
    BY <1>2 DEF Poll
  <2>2. ReadSoFar' = {} /\ Alive(ReadSoFar)' = {}
    BY <2>1 DEF ReadSoFar, Alive
  <2>3. SizeOf(ReadSoFar)' = 0 /\ SizeOf(Alive(ReadSoFar))' = 0
    BY <2>2, SizeOfChosen
  <2> QED
    BY <2>1, <2>3 DEF CountInv
<1> QED
  BY <1>1, <1>2

LEMMA CountInvariance == BuildSpec => []CountInv
<1>1. BuildInit => CountInv
  <2> SUFFICES ASSUME BuildInit PROVE CountInv
    OBVIOUS
  <2>1. seen = {} /\ total = 0 /\ pc = "off"
    BY DEF BuildInit, MonitorInit
  <2>2. ReadSoFar = {} /\ Alive({}) = {}
    BY <2>1 DEF ReadSoFar, Alive
  <2>3. SizeOf({}) = 0
    BY SizeOfChosen
  <2> QED
    BY <2>1, <2>2, <2>3 DEF CountInv
<1>2. ReportsInv /\ CountInv /\ [BuildNext]_buildVars => CountInv'
  <2> SUFFICES ASSUME ReportsInv, CountInv, [BuildNext]_buildVars PROVE CountInv'
    OBVIOUS
  <2>1. ASSUME UNCHANGED <<tree, pc, sample, quiet>> PROVE CountInv'
    <3>1. UNCHANGED <<life, pc, seen, at, total, quiet>>
      BY <2>1 DEF tree, sample
    <3>2. ReadSoFar' = ReadSoFar /\ Alive(ReadSoFar)' = Alive(ReadSoFar)
      BY <3>1 DEF ReadSoFar, Alive
    <3>3. /\ SizeOf(ReadSoFar)' = SizeOf(ReadSoFar)
          /\ SizeOf(Alive(ReadSoFar))' = SizeOf(Alive(ReadSoFar))
      BY <3>2
    <3> QED
      BY <3>1, <3>3 DEF CountInv
  <2>2. ASSUME \/ Configure \/ MakeRoot \/ Unpack \/ ApplyPatch \/ ChooseCommand \/ RunBuild
               \/ EndMonitored \/ Collect \/ Kill \/ RunAgain \/ Finished \/ UNCHANGED buildVars
        PROVE  UNCHANGED <<tree, pc, sample, quiet>>
    <3>1. UNCHANGED monitorVars
      BY <2>2 DEF Configure, MakeRoot, Unpack, ApplyPatch, ChooseCommand, RunBuild, EndMonitored,
                  Collect, Kill, RunAgain, Finished, Become, buildVars
    <3> QED
      BY <3>1 DEF monitorVars
  <2>3. ASSUME StartMonitored PROVE CountInv'
    <3>1. pc = "off" /\ pc' = "pop" /\ UNCHANGED <<life, seen, total, quiet>>
      BY <2>3 DEF StartMonitored, Launch, tree, sample
    <3> QED
      BY <3>1, CountStays
  <2>4. ASSUME Tree PROVE CountInv'
    <3>1. quiet' = FALSE /\ UNCHANGED <<pc, seen, at, total>>
      BY <2>4 DEF Tree, StartThread, EndThread, Fork, Exit, Reap, Disturb, sample
    <3> QED
      BY <3>1, TreeCounts
  <2>5. ASSUME ListTasks \/ EndTasks \/ EndSample \/ \E t \in left : ReadChildren(t)
        PROVE  CountInv'
    <3>1. /\ pc \in {"tasks", "children", "pop"} /\ pc' \in {"children", "pop", "poll"}
          /\ UNCHANGED <<life, seen, total, quiet>>
      BY <2>5 DEF ListTasks, EndTasks, EndSample, ReadChildren, Goto, tree, sample
    <3> QED
      BY <3>1, CountStays
  <2> QED
    BY <2>1, <2>2, <2>3, <2>4, <2>5, PopCounts, StatmCounts, PollCounts
    DEF BuildNext, MonitorNext, Monitor
<1> QED
  BY <1>1, <1>2, ReportsInvariance, PTL DEF BuildSpec

\* No process counts twice in a sample, whatever happens to the tree between
\* two reads, and a sample during which it stood still counts no more than the
\* processes that live (memory_monitor.py's _process_tree_rss).
THEOREM CountedOnceCorrect == BuildSpec => []CountedOnce
<1>1. ReportsInv /\ CountInv => total <= SizeOf(seen)
  <2> SUFFICES ASSUME ReportsInv, CountInv PROVE total <= SizeOf(seen)
    OBVIOUS
  <2>1. CASE pc = "statm"
    <3>1. SizeOf(seen) = Rss[at] + SizeOf(seen \ {at}) /\ SizeOf(seen \ {at}) \in Nat
      BY <2>1, SizeOfOthers, SizeOfChosen DEF CountInv
    <3>2. Rss[at] \in Nat /\ total \in Nat /\ total <= SizeOf(seen \ {at})
      BY <2>1, RssAssumption DEF CountInv, ReadSoFar, ReportsInv, ReportsTypes
    <3> QED
      BY <3>1, <3>2
  <2>2. CASE pc # "statm"
    BY <2>2 DEF CountInv, ReadSoFar
  <2> QED
    BY <2>1, <2>2
<1>2. CountInv /\ QuietSampleComplete /\ pc = "poll" /\ quiet => total <= SizeOf(Living)
  <2> SUFFICES ASSUME CountInv, QuietSampleComplete, pc = "poll", quiet
               PROVE  total <= SizeOf(Living)
    OBVIOUS
  <2>1. Alive(ReadSoFar) = Living
    BY DEF QuietSampleComplete, ReadSoFar, Alive, Living
  <2> QED
    BY <2>1 DEF CountInv
<1>3. ReportsInv /\ CountInv /\ QuietSampleComplete => CountedOnce
  BY <1>1, <1>2 DEF CountedOnce
<1> QED
  BY <1>3, ReportsInvariance, CountInvariance, QuietSampleCompleteCorrect, PTL

-----------------------------------------------------------------------------
(* The tools.                                                              *)

\* The build runs in the environment that was made of the job's, which a
\* withdrawn patch does not change.
ToolsInv ==
  /\ {"environ", "infer_cxx", "patches"} \subseteq DOMAIN job /\ job.infer_cxx \in BOOLEAN
  /\ \A k \in DOMAIN job.environ :
       LET v == job.environ[k]
       IN /\ v = Value(v.at, v.base, v.args)
          /\ v.at \in {"bare", "execroot", "marker", "absolute"}
          /\ v.at = "execroot" => k \in ToolVariables \cup DOMAIN Overrides
  /\ stage = "build" => built = _compiler_env(job.environ, job.infer_cxx)

LEMMA ToolsInvariance == BuildSpec => []ToolsInv
<1>1. BuildInit => ToolsInv
  BY JobsAssumption, EnvironAssumption DEF BuildInit, ToolsInv
<1>2. ToolsInv /\ [BuildNext]_buildVars => ToolsInv'
  <2> SUFFICES ASSUME ToolsInv, [BuildNext]_buildVars PROVE ToolsInv'
    OBVIOUS
  <2>1. CASE ChooseCommand
    BY <2>1 DEF ChooseCommand, Become, ToolsInv
  <2>2. CASE RunAgain
    <3>1. stage' = "root" /\ job' \in {job, [job EXCEPT !.patches = << >>]}
      BY <2>2 DEF RunAgain
    <3>2. DOMAIN job' = DOMAIN job /\ job'.environ = job.environ /\ job'.infer_cxx = job.infer_cxx
      BY <3>1 DEF ToolsInv
    <3> QED
      BY <3>1, <3>2 DEF ToolsInv
  <2>3. CASE UNCHANGED <<job, stage, built>>
    BY <2>3 DEF ToolsInv
  <2>4. CASE job' = job /\ stage' # "build"
    BY <2>4 DEF ToolsInv
  <2>5. Configure \/ MakeRoot \/ Unpack \/ ApplyPatch \/ RunBuild \/ EndMonitored \/ Collect \/ Kill
          => job' = job /\ stage' # "build"
    BY DEF Configure, MakeRoot, Unpack, ApplyPatch, RunBuild, EndMonitored, Collect, Kill, Become
  <2>6. StartMonitored \/ Finished \/ UNCHANGED buildVars \/ (MonitorNext /\ UNCHANGED helperVars)
          => UNCHANGED <<job, stage, built>>
    BY DEF StartMonitored, Finished, buildVars, helperVars, process
  <2> QED
    BY <2>1, <2>2, <2>3, <2>4, <2>5, <2>6 DEF BuildNext
<1> QED
  BY <1>1, <1>2, PTL DEF BuildSpec

\* The values of the environment before the wrappers.
EnvOf(environ) == _absolutize_tool_paths([k \in DOMAIN environ |-> unmark(environ[k])])

\* A value is made absolute by the marker in it, or by its variable.
LEMMA ResolvedValues ==
  ASSUME NEW environ, NEW k \in DOMAIN environ, NEW how, NEW base, NEW args,
         environ[k] = Value(how, base, args)
  PROVE  /\ DOMAIN EnvOf(environ) = DOMAIN environ
         /\ EnvOf(environ)[k] =
              Value(IF \/ how = "marker"
                       \/ how = "execroot" /\ k \in ToolVariables
                    THEN "absolute" ELSE how, base, args)
<1>1. unmark(environ[k]) = Value(IF how = "marker" THEN "absolute" ELSE how, base, args)
  BY DEF unmark, Value
<1>2. \A a : _absolutize_path(Value(a, base, args)) = Value(IF a = "execroot" THEN "absolute" ELSE a, base, args)
  BY DEF _absolutize_path, Value
<1> DEFINE marked == [x \in DOMAIN environ |-> unmark(environ[x])]
<1>3. DOMAIN marked = DOMAIN environ /\ marked[k] = Value(IF how = "marker" THEN "absolute" ELSE how, base, args)
  BY <1>1
<1>4. EnvOf(environ) = _absolutize_tool_paths(marked)
  BY DEF EnvOf
<1> HIDE DEF marked
<1> QED
  BY <1>2, <1>3, <1>4 DEF _absolutize_tool_paths

\* The driver a wrapper execs is the one that was named, without arguments.
LEMMA ResolvedDriver ==
  ASSUME NEW env, NEW k \in DOMAIN env, NEW how, how # "bare", NEW base, NEW args, NEW default,
         env[k] = Value(how, base, args)
  PROVE  _resolve_compiler_path(env, k, default) =
           Value(IF how = "execroot" THEN "absolute" ELSE how, base, << >>)
<1>1. [env[k] EXCEPT !.args = << >>] = Value(how, base, << >>)
  BY DEF Value
<1>2. _absolutize_path(Value(how, base, << >>)) =
        Value(IF how = "execroot" THEN "absolute" ELSE how, base, << >>)
  BY DEF _absolutize_path, Value
<1>3. Value(how, base, << >>).at # "bare"
  BY DEF Value
<1> QED
  BY <1>1, <1>2, <1>3 DEF _resolve_compiler_path

LEMMA EnvIs ==
  ASSUME NEW environ, NEW infer_cxx
  PROVE  LET b == _compiler_env(environ, infer_cxx)
             env == EnvOf(environ)
         IN /\ b.execs = wrapped(env, infer_cxx)
            /\ {"CC", "CXX"} \cup DOMAIN environ \subseteq DOMAIN b.env
            /\ \A k \in DOMAIN environ :
                 b.env[k] = IF k \in DOMAIN Overrides THEN wrapper(Overrides[k], env[k].args) ELSE env[k]
            /\ \A k \in {"CC", "CXX"} : b.env[k].at = "wrapper" /\ b.env[k].base = Overrides[k]
<1> DEFINE env == EnvOf(environ)
           defaults == [CC |-> wrapper("cc", << >>), CXX |-> wrapper("cxx", << >>),
                        AR |-> Value("bare", "ar", << >>), MPICC |-> wrapper("mpicc", << >>)]
           names == DOMAIN env \cup {k \in DOMAIN defaults : k = "MPICC" => "mpicc" \in OnPath}
           all == [k \in names |-> IF k \in DOMAIN env THEN env[k] ELSE defaults[k]]
           resolved == [k \in DOMAIN all |-> IF k \in DOMAIN Overrides
                                             THEN wrapper(Overrides[k], all[k].args) ELSE all[k]]
<1>1. _compiler_env(environ, infer_cxx) = [env |-> resolved, execs |-> wrapped(env, infer_cxx)]
  BY Zenon DEF _compiler_env, EnvOf
<1>2. {"CC", "CXX"} \cup DOMAIN environ \subseteq names
  BY DEF EnvOf, _absolutize_tool_paths
<1>3. DOMAIN environ = DOMAIN env /\ DOMAIN Overrides = {"CC", "CXX", "CPP", "LDSHARED", "LDCXXSHARED"}
  BY DEF EnvOf, _absolutize_tool_paths, Overrides
<1> HIDE DEF env, defaults, names
<1>4. \A k \in DOMAIN environ : all[k] = env[k]
  BY <1>2, <1>3
<1>5. DOMAIN resolved = names /\ \A k \in names :
        resolved[k] = IF k \in DOMAIN Overrides THEN wrapper(Overrides[k], all[k].args) ELSE all[k]
  OBVIOUS
<1> HIDE DEF all, resolved
<1>6. \A k \in {"CC", "CXX"} : resolved[k].at = "wrapper" /\ resolved[k].base = Overrides[k]
  BY <1>2, <1>3, <1>5 DEF wrapper, Value
<1>7. \A k \in DOMAIN environ :
        resolved[k] = IF k \in DOMAIN Overrides THEN wrapper(Overrides[k], env[k].args) ELSE env[k]
  BY <1>2, <1>4, <1>5
<1> QED
  BY <1>1, <1>2, <1>5, <1>6, <1>7 DEF env

\* A tool that Bazel named by a path, in any of its ways, is still that tool
\* when the backend starts it from the unpacked tree, for any environment
\* (build_helper.py, _compiler_env).
THEOREM ToolsSurviveChdirCorrect == BuildSpec => []ToolsSurviveChdir
<1>1. ASSUME ToolsInv, stage = "build", NEW k \in DOMAIN job.environ
      PROVE  LET given == job.environ[k]
                 ran == Runs(built, k)
                 base == IF k = "CXX" /\ job.infer_cxx /\ given.at \in {"marker", "absolute"}
                            /\ given.base \in DOMAIN CxxPeer
                         THEN CxxPeer[given.base] ELSE given.base
             IN /\ built.env[k].args = given.args
                /\ given.at # "bare" /\ k \notin {"CPP", "LDSHARED", "LDCXXSHARED"} =>
                     ran.at = "absolute" /\ ran.base = base
                /\ k \in {"CPP", "LDSHARED"} => ran = Runs(built, "CC")
                /\ k = "LDCXXSHARED" => ran = Runs(built, "CXX")
  <2> DEFINE given == job.environ[k]
             env == EnvOf(job.environ)
             execs == wrapped(env, job.infer_cxx)
             cxx == _resolve_compiler_path(env, "CXX", "c++")
  <2>1. /\ given = Value(given.at, given.base, given.args)
        /\ given.at \in {"bare", "execroot", "marker", "absolute"}
        /\ given.at = "execroot" => k \in ToolVariables \cup DOMAIN Overrides
        /\ built = _compiler_env(job.environ, job.infer_cxx)
    BY <1>1 DEF ToolsInv
  <2>2. /\ built.execs = execs
        /\ built.env[k] = IF k \in DOMAIN Overrides THEN wrapper(Overrides[k], env[k].args) ELSE env[k]
        /\ built.env["CC"].at = "wrapper" /\ built.env["CC"].base = "cc"
        /\ built.env["CXX"].at = "wrapper" /\ built.env["CXX"].base = "cxx"
    BY <2>1, EnvIs DEF Overrides
  <2>3. DOMAIN Overrides = {"CC", "CXX", "CPP", "LDSHARED", "LDCXXSHARED"}
        /\ Overrides["CC"] = "cc" /\ Overrides["CXX"] = "cxx" /\ Overrides["CPP"] = "cc"
        /\ Overrides["LDSHARED"] = "cc" /\ Overrides["LDCXXSHARED"] = "cxx"
    BY DEF Overrides
  <2> DEFINE how == IF \/ given.at = "marker"
                       \/ given.at = "execroot" /\ k \in ToolVariables
                    THEN "absolute" ELSE given.at
  <2>4. k \in DOMAIN env /\ env[k] = Value(how, given.base, given.args)
    BY <1>1, <2>1, ResolvedValues
  <2>5. execs.cc = _resolve_compiler_path(env, "CC", "cc")
        /\ execs.cxx = IF job.infer_cxx THEN _local_cxx_companion(env, cxx) ELSE cxx
    BY DEF wrapped
  <2>6. built.env[k].args = given.args
    BY <2>2, <2>4 DEF wrapper, Value
  <2>7. k \in {"CPP", "LDSHARED"} => Runs(built, k) = Runs(built, "CC")
    BY <2>2, <2>3 DEF Runs, wrapper, Value
  <2>8. k = "LDCXXSHARED" => Runs(built, k) = Runs(built, "CXX")
    BY <2>2, <2>3 DEF Runs, wrapper, Value
  <2> HIDE DEF env, execs
  <2>9. ASSUME given.at # "bare", k \notin DOMAIN Overrides
        PROVE  Runs(built, k).at = "absolute" /\ Runs(built, k).base = given.base /\ k # "CXX"
    BY <2>1, <2>2, <2>3, <2>4, <2>9 DEF Runs, Value
  <2>10. ASSUME given.at # "bare", k \in {"CC", "CXX"}
         PROVE  /\ how # "bare" /\ how \in {"execroot", "absolute"}
                /\ _resolve_compiler_path(env, k, IF k = "CC" THEN "cc" ELSE "c++")
                     = Value("absolute", given.base, << >>)
    <3>1. how # "bare" /\ how \in {"execroot", "absolute"}
      BY <2>1, <2>10
    <3> HIDE DEF how
    <3> QED
      BY <2>4, <3>1, ResolvedDriver
  <2>11. ASSUME given.at # "bare", k = "CC"
         PROVE  Runs(built, k).at = "absolute" /\ Runs(built, k).base = given.base
    BY <2>2, <2>5, <2>10, <2>11 DEF Runs, Value
  <2>12. ASSUME given.at # "bare", k = "CXX"
         PROVE  /\ Runs(built, k).at = "absolute"
                /\ Runs(built, k).base = IF /\ job.infer_cxx /\ given.at \in {"marker", "absolute"}
                                            /\ given.base \in DOMAIN CxxPeer
                                         THEN CxxPeer[given.base] ELSE given.base
    <3>1. cxx = Value("absolute", given.base, << >>)
      BY <2>10, <2>12
    <3>2. env["CXX"].at = "absolute" <=> given.at \in {"marker", "absolute"}
      <4>1. k \notin ToolVariables
        BY <2>12 DEF ToolVariables
      <4>2. how = "absolute" <=> given.at \in {"marker", "absolute"}
        BY <2>1, <4>1
      <4>3. env[k].at = how
        BY <2>4 DEF Value
      <4> QED
        BY <2>12, <4>2, <4>3
    <3>3. Runs(built, k) = execs.cxx
      BY <2>2, <2>12 DEF Runs
    <3> HIDE DEF cxx
    <3>4. _local_cxx_companion(env, cxx) =
            Value("absolute", IF given.at \in {"marker", "absolute"} /\ given.base \in DOMAIN CxxPeer
                              THEN CxxPeer[given.base] ELSE given.base, << >>)
      BY <2>4, <2>12, <3>1, <3>2 DEF _local_cxx_companion, Value
    <3> QED
      BY <2>5, <3>1, <3>3, <3>4 DEF Value
  <2> QED
    BY <2>3, <2>6, <2>7, <2>8, <2>9, <2>11, <2>12
<1>2. ToolsInv => ToolsSurviveChdir
  BY <1>1 DEF ToolsSurviveChdir
<1> QED
  BY <1>2, ToolsInvariance, PTL

-----------------------------------------------------------------------------
(* What the inspection of the archive says of the tree that is built.      *)

Names == Seq(STRING) \ {<< >>}

Sdist(a) ==
  /\ a.members \in Seq(Names)
  /\ DOMAIN a.text = ToSet(a.members)
  /\ \A m, n \in ToSet(a.members) : ~IsStrictPrefix(m, n)
  /\ \A m \in ToSet(a.members) :
       Last(m) \in {"pyproject.toml", "setup.py"} => Head(m) \notin DOMAIN EggInfo

LEMMA NameParts ==
  ASSUME NEW n \in Names
  PROVE  /\ Len(n) \in Nat \ {0} /\ Head(n) = n[1] /\ n[1] \in STRING
         /\ Tail(n) \in Seq(STRING) /\ Len(Tail(n)) = Len(n) - 1
         /\ \A i \in 1 .. Len(n) - 1 : Tail(n)[i] = n[i + 1]
         /\ Len(n) > 1 => Last(Tail(n)) = Last(n) /\ Tail(n) \in Names
         /\ <<Head(n)>> \o Tail(n) = n
<1>1. n \in Seq(STRING) /\ n # << >> /\ Len(n) \in Nat \ {0} /\ Head(n) = n[1] /\ n[1] \in STRING
  BY DEF Names
<1>2. Tail(n) \in Seq(STRING) /\ Len(Tail(n)) = Len(n) - 1
      /\ \A i \in 1 .. Len(n) - 1 : Tail(n)[i] = n[i + 1]
  BY <1>1, HeadTailProperties
<1>3. Len(n) > 1 => Last(Tail(n)) = Last(n) /\ Tail(n) \in Names
  BY <1>1, <1>2 DEF Last, Names
<1>4. <<Head(n)>> \o Tail(n) = n
  <2> DEFINE h == <<Head(n)>>
             r == Tail(n)
             c == h \o r
  <2>1. h \in Seq(STRING) /\ Len(h) = 1 /\ h[1] = n[1]
    BY <1>1
  <2>5. r \in Seq(STRING) /\ Len(r) = Len(n) - 1
    BY <1>2
  <2> HIDE DEF h, r
  <2>2. c \in Seq(STRING) /\ Len(c) = Len(n)
        /\ \A i \in 1 .. Len(n) : c[i] = IF i <= 1 THEN h[i] ELSE r[i - 1]
    <3>1. /\ h \o r \in Seq(STRING) /\ Len(h \o r) = Len(h) + Len(r)
          /\ \A i \in 1 .. Len(h) + Len(r) : (h \o r)[i] =
               IF i <= Len(h) THEN h[i] ELSE r[i - Len(h)]
      BY <2>1, <2>5, ConcatProperties
    <3> QED
      BY <1>1, <2>1, <2>5, <3>1
  <2> HIDE DEF c
  <2>3. \A i \in 1 .. Len(n) : c[i] = n[i]
    <3> TAKE i \in 1 .. Len(n)
    <3>1. CASE i = 1
      BY <1>1, <2>1, <2>2, <3>1
    <3>2. CASE i # 1
      <4>1. i - 1 \in 1 .. Len(n) - 1 /\ i - 1 + 1 = i
        BY <1>1, <3>2
      <4> QED
        BY <1>1, <1>2, <2>2, <3>2, <4>1 DEF r
    <3> QED
      BY <3>1, <3>2
  <2>4. c = n
    BY <1>1, <2>2, <2>3, SeqEqual
  <2> QED
    BY <2>4 DEF c, h, r
<1> QED
  BY <1>1, <1>2, <1>3, <1>4

\* A name of one part is above each name that begins with it.
LEMMA SingleAbove ==
  ASSUME NEW m \in Names, NEW n \in Names, Len(m) = 1, Len(n) > 1, m[1] = n[1]
  PROVE  IsStrictPrefix(m, n)
<1>1. ASSUME NEW s \in {m, n}
      PROVE  SubSeq(s, 1, 1) \in Seq(STRING) /\ Len(SubSeq(s, 1, 1)) = 1 /\ SubSeq(s, 1, 1)[1] = s[1]
  <2>1. 1 \in Int /\ \A i \in 1 .. 1 : s[i] \in STRING
    <3>1. s[1] \in STRING
      BY <1>1, NameParts
    <3> QED
      BY <3>1
  <2>2. /\ SubSeq(s, 1, 1) \in Seq(STRING)
        /\ Len(SubSeq(s, 1, 1)) = (IF 1 <= 1 THEN 1 - 1 + 1 ELSE 0)
        /\ \A i \in 1 .. 1 - 1 + 1 : SubSeq(s, 1, 1)[i] = s[1 + i - 1]
    BY <2>1, SubSeqProperties
  <2> QED
    BY <2>2
<1>2. SubSeq(m, 1, 1) = SubSeq(n, 1, 1)
  BY <1>1, SeqEqual
<1>3. Len(m) <= Len(n) /\ m # n
  BY NameParts
<1> QED
  BY <1>2, <1>3 DEF IsStrictPrefix, IsPrefix

LEMMA FirstExists ==
  ASSUME NEW S \in SUBSET Nat, S # {}
  PROVE  Min(S) \in S
<1>1. PICK x \in S : \A y \in S : ~ (<<y, x>> \in OpToRel(<, Nat))
  BY WFMin, NatLessThanWellFounded, Zenon
<1>3. \A y \in S : ~ (y < x)
  BY <1>1 DEF OpToRel
<1>2. \A y \in S : x =< y
  BY <1>3
<1> QED
  BY <1>2 DEF Min

\* In the archive of an sdist that has a configuration file, and all of it
\* below one directory, each file is one of the tree by the rest of its name.
LEMMA TreeIsArchive ==
  ASSUME NEW a, Sdist(a), NEW t, \A m \in ToSet(a.members) : Head(m) = t, DOMAIN Under(a.text, t) # {}
  PROVE  /\ ToSet(a.members) \subseteq Names
         /\ \A n \in ToSet(a.members) : /\ Len(n) > 1 /\ Tail(n) \in DOMAIN Under(a.text, t)
                                        /\ Under(a.text, t)[Tail(n)] = a.text[n]
         /\ \A m \in DOMAIN Under(a.text, t) :
              \E n \in ToSet(a.members) : m = Tail(n) /\ n = <<t>> \o m
<1> DEFINE M == ToSet(a.members)
           rest == {Tail(n) : n \in {f \in DOMAIN a.text : Head(f) = t /\ Len(f) > 1}}
<1>1. M \subseteq Names /\ DOMAIN a.text = M
  <2>1. \A i \in DOMAIN a.members : a.members[i] \in Names
    BY DEF Sdist
  <2> QED
    BY <2>1 DEF ToSet, Sdist
<1>2. Under(a.text, t) = [m \in rest |-> a.text[<<t>> \o m]]
  BY Zenon DEF Under
<1>3. PICK n0 \in M : Len(n0) > 1
  BY <1>1, <1>2
<1>4. \A n \in M : Len(n) > 1
  <2> SUFFICES ASSUME NEW n \in M, ~ (Len(n) > 1) PROVE FALSE
    OBVIOUS
  <2>1. Len(n) = 1 /\ n[1] = n0[1]
    <3>1. Len(n) \in Nat \ {0} /\ n[1] = Head(n) /\ n0[1] = Head(n0)
      BY <1>1, NameParts
    <3>2. Head(n) = t /\ Head(n0) = t
      OBVIOUS
    <3>3. Len(n) = 1
      BY <3>1
    <3> QED
      BY <3>1, <3>2, <3>3, Zenon
  <2> QED
    BY <1>1, <1>3, <2>1, SingleAbove DEF Sdist
<1>5. rest = {Tail(n) : n \in M}
  BY <1>1, <1>4
<1>6. \A n \in M : <<t>> \o Tail(n) = n
  BY <1>1, NameParts
<1> HIDE DEF M, rest
<1>7. \A n \in M : Tail(n) \in rest
  BY <1>5
<1>8. \A n \in M : Under(a.text, t)[Tail(n)] = a.text[n]
  BY <1>2, <1>6, <1>7
<1>9. \A m \in rest : \E n \in M : m = Tail(n) /\ n = <<t>> \o m
  BY <1>5, <1>6
<1> QED
  BY <1>1, <1>2, <1>4, <1>7, <1>8, <1>9 DEF M

LEMMA SeqWider ==
  ASSUME NEW S, NEW T, S \subseteq T, NEW s \in Seq(S)
  PROVE  s \in Seq(T)
  OBVIOUS

LEMMA Singles ==
  ASSUME NEW S, NEW x \in S
  PROVE  <<x>> \in Seq(S) /\ Len(<<x>>) = 1 /\ <<x>>[1] = x
  OBVIOUS

\* The rest of a name is a single part if the name has two.
LEMMA SecondPart ==
  ASSUME NEW n \in Names, NEW file
  PROVE  Tail(n) = <<file>> <=> Len(n) = 2 /\ n[2] = file
<1> DEFINE single == <<file>>
           S == STRING \cup {file}
<1>1. single \in Seq(S) /\ Len(single) = 1 /\ single[1] = file
  BY Singles, Zenon
<1>2. /\ Len(n) \in Nat \ {0} /\ Tail(n) \in Seq(STRING) /\ Len(Tail(n)) = Len(n) - 1
      /\ \A i \in 1 .. Len(n) - 1 : Tail(n)[i] = n[i + 1]
  BY NameParts
<1>5. Tail(n) \in Seq(S)
  BY <1>2, SeqWider
<1> HIDE DEF single, S
<1>3. ASSUME Tail(n) = single PROVE Len(n) = 2 /\ n[2] = file
  <2>1. Len(n) - 1 = 1
    BY <1>1, <1>2, <1>3
  <2>5. Len(n) \in Nat
    BY <1>2, Zenon
  <2>2. Len(n) = 2 /\ 1 \in 1 .. Len(n) - 1 /\ 1 + 1 = 2
    BY <2>1, <2>5
  <2>3. Tail(n)[1] = n[1 + 1]
    BY <1>2, <2>2, Zenon
  <2>4. n[2] = file
    BY <1>1, <1>3, <2>2, <2>3, Zenon
  <2> QED
    BY <2>2, <2>4
<1>4. ASSUME Len(n) = 2, n[2] = file PROVE Tail(n) = single
  <2>1. Len(Tail(n)) = 1
    BY <1>2, <1>4
  <2>2. Tail(n)[1] = file
    <3>1. 1 \in 1 .. Len(n) - 1 /\ 1 + 1 = 2
      BY <1>4
    <3> QED
      BY <1>2, <1>4, <3>1, Zenon
  <2>3. \A i \in 1 .. Len(Tail(n)) : Tail(n)[i] = single[i]
    <3> TAKE i \in 1 .. Len(Tail(n))
    <3>1. i \in 1 .. 1
      BY <2>1, Zenon
    <3>2. i = 1
      BY <3>1
    <3> QED
      BY <1>1, <2>2, <3>2, Zenon
  <2> QED
    BY <1>1, <1>5, <2>1, <2>3, SeqEqual
<1> QED
  BY <1>3, <1>4 DEF single

\* A configuration file is found if it is in the root of the tree, and read as
\* it is there.
LEMMA ConfigFound ==
  ASSUME NEW a, Sdist(a), NEW t, \A m \in ToSet(a.members) : Head(m) = t, DOMAIN Under(a.text, t) # {},
         NEW file
  PROVE  /\ Read(a, _find_config_file(a, file)) = TextOf(Under(a.text, t), <<file>>)
         /\ _find_config_file(a, file) = NoFile <=> <<file>> \notin DOMAIN Under(a.text, t)
<1> DEFINE M == ToSet(a.members)
           files == Under(a.text, t)
           hits == {i \in DOMAIN a.members : Len(a.members[i]) = 2 /\ a.members[i][2] = file}
<1>1. /\ M \subseteq Names
      /\ \A n \in M : Len(n) > 1 /\ Tail(n) \in DOMAIN files /\ files[Tail(n)] = a.text[n]
      /\ \A m \in DOMAIN files : \E n \in M : m = Tail(n)
  BY TreeIsArchive
<1>2. ASSUME NEW n \in M PROVE Len(n) # 1
  <2>1. Len(n) \in Nat /\ Len(n) > 1
    BY <1>1, NameParts
  <2>2. \A k \in Nat : k > 1 => k # 1
    OBVIOUS
  <2> QED
    BY <2>1, <2>2, Zenon
<1>3. <<file>> \notin M
  <2>1. Len(<<file>>) = 1
    OBVIOUS
  <2> QED
    BY <1>2, <2>1, Zenon
<1>4. _find_config_file(a, file) = IF hits = {} THEN NoFile ELSE a.members[Min(hits)]
  BY <1>3, Zenon DEF _find_config_file
<1>5. ASSUME NEW n \in M
      PROVE  Tail(n) = <<file>> <=> Len(n) = 2 /\ n[2] = file
  BY <1>1, SecondPart
<1>6. \A i \in DOMAIN a.members : a.members[i] \in M
  BY DEF ToSet
<1>9. \A n \in M : \E i \in DOMAIN a.members : n = a.members[i]
  BY DEF ToSet
<1>7. CASE hits = {}
  <2>1. <<file>> \notin DOMAIN files
    <3> SUFFICES ASSUME <<file>> \in DOMAIN files PROVE FALSE
      OBVIOUS
    <3>1. PICK n \in M : <<file>> = Tail(n)
      BY <1>1
    <3>2. PICK i \in DOMAIN a.members : n = a.members[i]
      BY <1>9
    <3>3. i \in hits
      BY <1>5, <3>1, <3>2
    <3> QED
      BY <1>7, <3>3
  <2>2. _find_config_file(a, file) = NoFile
    BY <1>4, <1>7
  <2> QED
    BY <2>1, <2>2 DEF Read, TextOf
<1>8. CASE hits # {}
  <2> DEFINE n == a.members[Min(hits)]
  <2>1. DOMAIN a.members \subseteq Nat
    BY DEF Sdist
  <2>2. Min(hits) \in hits
    <3>1. hits \subseteq Nat
      BY <2>1
    <3> HIDE DEF hits
    <3> QED
      BY <1>8, <3>1, FirstExists
  <2>3. n \in M /\ Len(n) = 2 /\ n[2] = file
    BY <1>6, <2>2
  <2>4. _find_config_file(a, file) = n
    BY <1>4, <1>8
  <2> HIDE DEF n
  <2>5. Tail(n) = <<file>> /\ n # << >>
    BY <1>1, <1>5, <2>3 DEF Names
  <2>6. <<file>> \in DOMAIN files /\ files[<<file>>] = a.text[n]
    BY <1>1, <2>3, <2>5
  <2> QED
    BY <2>4, <2>5, <2>6 DEF Read, TextOf, NoFile
<1> QED
  BY <1>7, <1>8

\* The target is what the inspection of the job's archive made of it, and a
\* build is run in a tree that has a configuration file.
Inspection == IF job.tool THEN detect(job.archive, job.deps, job.lock) ELSE Failed
Inspected ==
  LET is_native == IF job.is_native = "auto" THEN Inspection.is_native ELSE job.is_native = "true"
  IN /\ rule = IF is_native THEN "native" ELSE "pure"
     /\ deps = job.deps \cup Inspection.extra_deps \cup (IF job.monitor THEN {"memory_monitor"} ELSE {})
     /\ scripts = Inspection.console_scripts
TargetInv ==
  /\ {"archive", "tool", "deps", "lock", "is_native", "monitor", "patches"} \subseteq DOMAIN job
  /\ Sdist(job.archive)
  /\ stage # "configure" => Inspected
  /\ stage = "build" => {<<"pyproject.toml">>, <<"setup.py">>} \cap DOMAIN unpacked # {}

LEMMA TargetInvariance == BuildSpec => []TargetInv
<1>1. BuildInit => TargetInv
  BY JobsAssumption, ArchiveAssumption DEF BuildInit, TargetInv, Sdist, Names
<1>2. TargetInv /\ [BuildNext]_buildVars => TargetInv'
  <2> SUFFICES ASSUME TargetInv, [BuildNext]_buildVars PROVE TargetInv'
    OBVIOUS
  <2>1. CASE Configure
    BY <2>1 DEF Configure, Become, TargetInv, Inspected, Inspection
  <2>2. CASE RunAgain
    <3>1. /\ stage' = "root" /\ job' \in {job, [job EXCEPT !.patches = << >>]}
          /\ stage # "configure" /\ UNCHANGED target
      BY <2>2 DEF RunAgain, Ended
    <3>2. /\ DOMAIN job' = DOMAIN job /\ job'.archive = job.archive /\ job'.tool = job.tool
          /\ job'.deps = job.deps /\ job'.lock = job.lock /\ job'.is_native = job.is_native
          /\ job'.monitor = job.monitor
      BY <3>1 DEF TargetInv
    <3> QED
      BY <3>1, <3>2 DEF TargetInv, Inspected, Inspection, target
  <2>3. CASE ChooseCommand
    <3>1. stage' = "build" => {<<"pyproject.toml">>, <<"setup.py">>} \cap DOMAIN unpacked # {}
      BY <2>3 DEF ChooseCommand, Become, _legacy_metadata_conflicts_with_pyproject
    <3>2. UNCHANGED <<job, target, worktree, top>> /\ stage # "configure"
      BY <2>3 DEF ChooseCommand, Become
    <3> QED
      BY <3>1, <3>2 DEF TargetInv, Inspected, Inspection, target, unpacked
  <2>4. CASE UNCHANGED <<job, stage, target, worktree, top>>
    BY <2>4 DEF TargetInv, Inspected, Inspection, target, unpacked
  <2>5. CASE UNCHANGED <<job, target>> /\ stage # "configure" /\ stage' # "build"
    BY <2>5 DEF TargetInv, Inspected, Inspection, target
  <2>6. MakeRoot \/ Unpack \/ ApplyPatch \/ RunBuild \/ EndMonitored \/ Collect \/ Kill
          => UNCHANGED <<job, target>> /\ stage # "configure" /\ stage' # "build"
    BY DEF MakeRoot, Unpack, ApplyPatch, RunBuild, EndMonitored, Collect, Kill, Become
  <2>7. StartMonitored \/ Finished \/ UNCHANGED buildVars \/ (MonitorNext /\ UNCHANGED helperVars)
          => UNCHANGED <<job, stage, target, worktree, top>>
    BY DEF StartMonitored, Finished, buildVars, helperVars, work
  <2> QED
    BY <2>1, <2>2, <2>3, <2>4, <2>5, <2>6, <2>7 DEF BuildNext
<1> QED
  BY <1>1, <1>2, PTL DEF BuildSpec

LEMMA ImageFinite ==
  ASSUME NEW n \in Nat, NEW f, DOMAIN f = 1 .. n
  PROVE  IsFiniteSet({f[i] : i \in 1 .. n})
<1> DEFINE T == {f[i] : i \in 1 .. n}
           g == [i \in 1 .. n |-> f[i]]
<1>1. g \in Surjection(1 .. n, T)
  BY DEF Surjection
<1>2. IsFiniteSet(1 .. n)
  BY FS_Interval
<1> QED
  BY <1>1, <1>2, FS_Surjection

\* All of an sdist is below its one directory, and the tree is finite.
LEMMA OneTop ==
  ASSUME NEW a, Sdist(a), Cardinality(Tops(ToSet(a.members))) = 1, NEW t \in Tops(ToSet(a.members)),
         DOMAIN Under(a.text, t) # {}
  PROVE  /\ \A m \in ToSet(a.members) : Head(m) = t
         /\ IsFiniteSet(DOMAIN Under(a.text, t))
<1> DEFINE n == Len(a.members)
           heads == [i \in 1 .. n |-> Head(a.members[i])]
           rests == [i \in 1 .. n |-> Tail(a.members[i])]
<1>1. n \in Nat /\ DOMAIN a.members = 1 .. n
  BY DEF Sdist
<1>2. \A m : m \in ToSet(a.members) <=> \E i \in 1 .. n : m = a.members[i]
  BY <1>1 DEF ToSet
<1>9. \A i \in 1 .. n : heads[i] = Head(a.members[i]) /\ rests[i] = Tail(a.members[i])
  OBVIOUS
<1>10. DOMAIN heads = 1 .. n /\ DOMAIN rests = 1 .. n
  OBVIOUS
<1> HIDE DEF heads, rests, n
<1>3. Tops(ToSet(a.members)) = {heads[i] : i \in 1 .. n}
  <2>1. \A m \in ToSet(a.members) : \E i \in 1 .. n : Head(m) = heads[i]
    BY <1>2, <1>9
  <2>2. \A i \in 1 .. n : a.members[i] \in ToSet(a.members) /\ heads[i] = Head(a.members[i])
    BY <1>2, <1>9
  <2>3. ASSUME NEW h \in Tops(ToSet(a.members)) PROVE h \in {heads[i] : i \in 1 .. n}
    <3>1. PICK m \in ToSet(a.members) : h = Head(m)
      BY DEF Tops
    <3>2. PICK i \in 1 .. n : Head(m) = heads[i]
      BY <2>1
    <3> QED
      BY <3>1, <3>2
  <2>4. ASSUME NEW i \in 1 .. n PROVE heads[i] \in Tops(ToSet(a.members))
    BY <2>2 DEF Tops
  <2> QED
    BY <2>3, <2>4
<1>4. PICK x : Tops(ToSet(a.members)) = {x}
  <2>1. IsFiniteSet({heads[i] : i \in 1 .. n})
    BY <1>1, <1>10, ImageFinite, Zenon
  <2> QED
    BY <1>3, <2>1, FS_Singleton, Zenon
<1>5. \A m \in ToSet(a.members) : Head(m) = t
  BY <1>4 DEF Tops
<1>6. \A m \in DOMAIN Under(a.text, t) : \E k \in ToSet(a.members) : m = Tail(k)
  BY <1>5, TreeIsArchive
<1>7. DOMAIN Under(a.text, t) \subseteq {rests[i] : i \in 1 .. n}
  <2> SUFFICES ASSUME NEW m \in DOMAIN Under(a.text, t)
               PROVE  m \in {rests[i] : i \in 1 .. n}
    OBVIOUS
  <2>1. PICK k \in ToSet(a.members) : m = Tail(k)
    BY <1>6
  <2>2. PICK i \in 1 .. n : k = a.members[i]
    BY <1>2
  <2> QED
    BY <1>9, <2>1, <2>2, Zenon
<1>8. IsFiniteSet({rests[i] : i \in 1 .. n})
  BY <1>1, <1>10, ImageFinite, Zenon
<1> QED
  BY <1>5, <1>7, <1>8, FS_Subset

\* The suffixes and the scripts of an archive are those of its tree.
LEMMA SuffixesOfTree ==
  ASSUME NEW a, Sdist(a), NEW t, \A m \in ToSet(a.members) : Head(m) = t, DOMAIN Under(a.text, t) # {},
         NEW files, files = DOMAIN Under(a.text, t)
  PROVE  suffixes(a) = {Suffix[Last(m)] : m \in {n \in files : Last(n) \in DOMAIN Suffix}}
<1>1. \A n \in ToSet(a.members) : n \in Names /\ Len(n) > 1 /\ Tail(n) \in files
  BY TreeIsArchive
<1>2. \A m \in files : \E n \in ToSet(a.members) : m = Tail(n)
  BY TreeIsArchive, ZenonT(40)
<1>3. \A n \in ToSet(a.members) : Last(Tail(n)) = Last(n)
  BY <1>1, NameParts
<1>5. \A n \in {k \in ToSet(a.members) : Last(k) \in DOMAIN Suffix} :
        \E m \in {k \in files : Last(k) \in DOMAIN Suffix} : Suffix[Last(n)] = Suffix[Last(m)]
  BY <1>1, <1>3, Zenon
<1>6. \A m \in {k \in files : Last(k) \in DOMAIN Suffix} :
        \E n \in {k \in ToSet(a.members) : Last(k) \in DOMAIN Suffix} : Suffix[Last(n)] = Suffix[Last(m)]
  BY <1>2, <1>3, Zenon
<1>7. suffixes(a) = {Suffix[Last(m)] : m \in {n \in ToSet(a.members) : Last(n) \in DOMAIN Suffix}}
  BY DEF suffixes
<1>8. ASSUME NEW x
      PROVE  /\ x \in suffixes(a) <=> \E n \in {k \in ToSet(a.members) : Last(k) \in DOMAIN Suffix} : x = Suffix[Last(n)]
             /\ x \in {Suffix[Last(m)] : m \in {n \in files : Last(n) \in DOMAIN Suffix}}
                  <=> \E m \in {n \in files : Last(n) \in DOMAIN Suffix} : x = Suffix[Last(m)]
  BY <1>7, Zenon
<1> QED
  BY <1>5, <1>6, <1>8

\* The last two parts of a name that has more are those of its rest.
LEMMA RestParts ==
  ASSUME NEW n \in Names, Len(n) > 1
  PROVE  /\ Last(Tail(n)) = Last(n)
         /\ Len(n) = 2 => Len(Tail(n)) = 1 /\ n[Len(n) - 1] = Head(n) /\ Last(n) = n[2]
         /\ Len(n) # 2 => Len(Tail(n)) >= 2 /\ Tail(n)[Len(Tail(n)) - 1] = n[Len(n) - 1]
<1>1. /\ Len(n) \in Nat \ {0} /\ Head(n) = n[1] /\ Len(Tail(n)) = Len(n) - 1
      /\ \A i \in 1 .. Len(n) - 1 : Tail(n)[i] = n[i + 1]
      /\ Last(Tail(n)) = Last(n)
  BY NameParts
<1>5. Len(n) \in Nat /\ Len(n) > 1
  BY <1>1
<1>2. CASE Len(n) = 2
  <2>1. Len(n) - 1 = 1
    BY <1>2
  <2> QED
    BY <1>1, <1>2, <2>1, Zenon DEF Last
<1>3. CASE Len(n) # 2
  <2>1. Len(n) - 2 \in 1 .. Len(n) - 1 /\ Len(n) - 2 + 1 = Len(n) - 1 /\ Len(n) - 1 >= 2
    <3>1. \A k \in Nat : k > 1 /\ k # 2 => k - 2 \in 1 .. k - 1 /\ k - 2 + 1 = k - 1 /\ k - 1 >= 2
      OBVIOUS
    <3> QED
      BY <1>3, <1>5, <3>1, Zenon
  <2>2. Len(Tail(n)) - 1 = Len(n) - 2
    BY <1>1, <1>5
  <2>3. Tail(n)[Len(n) - 2] = n[Len(n) - 2 + 1]
    BY <1>1, <2>1, Zenon
  <2>4. Tail(n)[Len(Tail(n)) - 1] = n[Len(n) - 1]
    BY <2>1, <2>2, <2>3, Zenon
  <2> QED
    BY <1>1, <1>3, <2>1, <2>4, Zenon
<1> QED
  BY <1>1, <1>2, <1>3, Zenon

OwnEntries(files, project) ==
  {m \in DOMAIN files : /\ Len(m) >= 2 /\ Last(m) = "entry_points.txt"
                        /\ m[Len(m) - 1] \in DOMAIN EggInfo
                        /\ EggInfo[m[Len(m) - 1]] = project}

\* The one entry points of the tree that is the project's own is the one the
\* inspection found.
LEMMA ScriptsOfTree ==
  ASSUME NEW a, Sdist(a), Cardinality(Tops(ToSet(a.members))) = 1, NEW t \in Tops(ToSet(a.members)),
         {<<"pyproject.toml">>, <<"setup.py">>} \cap DOMAIN Under(a.text, t) # {},
         NEW project, project = TextOf(Under(a.text, t), <<"PKG-INFO">>).name, project # None,
         Cardinality(OwnEntries(Under(a.text, t), project)) = 1
  PROVE  \E n \in ToSet(a.members) : /\ EntryPoints(a) = {n}
                                     /\ OwnEntries(Under(a.text, t), project) = {Tail(n)}
                                     /\ Under(a.text, t)[Tail(n)] = a.text[n]
<1> DEFINE M == ToSet(a.members)
           files == Under(a.text, t)
           own == OwnEntries(files, project)
<1>1. \A m \in M : Head(m) = t
  BY OneTop
<1>2. IsFiniteSet(DOMAIN files)
  BY OneTop
<1>3. /\ \A n \in M : n \in Names /\ Len(n) \in Nat /\ Len(n) > 1
      /\ \A n \in M : Tail(n) \in DOMAIN files /\ files[Tail(n)] = a.text[n]
      /\ \A m \in DOMAIN files : \E n \in M : m = Tail(n) /\ n = <<t>> \o m
  <2>1. /\ M \subseteq Names
        /\ \A n \in M : Len(n) > 1 /\ Tail(n) \in DOMAIN files /\ files[Tail(n)] = a.text[n]
        /\ \A m \in DOMAIN files : \E n \in M : m = Tail(n) /\ n = <<t>> \o m
    BY <1>1, TreeIsArchive, ZenonT(40)
  <2>2. \A n \in M : Len(n) \in Nat
    BY <2>1, NameParts
  <2> QED
    BY <2>1, <2>2
<1>20. {<<"pyproject.toml">>, <<"setup.py">>} \cap DOMAIN files # {}
       /\ project = TextOf(files, <<"PKG-INFO">>).name /\ Cardinality(own) = 1
  OBVIOUS
<1> HIDE DEF M, files
<1>4. ASSUME NEW n \in M
      PROVE  /\ Head(n) = t /\ Last(Tail(n)) = Last(n)
             /\ Len(n) = 2 => Len(Tail(n)) = 1 /\ n[Len(n) - 1] = t /\ Last(n) = n[2]
             /\ Len(n) # 2 => Len(Tail(n)) >= 2 /\ Tail(n)[Len(Tail(n)) - 1] = n[Len(n) - 1]
  BY <1>1, <1>3, RestParts, Zenon
<1>5. ASSUME NEW n \in M, NEW file
      PROVE  Tail(n) = <<file>> <=> Last(n) = file /\ Len(n) = 2
  <2>1. Tail(n) = <<file>> <=> Len(n) = 2 /\ n[2] = file
    BY <1>3, SecondPart, Zenon
  <2> QED
    BY <1>4, <2>1, Zenon
<1>6. t \notin DOMAIN EggInfo
  <2>1. PICK file \in {"pyproject.toml", "setup.py"} : <<file>> \in DOMAIN files
    BY <1>20
  <2>2. PICK n \in M : Tail(n) = <<file>>
    BY <1>3, <2>1, Zenon
  <2>3. Last(n) = file
    BY <1>5, <2>2, Zenon
  <2> QED
    BY <1>4, <2>1, <2>3, Zenon DEF Sdist, M
<1> DEFINE pkg_info == {m \in M : Last(m) = "PKG-INFO" /\ Len(m) = 2}
           egg_info == {m \in M : Len(m) >= 2 /\ Last(m) = "entry_points.txt" /\ m[Len(m) - 1] \in DOMAIN EggInfo}
<1>7. PICK p : pkg_info = {p} /\ a.text[p].name = project
  <2>1. <<"PKG-INFO">> \in DOMAIN files /\ project = files[<<"PKG-INFO">>].name
    BY <1>20 DEF TextOf, NoText
  <2>2. PICK p \in M : Tail(p) = <<"PKG-INFO">> /\ p = <<t>> \o <<"PKG-INFO">>
    BY <1>3, <2>1, Zenon
  <2>6. \A m \in M : Tail(m) = <<"PKG-INFO">> <=> Last(m) = "PKG-INFO" /\ Len(m) = 2
    BY <1>5, Zenon
  <2>7. \A m \in M : m = <<t>> \o Tail(m)
    BY <1>3, <1>4, NameParts, Zenon
  <2>3. p \in pkg_info
    BY <2>2, <2>6, Zenon
  <2>4. \A m \in pkg_info : m = p
    BY <2>2, <2>6, <2>7, Zenon
  <2>5. a.text[p].name = project
    BY <1>3, <2>1, <2>2, Zenon
  <2> HIDE DEF pkg_info
  <2> QED
    BY <2>3, <2>4, <2>5
<1>8. EntryPoints(a) = {m \in egg_info : EggInfo[m[Len(m) - 1]] = project}
  <2>1. Cardinality(pkg_info) = 1 /\ (CHOOSE m \in pkg_info : TRUE) = p
    BY <1>7, FS_Singleton
  <2>2. Cardinality({Head(m) : m \in M}) = 1
    BY DEF Tops, M
  <2> QED
    BY <1>7, <2>1, <2>2 DEF EntryPoints, M
<1>14. \A n \in M : n \in EntryPoints(a) <=>
          /\ Len(n) >= 2 /\ Last(n) = "entry_points.txt"
          /\ n[Len(n) - 1] \in DOMAIN EggInfo /\ EggInfo[n[Len(n) - 1]] = project
  BY <1>8, Zenon
<1>15. \A m \in DOMAIN files : m \in own <=>
          /\ Len(m) >= 2 /\ Last(m) = "entry_points.txt"
          /\ m[Len(m) - 1] \in DOMAIN EggInfo /\ EggInfo[m[Len(m) - 1]] = project
  BY Zenon DEF OwnEntries
<1>9. \A n \in M : n \in EntryPoints(a) <=> Tail(n) \in own
  <2> SUFFICES ASSUME NEW n \in M PROVE n \in EntryPoints(a) <=> Tail(n) \in own
    BY Zenon
  <2>1. CASE Len(n) = 2
    <3>1. n \notin EntryPoints(a)
      BY <1>4, <1>6, <1>14, <2>1, Zenon
    <3>2. Len(Tail(n)) = 1
      BY <1>4, <2>1, Zenon
    <3>3. ~ (Len(Tail(n)) >= 2)
      <4>1. ~ (1 >= 2)
        OBVIOUS
      <4> QED
        BY <3>2, <4>1, Zenon
    <3> QED
      BY <3>1, <3>3, <1>15, <1>3, Zenon
  <2>2. CASE Len(n) # 2
    <3>1. Len(n) >= 2
      BY <1>3
    <3> QED
      BY <1>3, <1>4, <1>14, <1>15, <2>2, <3>1, ZenonT(40)
  <2> QED
    BY <2>1, <2>2, Zenon
<1>10. PICK x : own = {x}
  <2>1. IsFiniteSet(own)
    BY <1>2, FS_Subset DEF OwnEntries
  <2> QED
    BY <1>20, <2>1, FS_Singleton
<1>19. own \subseteq DOMAIN files
  BY DEF OwnEntries
<1>11. PICK n \in M : x = Tail(n) /\ n = <<t>> \o x
  BY <1>3, <1>10, <1>19, Zenon
<1>12. EntryPoints(a) \subseteq M
  BY <1>8
<1> HIDE DEF pkg_info, egg_info
<1>13. \A k \in EntryPoints(a) : k = n
  <2> SUFFICES ASSUME NEW k \in EntryPoints(a) PROVE k = n
    BY Zenon
  <2>1. k \in M /\ Tail(k) = x
    BY <1>9, <1>10, <1>12, Zenon
  <2> QED
    BY <1>3, <1>4, <1>11, <2>1, NameParts, Zenon
<1>16. n \in EntryPoints(a)
  BY <1>9, <1>10, <1>11, Zenon
<1>17. EntryPoints(a) = {n}
  BY <1>13, <1>16, Zenon
<1>18. own = {Tail(n)} /\ files[Tail(n)] = a.text[n]
  BY <1>3, <1>10, <1>11, Zenon
<1> QED
  BY <1>17, <1>18, Zenon DEF M, files

Configs(files) == {<<"pyproject.toml">>, <<"setup.py">>, <<"setup.cfg">>} \cap DOMAIN files
Required(files) == UNION {files[m].requires : m \in Configs(files)}
Implied(files) == IF <<"pyproject.toml">> \in Configs(files) THEN {} ELSE {"setuptools", "wheel"}

\* What the tree requires is what the inspection declares.
LEMMA DeclaredOfTree ==
  ASSUME NEW a, NEW files,
         \A file : /\ Read(a, _find_config_file(a, file)) = TextOf(files, <<file>>)
                   /\ _find_config_file(a, file) = NoFile <=> <<file>> \notin DOMAIN files,
         TextOf(files, <<"setup.py">>).setup = "called",
         {<<"pyproject.toml">>, <<"setup.py">>} \cap DOMAIN files # {}
  PROVE  Required(files) \cup Implied(files) \subseteq declared(a)
<1>1. declared(a) = TextOf(files, <<"pyproject.toml">>).requires \cup TextOf(files, <<"setup.cfg">>).requires
                    \cup TextOf(files, <<"setup.py">>).requires
                    \cup IF <<"pyproject.toml">> \notin DOMAIN files /\ <<"setup.py">> \in DOMAIN files
                         THEN {"setuptools", "wheel"} ELSE {}
  BY DEF declared, _parse_setup_py_requires
<1>2. \A m \in DOMAIN files : TextOf(files, m) = files[m]
  BY DEF TextOf
<1>3. \A m \in Configs(files) : files[m].requires \subseteq declared(a)
  BY <1>1, <1>2 DEF Configs
<1>4. Implied(files) \subseteq declared(a)
  BY <1>1 DEF Implied, Configs
<1>5. Required(files) \subseteq declared(a)
  <2> SUFFICES ASSUME NEW x \in Required(files) PROVE x \in declared(a)
    BY Zenon
  <2>1. PICK m \in Configs(files) : x \in files[m].requires
    BY Zenon DEF Required
  <2> QED
    BY <1>3, <2>1, Zenon
<1> QED
  BY <1>4, <1>5

\* With the inspection of an archive that can be right, the target fits.
LEMMA InspectedFits ==
  ASSUME BuildInv, TargetInv, stage = "build", Inspectable
  PROVE  TargetFitsTree
<1> DEFINE a == job.archive
           config == {<<"pyproject.toml">>, <<"setup.py">>, <<"setup.cfg">>} \cap DOMAIN unpacked
           wanted == (UNION {unpacked[m].requires : m \in config})
                     \cup (IF <<"pyproject.toml">> \in config THEN {} ELSE {"setuptools", "wheel"})
           sources == {Suffix[Last(m)] : m \in {n \in DOMAIN unpacked : Last(n) \in DOMAIN Suffix}}
           project == TextOf(unpacked, <<"PKG-INFO">>).name
           own == {m \in DOMAIN unpacked : /\ Len(m) >= 2 /\ Last(m) = "entry_points.txt"
                                           /\ m[Len(m) - 1] \in DOMAIN EggInfo
                                           /\ EggInfo[m[Len(m) - 1]] = project}
<1>1. top \in Tops(ToSet(a.members)) /\ unpacked = Under(a.text, top)
  <2>1. /\ top \in Tops(ToSet(job.archive.members)) /\ worktree = Patched(job, top, next - 1)
        /\ next = Len(job.patches) + 1 /\ job.patches = << >>
    BY DEF BuildInv, Unpacked, AllPatched, Inspectable
  <2>2. next - 1 = 0
    BY <2>1
  <2>3. worktree = job.archive.text
    BY <2>1, <2>2, PatchedNone DEF BuildInv
  <2> QED
    BY <2>1, <2>3 DEF unpacked
<1>2. /\ {<<"pyproject.toml">>, <<"setup.py">>} \cap DOMAIN unpacked # {}
      /\ DOMAIN unpacked # {} /\ Sdist(a) /\ Inspected
  BY DEF TargetInv
<1>3. Cardinality(Tops(ToSet(a.members))) = 1 /\ job.tool
  BY DEF Inspectable
<1> HIDE DEF a
<1>4. \A m \in ToSet(a.members) : Head(m) = top
  BY <1>1, <1>2, <1>3, OneTop
<1>5. \A file : /\ Read(a, _find_config_file(a, file)) = TextOf(unpacked, <<file>>)
                /\ _find_config_file(a, file) = NoFile <=> <<file>> \notin DOMAIN unpacked
  BY <1>1, <1>2, <1>4, ConfigFound
<1>6. \A m : TextOf(unpacked, m).valid /\ TextOf(unpacked, m).setup = "called"
  BY DEF Inspectable, TextOf, NoText
<1>7. /\ Inspection.is_native = (suffixes(a) \cap NATIVE_EXTENSIONS # {})
      /\ Inspection.extra_deps = ((declared(a) \cup inferred(a)) \cap job.lock) \ job.deps
      /\ Inspection.console_scripts = IF Cardinality(EntryPoints(a)) = 1
                                      THEN a.text[CHOOSE m \in EntryPoints(a) : TRUE].scripts ELSE {}
  <2>1. \A t \in {Read(a, _find_config_file(a, f)) : f \in {"pyproject.toml", "setup.cfg", "setup.py"}} :
          t.valid /\ t.setup # "hangs"
    BY <1>5, <1>6
  <2>2. Inspection = detect(a, job.deps, job.lock)
    BY <1>3 DEF Inspection, a
  <2> QED
    BY <2>1, <2>2 DEF detect
<1>8. (declared(a) \cup inferred(a)) \cap job.lock \subseteq deps
  BY <1>2, <1>7 DEF Inspected
<1>9. wanted \cap job.lock \subseteq deps
  <2>1. Required(unpacked) \cup Implied(unpacked) \subseteq declared(a)
    BY <1>2, <1>5, <1>6, DeclaredOfTree
  <2>2. wanted = Required(unpacked) \cup Implied(unpacked)
    BY DEF Required, Implied, Configs
  <2> HIDE DEF wanted
  <2> QED
    BY <1>8, <2>1, <2>2
<1>10. suffixes(a) = sources
  BY <1>1, <1>2, <1>4, SuffixesOfTree
<1>11. "pyx" \in sources => "cython" \in inferred(a)
  BY <1>10 DEF inferred, EXTENSION_TO_BUILD_DEP
<1>12. job.is_native = "auto" => (rule = "native") = (sources \cap NATIVE_EXTENSIONS # {})
  BY <1>2, <1>7, <1>10 DEF Inspected
<1>13. ASSUME project # None, Cardinality(own) = 1, NEW m \in own
       PROVE  scripts = unpacked[m].scripts
  <2>1. PICK n \in ToSet(a.members) :
          EntryPoints(a) = {n} /\ own = {Tail(n)} /\ unpacked[Tail(n)] = a.text[n]
    <3>1. /\ Sdist(a) /\ Cardinality(Tops(ToSet(a.members))) = 1 /\ top \in Tops(ToSet(a.members))
          /\ unpacked = Under(a.text, top)
          /\ {<<"pyproject.toml">>, <<"setup.py">>} \cap DOMAIN unpacked # {}
      BY <1>1, <1>2, <1>3
    <3>2. own = OwnEntries(unpacked, project)
      BY DEF OwnEntries
    <3> HIDE DEF own
    <3>3. project # None /\ Cardinality(own) = 1
      BY <1>13, Zenon
    <3> HIDE DEF project
    <3>4. project = TextOf(Under(a.text, top), <<"PKG-INFO">>).name
          /\ Cardinality(OwnEntries(Under(a.text, top), project)) = 1
      BY <3>1, <3>2, <3>3 DEF project
    <3>5. \E n \in ToSet(a.members) : /\ EntryPoints(a) = {n}
                                      /\ OwnEntries(Under(a.text, top), project) = {Tail(n)}
                                      /\ Under(a.text, top)[Tail(n)] = a.text[n]
      BY <3>1, <3>3, <3>4, ScriptsOfTree
    <3> QED
      BY <3>1, <3>2, <3>5
  <2>2. Cardinality(EntryPoints(a)) = 1 /\ (CHOOSE k \in EntryPoints(a) : TRUE) = n
    BY <2>1, FS_Singleton
  <2>3. Inspection.console_scripts = a.text[n].scripts
    BY <1>7, <2>2
  <2> QED
    BY <1>2, <1>13, <2>1, <2>3 DEF Inspected
<1> QED
  BY <1>8, <1>9, <1>11, <1>12, <1>13 DEF TargetFitsTree

\* What is about to be built is what the target was generated for, for any
\* archive whose files parse and whose setup.py calls setup(): the inspection
\* looked at other paths, in other code, before the archive was unpacked
\* (detect_native.py, detect; build_helper.py, main).
THEOREM TargetFitsTreeCorrect == BuildSpec => []TargetFitsTree
<1>1. BuildInv /\ TargetInv => TargetFitsTree
  <2>1. CASE stage = "build" /\ Inspectable
    BY <2>1, InspectedFits
  <2>2. CASE ~ (stage = "build" /\ Inspectable)
    BY <2>2 DEF TargetFitsTree
  <2> QED
    BY <2>1, <2>2
<1> QED
  BY <1>1, BuildInvariance, TargetInvariance, PTL

-----------------------------------------------------------------------------
(* The platform of the wheel.                                              *)

\* The helper's two questions, asked of one tag, settle whether it fits.
LEMMA PlatformOkIsFit ==
  ASSUME NEW tag, tag = NoneAny \/ \E p \in PlatformTags : tag = p[3],
         NEW want, want = NoTarget \/ \E p \in PlatformTags : want = [os |-> p[1], cpu |-> p[2]],
         want # [os |-> "windows", cpu |-> "x86"],
         NEW host \in {"linux", "darwin", "windows"}
  PROVE  _wheel_platform_ok(tag, want, host) <=> want = NoTarget \/ FitsPlatform(tag, want)
<1>1. CASE want = NoTarget \/ tag = NoneAny
  BY <1>1 DEF _wheel_platform_ok, FitsPlatform
<1> SUFFICES ASSUME want # NoTarget, tag # NoneAny
             PROVE  _wheel_platform_ok(tag, want, host) <=> <<want.os, want.cpu, tag>> \in PlatformTags
  BY <1>1 DEF FitsPlatform
<1> DEFINE fit == <<want.os, want.cpu, tag>> \in PlatformTags
           os == wheel_os(want.os)
           cpu == wheel_cpu(want.os, want.cpu)
           named == os \in tag /\ ((want.os = "darwin" /\ "universal2" \in tag) \/ cpu \in tag)
<1>2. \/ tag = {"linux", "x86_64"} \/ tag = {"linux", "i686"} \/ tag = {"linux", "aarch64"} \/ tag = {"linux", "armv7l"}
      \/ tag = {"macosx", "x86_64"} \/ tag = {"macosx", "universal2"} \/ tag = {"macosx", "arm64"}
      \/ tag = {"win", "amd64"} \/ tag = {"win", "arm64"} \/ tag = {"win", "32"}
  BY DEF PlatformTags
<1>3. \/ want = [os |-> "linux", cpu |-> "x86_64"] /\ os = "linux" /\ cpu = "x86_64"
      \/ want = [os |-> "linux", cpu |-> "x86"] /\ os = "linux" /\ cpu = "i686"
      \/ want = [os |-> "linux", cpu |-> "aarch64"] /\ os = "linux" /\ cpu = "aarch64"
      \/ want = [os |-> "linux", cpu |-> "arm"] /\ os = "linux" /\ cpu = "armv7l"
      \/ want = [os |-> "darwin", cpu |-> "x86_64"] /\ os = "macosx" /\ cpu = "x86_64"
      \/ want = [os |-> "darwin", cpu |-> "aarch64"] /\ os = "macosx" /\ cpu = "arm64"
      \/ want = [os |-> "windows", cpu |-> "x86_64"] /\ os = "win" /\ cpu = "amd64"
      \/ want = [os |-> "windows", cpu |-> "aarch64"] /\ os = "win" /\ cpu = "arm64"
  BY DEF PlatformTags, wheel_os, wheel_cpu
<1>4. named <=> fit
  <2> HIDE DEF os, cpu
  <2>1. named => fit
    BY <1>2, <1>3 DEF PlatformTags
  <2>2. fit => named
    BY <1>2, <1>3 DEF PlatformTags
  <2> QED
    BY <2>1, <2>2
<1>5. os \in tag => want.os = host \/ wheel_os(host) \notin tag
  <2> HIDE DEF cpu
  <2>1. wheel_os("linux") = "linux" /\ wheel_os("darwin") = "macosx" /\ wheel_os("windows") = "win"
    BY DEF wheel_os
  <2>2. want.os \in {"linux", "darwin", "windows"}
    BY <1>3
  <2>3. ~({"linux", "macosx"} \subseteq tag) /\ ~({"linux", "win"} \subseteq tag) /\ ~({"macosx", "win"} \subseteq tag)
    BY <1>2
  <2> QED
    BY <2>1, <2>2, <2>3
<1> HIDE DEF fit
<1> QED
  BY <1>4, <1>5 DEF _wheel_platform_ok, fit

\* A withdrawn patch changes neither the target nor the host.
PlatformInv ==
  /\ {"target", "host", "patches"} \subseteq DOMAIN job
  /\ job.target = NoTarget \/ \E p \in PlatformTags : job.target = [os |-> p[1], cpu |-> p[2]]
  /\ job.host \in {"linux", "darwin", "windows"}

LEMMA PlatformInvariance == BuildSpec => []PlatformInv
<1>1. BuildInit => PlatformInv
  BY JobsAssumption, PlatformsAssumption DEF BuildInit, PlatformInv
<1>2. PlatformInv /\ [BuildNext]_buildVars => PlatformInv'
  <2> SUFFICES ASSUME PlatformInv, [BuildNext]_buildVars PROVE PlatformInv'
    OBVIOUS
  <2>1. CASE RunAgain
    <3>1. job' \in {job, [job EXCEPT !.patches = << >>]}
      BY <2>1 DEF RunAgain
    <3>2. DOMAIN job' = DOMAIN job /\ job'.target = job.target /\ job'.host = job.host
      BY <3>1 DEF PlatformInv
    <3> QED
      BY <3>2 DEF PlatformInv
  <2>2. CASE job' = job
    BY <2>2 DEF PlatformInv
  <2>3. BuildNext /\ ~RunAgain => job' = job
    BY DEF BuildNext, Configure, MakeRoot, Unpack, ApplyPatch, ChooseCommand, RunBuild, StartMonitored,
           EndMonitored, Collect, Kill, Finished, Become, buildVars, helperVars
  <2>4. UNCHANGED buildVars => job' = job
    BY DEF buildVars, helperVars
  <2> QED
    BY <2>1, <2>2, <2>3, <2>4
<1> QED
  BY <1>1, <1>2, PTL DEF BuildSpec

\* A build delivers exactly when it left one wheel, whose platform is the one
\* asked for and, under the pure rule, none: whatever the job, however the tag
\* and Bazel spell that platform, and whichever platform the build ran on
\* (build_helper.py, _wheel_platform_error).
THEOREM WheelFitsCorrect == BuildSpec => WheelFits
<1> DEFINE Fits ==
      stage = "collect" /\ stage' \in {"done", "failed"} /\ job.target # [os |-> "windows", cpu |-> "x86"] =>
       (stage' = "done" <=>
          /\ Cardinality(dist) = 1
          /\ \A w \in dist : /\ rule = "pure" => w.tag = NoneAny
                             /\ job.target = NoTarget \/ FitsPlatform(w.tag, job.target))
<1>1. BuildInv /\ PlatformInv /\ [BuildNext]_buildVars => [Fits]_buildVars
  <2> SUFFICES ASSUME BuildInv, PlatformInv, BuildNext, stage = "collect", stage' \in {"done", "failed"},
                      job.target # [os |-> "windows", cpu |-> "x86"]
               PROVE  stage' = "done" <=>
                        /\ Cardinality(dist) = 1
                        /\ \A w \in dist : /\ rule = "pure" => w.tag = NoneAny
                                           /\ job.target = NoTarget \/ FitsPlatform(w.tag, job.target)
    OBVIOUS
  <2>1. Collect
    BY DEF BuildNext, Configure, MakeRoot, Unpack, ApplyPatch, ChooseCommand, RunBuild, StartMonitored,
           EndMonitored, Kill, RunAgain, Finished, Become, Ended, helperVars, buildVars
  <2>2. \A w \in dist : _wheel_platform_ok(w.tag, job.target, job.host)
                          <=> job.target = NoTarget \/ FitsPlatform(w.tag, job.target)
    <3> TAKE w \in dist
    <3>1. w.tag \in Tags
      BY DEF BuildInv, Delivers
    <3>2. w.tag = NoneAny \/ \E p \in PlatformTags : w.tag = p[3]
      BY <3>1, PlatformsAssumption
    <3> QED
      BY <3>2, PlatformOkIsFit DEF PlatformInv
  <2>3. stage' = "done" <=>
          /\ Cardinality(dist) = 1
          /\ \A w \in dist : /\ rule = "pure" => w.tag = NoneAny
                             /\ _wheel_platform_ok(w.tag, job.target, job.host)
    BY <2>1 DEF Collect, Become
  <2> QED
    BY <2>2, <2>3
<1> QED
  BY <1>1, BuildInvariance, PlatformInvariance, PTL DEF BuildSpec, WheelFits
=============================================================================
