------------------------ MODULE VenvResolutionProofs ------------------------
(***************************************************************************)
(* Proofs about the prefix data, the distribution metadata, the outputs,   *)
(* the manifest and what Python finds, of VenvResolution, VenvCollisions   *)
(* and ModuleManifest, for any wheels and paths of any depth.              *)
(***************************************************************************)
EXTENDS ModuleManifest, SequenceTheorems, FiniteSetTheorems, WellFoundedInduction, TLAPS

-----------------------------------------------------------------------------
(* Paths.                                                                  *)

Paths == Seq(STRING) \ {<< >>}

LEMMA AboveParts ==
  ASSUME NEW p \in Paths, NEW q
  PROVE  q \in Data!Ancestors(p) <=>
           q \in Paths /\ Len(q) < Len(p) /\ \A i \in 1 .. Len(q) : q[i] = p[i]
<1>1. Len(p) \in Nat \ {0} /\ \A i \in 1 .. Len(p) : p[i] \in STRING
  BY DEF Paths
<1>2. ASSUME NEW n \in 1 .. Len(p)
      PROVE  /\ SubSeq(p, 1, n) \in Paths /\ Len(SubSeq(p, 1, n)) = n
             /\ \A i \in 1 .. n : SubSeq(p, 1, n)[i] = p[i]
  <2>1. n \in Nat \ {0} /\ n \in Int /\ 1 \in Int /\ \A i \in 1 .. n : p[i] \in STRING
    BY <1>1
  <2>2. /\ SubSeq(p, 1, n) \in Seq(STRING)
        /\ Len(SubSeq(p, 1, n)) = IF 1 <= n THEN n - 1 + 1 ELSE 0
        /\ \A i \in 1 .. n - 1 + 1 : SubSeq(p, 1, n)[i] = p[1 + i - 1]
    BY <2>1, SubSeqProperties
  <2>3. Len(SubSeq(p, 1, n)) = n
    BY <2>1, <2>2
  <2> QED
    BY <2>1, <2>2, <2>3 DEF Paths
<1>3. ASSUME q \in Data!Ancestors(p)
      PROVE  q \in Paths /\ Len(q) < Len(p) /\ \A i \in 1 .. Len(q) : q[i] = p[i]
  <2>1. PICK n \in 1 .. Len(p) - 1 : q = SubSeq(p, 1, n)
    BY <1>3 DEF Data!Ancestors
  <2>2. n \in 1 .. Len(p)
    BY <1>1
  <2> QED
    BY <1>1, <1>2, <2>1, <2>2
<1>4. ASSUME q \in Paths, Len(q) < Len(p), \A i \in 1 .. Len(q) : q[i] = p[i]
      PROVE  q \in Data!Ancestors(p)
  <2>1. Len(q) \in 1 .. Len(p) - 1 /\ Len(q) \in 1 .. Len(p)
    BY <1>1, <1>4 DEF Paths
  <2> DEFINE r == SubSeq(p, 1, Len(q))
  <2>2. r \in Paths /\ Len(r) = Len(q) /\ \A i \in 1 .. Len(q) : r[i] = q[i]
    BY <1>2, <1>4, <2>1
  <2>3. r = q
    BY <1>4, <2>2, SeqEqual DEF Paths
  <2> QED
    BY <2>1, <2>3 DEF Data!Ancestors
<1> QED
  BY <1>3, <1>4

LEMMA AboveTrans ==
  ASSUME NEW p \in Paths, NEW q \in Data!Ancestors(p), NEW r \in Data!Ancestors(q)
  PROVE  r \in Data!Ancestors(p)
<1>1. /\ q \in Paths /\ Len(q) < Len(p) /\ \A i \in 1 .. Len(q) : q[i] = p[i]
      /\ r \in Paths /\ Len(r) < Len(q) /\ \A i \in 1 .. Len(r) : r[i] = q[i]
  BY AboveParts
<1>2. Len(p) \in Nat /\ Len(q) \in Nat /\ Len(r) \in Nat
  BY <1>1 DEF Paths
<1> QED
  BY <1>1, <1>2, AboveParts

LEMMA AboveHead ==
  ASSUME NEW p \in Paths, NEW q \in Data!Ancestors(p)
  PROVE  q \in Paths /\ q[1] = p[1] /\ q # p
<1>1. q \in Paths /\ Len(q) < Len(p) /\ \A i \in 1 .. Len(q) : q[i] = p[i]
  BY AboveParts
<1>2. 1 \in 1 .. Len(q) /\ Len(q) # Len(p)
  BY <1>1 DEF Paths
<1> QED
  BY <1>1, <1>2

\* The paths above one path are in a line.
LEMMA AboveChain ==
  ASSUME NEW p \in Paths, NEW q \in Data!Ancestors(p), NEW r \in Data!Ancestors(p)
  PROVE  q = r \/ q \in Data!Ancestors(r) \/ r \in Data!Ancestors(q)
<1>1. /\ q \in Paths /\ \A i \in 1 .. Len(q) : q[i] = p[i]
      /\ r \in Paths /\ \A i \in 1 .. Len(r) : r[i] = p[i]
  BY AboveParts
<1>2. Len(q) \in Nat /\ Len(r) \in Nat
  BY <1>1 DEF Paths
<1>3. CASE Len(q) = Len(r)
  BY <1>1, <1>3, SeqEqual DEF Paths
<1>4. CASE Len(q) < Len(r)
  <2>1. \A i \in 1 .. Len(q) : q[i] = r[i]
    BY <1>1, <1>2, <1>4
  <2> QED
    BY <1>1, <1>4, <2>1, AboveParts
<1>5. CASE Len(r) < Len(q)
  <2>1. \A i \in 1 .. Len(r) : r[i] = q[i]
    BY <1>1, <1>2, <1>5
  <2> QED
    BY <1>1, <1>5, <2>1, AboveParts
<1> QED
  BY <1>2, <1>3, <1>4, <1>5

LEMMA PrefixAbove ==
  ASSUME NEW p \in Paths, NEW q \in Paths
  PROVE  IsPrefix(q, p) <=> q = p \/ q \in Data!Ancestors(p)
<1>1. /\ Len(p) \in Nat \ {0} /\ \A i \in 1 .. Len(p) : p[i] \in STRING
      /\ Len(q) \in Nat \ {0} /\ \A i \in 1 .. Len(q) : q[i] \in STRING
  BY DEF Paths
<1>2. ASSUME NEW s \in {p, q}, Len(q) <= Len(s)
      PROVE  /\ SubSeq(s, 1, Len(q)) \in Seq(STRING) /\ Len(SubSeq(s, 1, Len(q))) = Len(q)
             /\ \A i \in 1 .. Len(q) : SubSeq(s, 1, Len(q))[i] = s[i]
  <2> DEFINE n == Len(q)
  <2>1. n \in Nat \ {0} /\ n \in Int /\ 1 \in Int /\ \A i \in 1 .. n : s[i] \in STRING
    BY <1>1, <1>2
  <2> HIDE DEF n
  <2>2. /\ SubSeq(s, 1, n) \in Seq(STRING)
        /\ Len(SubSeq(s, 1, n)) = IF 1 <= n THEN n - 1 + 1 ELSE 0
        /\ \A i \in 1 .. n - 1 + 1 : SubSeq(s, 1, n)[i] = s[1 + i - 1]
    BY <2>1, SubSeqProperties
  <2>3. Len(SubSeq(s, 1, n)) = n
    BY <2>1, <2>2
  <2> QED
    BY <2>1, <2>2, <2>3 DEF n
<1>3. IsPrefix(q, p) <=> Len(q) <= Len(p) /\ \A i \in 1 .. Len(q) : q[i] = p[i]
  <2>1. ASSUME Len(q) <= Len(p), SubSeq(q, 1, Len(q)) = SubSeq(p, 1, Len(q))
        PROVE  \A i \in 1 .. Len(q) : q[i] = p[i]
    BY <1>1, <1>2, <2>1
  <2>2. ASSUME Len(q) <= Len(p), \A i \in 1 .. Len(q) : q[i] = p[i]
        PROVE  SubSeq(q, 1, Len(q)) = SubSeq(p, 1, Len(q))
    BY <1>1, <1>2, <2>2, SeqEqual
  <2> QED
    BY <2>1, <2>2 DEF IsPrefix
<1>4. Len(q) = Len(p) => (q = p <=> \A i \in 1 .. Len(q) : q[i] = p[i])
  BY SeqEqual DEF Paths
<1>5. q = p => Len(q) = Len(p)
  OBVIOUS
<1> QED
  BY <1>1, <1>3, <1>4, <1>5, AboveParts

-----------------------------------------------------------------------------
(* Claims.                                                                 *)

Files == UNION {wheels[w].data_files : w \in Wheel}

LEMMA FilesArePaths ==
  ASSUME wheels \in WheelSets
  PROVE  /\ Files \subseteq Paths /\ IsFiniteSet(Wheel)
         /\ \A w \in Wheel : \A f, g \in wheels[w].data_files : g \notin Data!Ancestors(f)
<1>1. Len(wheels) \in Nat /\ Wheel = 1 .. Len(wheels)
  BY WheelSetsAssumption DEF Wheel
<1>2. \A w \in Wheel : \A f \in wheels[w].data_files :
        f \in Paths /\ Data!Ancestors(f) \cap wheels[w].data_files = {}
  BY WheelSetsAssumption DEF Wheel, Paths, Ancestors, Data!Ancestors
<1>3. IsFiniteSet(Wheel)
  BY <1>1, FS_Interval
<1>4. Files \subseteq Paths
  BY <1>2 DEF Files
<1> QED
  BY <1>2, <1>3, <1>4

LEMMA LastExists ==
  ASSUME NEW k \in Nat, NEW S \in SUBSET (1 .. k), S # {}
  PROVE  \E w \in S : \A v \in S : v <= w
<1> DEFINE T == {n \in Nat : k - n \in S}
<1>1. T \subseteq Nat /\ \A w \in S : k - w \in T
  <2>1. \A w \in S : k - w \in Nat /\ k - (k - w) = w
    OBVIOUS
  <2> QED
    BY <2>1
<1>2. \A t \in T : t \in Nat /\ k - t \in S
  OBVIOUS
<1>3. T # {}
  BY <1>1
<1> HIDE DEF T
<1>4. PICK t \in T : \A u \in T : ~ (<<u, t>> \in OpToRel(<, Nat))
  BY <1>1, <1>3, WFMin, NatLessThanWellFounded, Zenon
<1>5. \A u \in T : ~ (u < t)
  BY <1>1, <1>4 DEF OpToRel
<1>6. \A v \in S : v <= k - t
  <2> TAKE v \in S
  <2>1. k - v \in T /\ t \in Nat /\ v \in Nat
    BY <1>1, <1>2
  <2>2. ~ (k - v < t)
    BY <1>5, <2>1
  <2> QED
    BY <2>1, <2>2
<1> QED
  BY <1>2, <1>6

\* The winner of a path claims it.
LEMMA WinnerClaims ==
  ASSUME wheels \in WheelSets, NEW f \in Files
  PROVE  Data!Winner(f) \in Wheel /\ f \in wheels[Data!Winner(f)].data_files
<1> DEFINE S == {w \in Wheel : f \in wheels[w].data_files}
<1>1. Data!Claimants(f) = S
  BY DEF Data!Claimants, Data!Wheel
<1>2. Len(wheels) \in Nat /\ S \subseteq 1 .. Len(wheels)
  BY WheelSetsAssumption DEF Wheel
<1>3. S # {}
  BY DEF Files
<1>4. \E w \in S : \A v \in S : v <= w
  BY <1>2, <1>3, LastExists
<1>5. Data!Winner(f) \in S
  BY <1>1, <1>4 DEF Data!Winner
<1> QED
  BY <1>5

-----------------------------------------------------------------------------
(* The inductive invariant.                                                *)

\* What was looked at is bound to its winner, or reported as the environment's.
Claimed ==
  /\ wheels \in WheelSets
  /\ unclaimed \subseteq Files
  /\ DOMAIN resolved \subseteq Files
  /\ \A p \in DOMAIN resolved : p[1] \notin VENV_OWNED_ROOTS /\ resolved[p] = Data!Winner(p)
  /\ \A p \in Files \ unclaimed :
       p \in DOMAIN resolved \/ (p[1] \in VENV_OWNED_ROOTS /\ p \in dataCollisions)

\* What was sorted is kept and lies below nothing kept, or was reported.
Sorted ==
  /\ unsorted \subseteq DOMAIN resolved /\ kept \subseteq DOMAIN resolved \ unsorted
  /\ \A p \in kept : Data!Ancestors(p) \cap kept = {}
  /\ \A p \in DOMAIN resolved \ unsorted :
       /\ Data!Ancestors(p) \cap unsorted = {}
       /\ p \in kept \/ (Data!Ancestors(p) \cap kept # {} /\ p \in dataCollisions)

DataInv ==
  /\ Claimed
  /\ dataStage \in {"claims", "nesting", "done"}
  /\ dataStage = "claims" => kept = {}
  /\ dataStage # "claims" => unclaimed = {} /\ Sorted
  /\ dataStage # "done" => DOMAIN dataProjected = {}
  /\ dataStage = "done" => unsorted = {} /\ dataProjected = Data!Collapse

LEMMA DataInvInit == VenvInit => DataInv
BY DEF VenvInit, Init, Data!Start, DataInv, Claimed, Files, Data!Wheel, Wheel

\* The winner and the files depend on the wheels alone.
LEMMA DataStays ==
  ASSUME DataInv, UNCHANGED <<wheels, dataVars>>
  PROVE  DataInv'
<1>1. UNCHANGED Files /\ UNCHANGED Data!Collapse /\ \A p : UNCHANGED Data!Winner(p)
  BY DEF Files, Wheel, dataVars, Data!Collapse, Data!Winner, Data!Claimants, Data!Wheel
<1>2. Claimed'
  BY <1>1 DEF DataInv, Claimed, dataVars
<1>3. Sorted => Sorted'
  BY DEF Sorted, dataVars
<1> QED
  BY <1>1, <1>2, <1>3 DEF DataInv, dataVars

LEMMA ClaimPathInv ==
  ASSUME DataInv, UNCHANGED vars, NEW p \in unclaimed, Data!ClaimPath(p)
  PROVE  DataInv'
<1>1. UNCHANGED <<wheels, unsorted, kept, dataProjected, dataStage>> /\ dataStage = "claims"
      /\ unclaimed' = unclaimed \ {p}
  BY DEF Data!ClaimPath, vars
<1>2. UNCHANGED Files /\ \A q : UNCHANGED Data!Winner(q)
  BY <1>1 DEF Files, Wheel, Data!Winner, Data!Claimants, Data!Wheel
<1>3. Claimed'
  <2>1. CASE p[1] \in VENV_OWNED_ROOTS
    <3>1. dataCollisions' = dataCollisions \cup {p} /\ UNCHANGED resolved
      BY <2>1 DEF Data!ClaimPath
    <3> QED
      BY <1>1, <1>2, <2>1, <3>1 DEF DataInv, Claimed
  <2>2. CASE p[1] \notin VENV_OWNED_ROOTS
    <3>1. /\ dataCollisions \subseteq dataCollisions'
          /\ resolved' = [q \in DOMAIN resolved \cup {p} |->
                            IF q = p THEN Data!Winner(p) ELSE resolved[q]]
      BY <2>2 DEF Data!ClaimPath
    <3>2. p \in Files /\ DOMAIN resolved' = DOMAIN resolved \cup {p}
      BY <3>1 DEF DataInv, Claimed
    <3>3. ASSUME NEW q \in DOMAIN resolved'
          PROVE  q[1] \notin VENV_OWNED_ROOTS /\ resolved'[q] = Data!Winner(q)
      <4>1. resolved'[q] = IF q = p THEN Data!Winner(p) ELSE resolved[q]
        BY <3>1, <3>2
      <4> QED
        BY <2>2, <3>2, <4>1 DEF DataInv, Claimed
    <3> QED
      BY <1>1, <1>2, <2>2, <3>1, <3>2, <3>3 DEF DataInv, Claimed
  <2> QED
    BY <2>1, <2>2
<1> QED
  BY <1>1, <1>3 DEF DataInv

LEMMA EndClaimsInv ==
  ASSUME DataInv, UNCHANGED vars, Data!EndClaims
  PROVE  DataInv'
<1>1. UNCHANGED <<wheels, unclaimed, resolved, kept, dataProjected, dataCollisions>>
      /\ dataStage = "claims" /\ unclaimed = {} /\ unsorted' = DOMAIN resolved
      /\ dataStage' = "nesting"
  BY DEF Data!EndClaims, vars
<1>2. UNCHANGED Files /\ \A q : UNCHANGED Data!Winner(q)
  BY <1>1 DEF Files, Wheel, Data!Winner, Data!Claimants, Data!Wheel
<1>3. Claimed'
  BY <1>1, <1>2 DEF DataInv, Claimed
<1>4. Sorted'
  BY <1>1 DEF DataInv, Sorted
<1> QED
  BY <1>1, <1>3, <1>4 DEF DataInv

LEMMA KeepPathInv ==
  ASSUME DataInv, UNCHANGED vars, NEW p \in unsorted, Data!KeepPath(p)
  PROVE  DataInv'
<1>1. UNCHANGED <<wheels, unclaimed, resolved, dataProjected, dataStage>> /\ dataStage = "nesting"
      /\ Data!Ancestors(p) \cap unsorted = {} /\ unsorted' = unsorted \ {p}
      /\ dataCollisions \subseteq dataCollisions'
  BY DEF Data!KeepPath, vars
<1>2. UNCHANGED Files /\ \A q : UNCHANGED Data!Winner(q)
  BY <1>1 DEF Files, Wheel, Data!Winner, Data!Claimants, Data!Wheel
<1>3. Claimed'
  BY <1>1, <1>2 DEF DataInv, Claimed
<1>4. p \in DOMAIN resolved /\ p \in Paths
  BY <1>1, FilesArePaths DEF DataInv, Sorted, Claimed
<1>5. p \notin Data!Ancestors(p)
  BY <1>4, AboveHead
<1>6. Sorted'
  <2>1. CASE Data!Ancestors(p) \cap kept # {}
    <3>1. dataCollisions' = dataCollisions \cup {p} /\ UNCHANGED kept
      BY <2>1 DEF Data!KeepPath
    <3> QED
      BY <1>1, <1>4, <2>1, <3>1 DEF DataInv, Sorted
  <2>2. CASE Data!Ancestors(p) \cap kept = {}
    <3>1. kept' = kept \cup {p}
      BY <2>2 DEF Data!KeepPath
    <3>2. \A q \in kept : p \notin Data!Ancestors(q)
      BY <1>1 DEF DataInv, Sorted
    <3>3. \A q \in kept' : Data!Ancestors(q) \cap kept' = {}
      BY <1>1, <1>5, <2>2, <3>1, <3>2 DEF DataInv, Sorted
    <3>4. unsorted' \subseteq DOMAIN resolved' /\ kept' \subseteq DOMAIN resolved' \ unsorted'
      BY <1>1, <1>4, <3>1 DEF DataInv, Sorted
    <3>5. \A q \in DOMAIN resolved' \ unsorted' :
            /\ Data!Ancestors(q) \cap unsorted' = {}
            /\ q \in kept' \/ (Data!Ancestors(q) \cap kept' # {} /\ q \in dataCollisions')
      <4> TAKE q \in DOMAIN resolved' \ unsorted'
      <4>1. CASE q = p
        BY <1>1, <3>1, <4>1
      <4>2. CASE q # p
        BY <1>1, <3>1, <4>2 DEF DataInv, Sorted
      <4> QED
        BY <4>1, <4>2
    <3> QED
      BY <3>3, <3>4, <3>5 DEF Sorted
  <2> QED
    BY <2>1, <2>2
<1> QED
  BY <1>1, <1>3, <1>6 DEF DataInv

LEMMA EndNestingInv ==
  ASSUME DataInv, UNCHANGED vars, Data!EndNesting
  PROVE  DataInv'
<1>1. UNCHANGED <<wheels, unclaimed, resolved, unsorted, kept, dataCollisions>>
      /\ dataStage = "nesting" /\ unsorted = {} /\ dataProjected' = Data!Collapse
      /\ dataStage' = "done"
  BY DEF Data!EndNesting, vars
<1>2. UNCHANGED Files /\ UNCHANGED Data!Collapse /\ \A q : UNCHANGED Data!Winner(q)
  BY <1>1 DEF Files, Wheel, Data!Winner, Data!Claimants, Data!Wheel, Data!Collapse
<1>3. Claimed'
  BY <1>1, <1>2 DEF DataInv, Claimed
<1>4. Sorted'
  BY <1>1 DEF DataInv, Sorted
<1> QED
  BY <1>1, <1>2, <1>3, <1>4 DEF DataInv

LEMMA DataInvariance == VenvSpec => []DataInv
<1>1. DataInv /\ [VenvNext \/ Terminating]_<<vars, dataVars>> => DataInv'
  <2> SUFFICES ASSUME DataInv, [VenvNext \/ Terminating]_<<vars, dataVars>>
               PROVE  DataInv'
    OBVIOUS
  <2>1. CASE UNCHANGED vars /\ Data!Next
    BY <2>1, ClaimPathInv, EndClaimsInv, KeepPathInv, EndNestingInv DEF Data!Next
  <2>2. CASE UNCHANGED <<wheels, dataVars>>
    BY <2>2, DataStays
  <2>3. ASSUME (\E tl \in pending : ResolveTopLevel(tl)) \/ FoldMergeGroups \/ ResolveMetadata
        PROVE  UNCHANGED wheels
    BY <2>3 DEF ResolveTopLevel, FoldMergeGroups, ResolveMetadata
  <2> QED
    BY <2>1, <2>2, <2>3 DEF VenvNext, Terminating, vars
<1> QED
  BY <1>1, DataInvInit, PTL DEF VenvSpec

-----------------------------------------------------------------------------
(* What is declared in the end.                                            *)

LEMMA SameCardinality == \A S : Data!Cardinality(S) = Cardinality(S)
BY Zenon DEF Cardinality, Data!Cardinality

\* A declared path that is not kept is a directory: all that is kept below it
\* is of the wheel it is bound to.
LEMMA Declared ==
  ASSUME DataInv, dataStage = "done", NEW q \in DOMAIN dataProjected
  PROVE  /\ q \in Paths /\ q[1] \notin VENV_OWNED_ROOTS /\ dataProjected[q] \in Wheel
         /\ Data!Ancestors(q) \cap DOMAIN dataProjected = {}
         /\ q \in kept => dataProjected[q] = resolved[q]
         /\ q \notin kept =>
              /\ \E p \in kept : q \in Data!Ancestors(p)
              /\ \A p \in kept : q \in Data!Ancestors(p) => resolved[p] = dataProjected[q]
<1> DEFINE owners(d) == {resolved[p] : p \in {x \in kept : d \in Data!Ancestors(x)}}
           single == {d \in UNION {Data!Ancestors(p) : p \in kept} : Data!Cardinality(owners(d)) = 1}
           roots == {d \in single : Data!Ancestors(d) \cap single = {}}
           plain == {x \in kept : Data!Ancestors(x) \cap roots = {}}
<1>1. dataProjected = [p \in plain \cup roots |->
                         IF p \in roots THEN CHOOSE w \in owners(p) : TRUE ELSE resolved[p]]
  <2>1. dataProjected = Data!Collapse
    BY DEF DataInv
  <2> QED
    BY <2>1, Zenon DEF Data!Collapse
<1>2. /\ kept \subseteq DOMAIN resolved /\ kept \subseteq Files /\ kept \subseteq Paths
      /\ \A p \in kept : p[1] \notin VENV_OWNED_ROOTS /\ Data!Ancestors(p) \cap kept = {}
  BY FilesArePaths DEF DataInv, Claimed, Sorted
<1>10. \A p \in kept : resolved[p] \in Wheel
  BY <1>2, WinnerClaims DEF DataInv, Claimed
<1>3. ASSUME NEW d \in single
      PROVE  /\ \E p \in kept : d \in Data!Ancestors(p)
             /\ d \in Paths /\ d[1] \notin VENV_OWNED_ROOTS /\ d \notin kept
             /\ Data!Ancestors(d) \cap kept = {}
  <2>1. PICK p \in kept : d \in Data!Ancestors(p)
    OBVIOUS
  <2>2. d \in Paths /\ d[1] = p[1]
    BY <1>2, <2>1, AboveHead
  <2>3. \A r \in Data!Ancestors(d) : r \in Data!Ancestors(p)
    BY <1>2, <2>1, AboveTrans
  <2> QED
    BY <1>2, <2>1, <2>2, <2>3
<1>4. ASSUME NEW d \in single, NEW p \in kept, d \in Data!Ancestors(p)
      PROVE  resolved[p] = CHOOSE w \in owners(d) : TRUE
  <2>1. owners(d) \subseteq Wheel
    BY <1>2, WinnerClaims DEF DataInv, Claimed
  <2>2. IsFiniteSet(owners(d))
    BY <2>1, FilesArePaths, FS_Subset DEF DataInv, Claimed
  <2>3. PICK w : owners(d) = {w}
    BY <2>2, SameCardinality, FS_Singleton
  <2>4. resolved[p] \in owners(d)
    BY <1>4
  <2> HIDE DEF owners
  <2> QED
    BY <2>3, <2>4
<1>5. roots \subseteq single /\ \A d \in roots : Data!Ancestors(d) \cap roots = {}
  OBVIOUS
<1>6. plain \subseteq kept /\ \A p \in plain : Data!Ancestors(p) \cap roots = {}
  OBVIOUS
<1> HIDE DEF owners, single, roots, plain
<1>7. DOMAIN dataProjected = plain \cup roots
      /\ \A p \in plain \cup roots :
           dataProjected[p] = IF p \in roots THEN CHOOSE w \in owners(p) : TRUE ELSE resolved[p]
  BY <1>1
<1>8. CASE q \in roots
  BY <1>10, <1>3, <1>4, <1>5, <1>6, <1>7, <1>8
<1>9. CASE q \notin roots
  BY <1>10, <1>2, <1>3, <1>5, <1>6, <1>7, <1>9
<1> QED
  BY <1>8, <1>9

\* What is kept is declared itself or through a directory above it.
LEMMA KeptDeclared ==
  ASSUME DataInv, dataStage = "done", NEW f \in kept
  PROVE  \E q \in DOMAIN dataProjected : q = f \/ q \in Data!Ancestors(f)
<1> DEFINE owners(d) == {resolved[p] : p \in {x \in kept : d \in Data!Ancestors(x)}}
           single == {d \in UNION {Data!Ancestors(p) : p \in kept} : Data!Cardinality(owners(d)) = 1}
           roots == {d \in single : Data!Ancestors(d) \cap single = {}}
           plain == {x \in kept : Data!Ancestors(x) \cap roots = {}}
<1>1. dataProjected = [p \in plain \cup roots |->
                         IF p \in roots THEN CHOOSE w \in owners(p) : TRUE ELSE resolved[p]]
  <2>1. dataProjected = Data!Collapse
    BY DEF DataInv
  <2> QED
    BY <2>1, Zenon DEF Data!Collapse
<1>2. f \in plain \/ Data!Ancestors(f) \cap roots # {}
  OBVIOUS
<1> HIDE DEF owners, single, roots, plain
<1>3. DOMAIN dataProjected = plain \cup roots
  BY <1>1
<1> QED
  BY <1>2, <1>3

\* No symlink that a virtual environment declares for data files lies inside
\* another one or in a root of its own, for any wheels (virtuals_resolvers.bzl,
\* _resolve_data_files).
THEOREM SymlinksDisjointCorrect == VenvSpec => []SymlinksDisjoint
<1>1. DataInv => SymlinksDisjoint
  BY Declared DEF DataInv, SymlinksDisjoint, Data!SymlinksDisjoint
<1> QED
  BY <1>1, DataInvariance, PTL

\* A wheel ships no path below or above another one of its own.
LEMMA OneWheelFlat ==
  ASSUME wheels \in WheelSets, NEW w \in Wheel,
         NEW f \in wheels[w].data_files, NEW g \in wheels[w].data_files
  PROVE  g \notin Data!Ancestors(f)
BY FilesArePaths

LEMMA ShownIs ==
  ASSUME DataInv, dataStage = "done", NEW f
  PROVE  Data!Shown(f) =
           {dataProjected[p] : p \in {q \in DOMAIN dataProjected :
                                       IsPrefix(q, f) /\ f \in wheels[dataProjected[q]].data_files}}
<1>1. \A q : Data!IsPrefix(q, f) <=> IsPrefix(q, f)
  BY Zenon DEF IsPrefix, Data!IsPrefix
<1>2. \A q \in DOMAIN dataProjected :
        [w \in Wheel |-> wheels[w].data_files][dataProjected[q]] = wheels[dataProjected[q]].data_files
  BY Declared
<1> QED
  BY <1>1, <1>2 DEF Data!Shown

LEMMA KeptShows ==
  ASSUME DataInv, dataStage = "done", NEW f \in kept
  PROVE  Data!Shown(f) = {Data!Winner(f)}
<1>1. f \in Files /\ f \in Paths /\ resolved[f] = Data!Winner(f)
  BY FilesArePaths DEF DataInv, Claimed, Sorted
<1>2. Data!Winner(f) \in Wheel /\ f \in wheels[Data!Winner(f)].data_files
  BY <1>1, WinnerClaims DEF DataInv, Claimed
<1>3. ASSUME NEW q \in DOMAIN dataProjected, IsPrefix(q, f)
      PROVE  dataProjected[q] = Data!Winner(f)
  <2>1. q = f \/ q \in Data!Ancestors(f)
    BY <1>1, <1>3, Declared, PrefixAbove
  <2>2. q \in Data!Ancestors(f) => q \notin kept
    BY DEF DataInv, Sorted
  <2> QED
    BY <1>1, <2>1, <2>2, Declared
<1>4. \E q \in DOMAIN dataProjected : IsPrefix(q, f)
  BY <1>1, KeptDeclared, AboveHead, PrefixAbove
<1> QED
  BY <1>2, <1>3, <1>4, ShownIs

LEMMA DroppedHidden ==
  ASSUME DataInv, dataStage = "done", NEW f \in Files, f \notin kept
  PROVE  Data!Shown(f) = {} /\ f \in dataCollisions
<1>1. f \in Paths /\ wheels \in WheelSets
  BY FilesArePaths DEF DataInv, Claimed
<1>2. CASE f \notin DOMAIN resolved
  <2>1. f[1] \in VENV_OWNED_ROOTS /\ f \in dataCollisions
    BY <1>2 DEF DataInv, Claimed
  <2>2. ASSUME NEW q \in DOMAIN dataProjected, IsPrefix(q, f) PROVE FALSE
    BY <1>1, <2>1, <2>2, Declared, PrefixAbove, AboveHead
  <2> QED
    BY <2>1, <2>2, ShownIs
<1>3. CASE f \in DOMAIN resolved
  <2>1. f \in dataCollisions
    BY <1>3 DEF DataInv, Sorted
  <2>2. PICK g \in kept : g \in Data!Ancestors(f)
    BY <1>3 DEF DataInv, Sorted
  <2>3. ASSUME NEW p \in kept, NEW q \in DOMAIN dataProjected, dataProjected[q] = resolved[p],
               f \in wheels[dataProjected[q]].data_files
        PROVE  p \notin Data!Ancestors(f) /\ f \notin Data!Ancestors(p)
    <3>1. p \in Files /\ resolved[p] = Data!Winner(p)
      BY DEF DataInv, Claimed, Sorted
    <3>2. resolved[p] \in Wheel /\ p \in wheels[resolved[p]].data_files
      BY <1>1, <3>1, WinnerClaims
    <3> QED
      BY <1>1, <2>3, <3>2, OneWheelFlat
  <2>4. ASSUME NEW q \in DOMAIN dataProjected, IsPrefix(q, f),
               f \in wheels[dataProjected[q]].data_files
        PROVE  FALSE
    <3>1. q = f \/ q \in Data!Ancestors(f)
      BY <1>1, <2>4, Declared, PrefixAbove
    <3>2. CASE q \in kept
      BY <2>3, <2>4, <3>1, <3>2, Declared
    <3>3. CASE q \notin kept
      <4>1. PICK p \in kept : q \in Data!Ancestors(p) /\ resolved[p] = dataProjected[q]
        BY <3>3, Declared
      <4>2. q \in Data!Ancestors(f)
        BY <2>3, <2>4, <3>1, <4>1
      <4>3. q # g /\ (q \in Data!Ancestors(g) \/ g \in Data!Ancestors(q))
        BY <1>1, <2>2, <3>3, <4>2, AboveChain
      <4>4. CASE q \in Data!Ancestors(g)
        <5>1. resolved[g] = dataProjected[q]
          BY <3>3, <4>4, Declared
        <5> QED
          BY <2>2, <2>3, <2>4, <5>1
      <4>5. CASE g \in Data!Ancestors(q)
        <5>1. p \in Paths
          BY FilesArePaths DEF DataInv, Claimed, Sorted
        <5>2. g \in Data!Ancestors(p)
          BY <4>1, <4>5, <5>1, AboveTrans
        <5> QED
          BY <5>2 DEF DataInv, Sorted
      <4> QED
        BY <4>3, <4>4, <4>5
    <3> QED
      BY <3>2, <3>3
  <2> QED
    BY <2>1, <2>4, ShownIs
<1> QED
  BY <1>2, <1>3

\* A virtual environment shows each data file as its last wheel ships it, or
\* the file was reported and nothing of it is shown, for any wheels.
THEOREM ShowsLastWheelCorrect == VenvSpec => []ShowsLastWheel
<1>1. ASSUME DataInv, dataStage = "done", NEW f \in Files
      PROVE  Data!Shown(f) = {Data!Winner(f)} \/ (Data!Shown(f) = {} /\ f \in dataCollisions)
  BY <1>1, KeptShows, DroppedHidden
<1>2. UNION {[w \in Wheel |-> wheels[w].data_files][v] : v \in Data!Wheel} = Files
  BY DEF Files, Data!Wheel
<1>3. DataInv => ShowsLastWheel
  BY <1>1, <1>2 DEF ShowsLastWheel, Data!ShowsLastWheel
<1> QED
  BY <1>3, DataInvariance, PTL

-----------------------------------------------------------------------------
(* The top levels and the metadata.                                        *)

LEMMA PrefixHead ==
  ASSUME NEW q \in Paths, NEW p \in Seq(STRING), IsPrefix(q, p)
  PROVE  p \in Paths /\ p[1] = q[1]
<1>1. Len(q) \in Nat \ {0} /\ Len(q) <= Len(p)
  BY DEF Paths, IsPrefix
<1>2. p \in Paths
  BY <1>1 DEF Paths
<1> QED
  BY <1>2, PrefixAbove, AboveHead

\* The first segment of a path is the one top level that it is below.
LEMMA TopLevelOf ==
  ASSUME NEW f \in Paths
  PROVE  /\ SubSeq(f, 1, 1) \in Paths /\ Len(SubSeq(f, 1, 1)) = 1 /\ IsPrefix(SubSeq(f, 1, 1), f)
         /\ \A tl \in Paths : Len(tl) = 1 /\ IsPrefix(tl, f) => tl = SubSeq(f, 1, 1)
<1>1. Len(f) \in Nat \ {0} /\ f[1] \in STRING
  BY DEF Paths
<1> DEFINE h == SubSeq(f, 1, 1)
<1>2. /\ h \in Seq(STRING) /\ Len(h) = (IF 1 <= 1 THEN 1 - 1 + 1 ELSE 0)
      /\ \A i \in 1 .. 1 - 1 + 1 : h[i] = f[1 + i - 1]
  <2>1. 1 \in Int /\ \A i \in 1 .. 1 : f[i] \in STRING
    BY <1>1
  <2> QED
    BY <2>1, SubSeqProperties
<1>3. Len(h) = 1 /\ h[1] = f[1]
  BY <1>2
<1>4. h \in Paths
  BY <1>2, <1>3 DEF Paths
<1> HIDE DEF h
<1>5. ASSUME NEW tl \in Paths, Len(tl) = 1, IsPrefix(tl, f)
      PROVE  tl = h
  <2>1. tl[1] = f[1]
    BY <1>5, PrefixHead DEF Paths
  <2> QED
    BY <1>3, <1>4, <1>5, <2>1, SeqEqual DEF Paths
<1>6. IsPrefix(h, f)
  <2>1. \A i \in 1 .. Len(h) : h[i] = f[i]
    BY <1>3
  <2>2. CASE Len(f) = 1
    BY <1>1, <1>3, <1>4, <2>2, SeqEqual, PrefixAbove DEF Paths
  <2>3. CASE Len(f) # 1
    <3>1. Len(h) < Len(f)
      BY <1>1, <1>3, <2>3
    <3>2. h \in Data!Ancestors(f)
      BY <1>4, <2>1, <3>1, AboveParts
    <3> QED
      BY <1>4, <3>2, PrefixAbove
  <2> QED
    BY <2>2, <2>3
<1> QED
  BY <1>3, <1>4, <1>5, <1>6 DEF h

Names == {tl \in UNION {wheels[w].top_levels : w \in Wheel} : IsMetadata(tl)}
Won == {tl \in Names : LastOf(Claimants(tl)) \in fullyCovered}
PlainPaths == {p \in Paths : p[1] \notin Metadata}

\* Outputs of distribution metadata come from ResolveMetadata alone, which
\* has a top level exactly where its last wheel is not on sys.path.
TopInv ==
  /\ wheels \in WheelSets
  /\ pending \cup conflicted \cup DOMAIN mergeGroups \subseteq PlainPaths
  /\ stage # "done" => DOMAIN projected \subseteq PlainPaths
  /\ stage = "done" =>
       /\ DOMAIN projected \subseteq PlainPaths \cup Won
       /\ \A tl \in Won : tl \in DOMAIN projected /\ projected[tl] = LastOf(Claimants(tl))
       /\ \A tl \in Names : Claimants(tl) \ {LastOf(Claimants(tl))} \subseteq fullyCovered

LEMMA TopLevelsAre ==
  ASSUME wheels \in WheelSets
  PROVE  /\ AllFiles \subseteq Paths
         /\ \A w \in Wheel : \A tl : tl \in wheels[w].top_levels <=>
              tl \in Paths /\ Len(tl) = 1 /\ \E f \in wheels[w].files : IsPrefix(tl, f)
<1>1. \A w \in Wheel : wheels[w].files \subseteq Paths /\ wheels[w].top_levels = TopLevels(wheels[w].files)
  BY TopLevelsAssumption DEF Wheel, Paths
<1>2. SUFFICES ASSUME NEW w \in Wheel, NEW tl
               PROVE  tl \in wheels[w].top_levels <=>
                        tl \in Paths /\ Len(tl) = 1 /\ \E f \in wheels[w].files : IsPrefix(tl, f)
  BY <1>1 DEF AllFiles
<1>3. tl \in wheels[w].top_levels <=> \E f \in wheels[w].files : tl = SubSeq(f, 1, 1)
  BY <1>1 DEF TopLevels
<1> QED
  BY <1>1, <1>3, TopLevelOf

LEMMA TopInvInit == VenvInit => TopInv
<1> SUFFICES ASSUME VenvInit PROVE TopInv
  OBVIOUS
<1>1. wheels \in WheelSets /\ conflicted = {} /\ DOMAIN mergeGroups = {} /\ DOMAIN projected = {}
      /\ stage = "resolve" /\ \A tl \in pending : ~ IsMetadata(tl)
  BY DEF VenvInit, Init
<1>2. pending \subseteq Paths
  BY <1>1, TopLevelsAre DEF VenvInit, Init
<1> QED
  BY <1>1, <1>2 DEF TopInv, PlainPaths, IsMetadata

\* What a wheel says of a plain top level is plain.
LEMMA SaidIsPlain ==
  ASSUME wheels \in WheelSets, NEW tl \in PlainPaths, NEW w \in Wheel
  PROVE  /\ Entries(w, tl) \cup NsDirs(w, tl) \subseteq PlainPaths
         /\ \A r \in wheels[w].regular_roots : IsStrictPrefix(tl, r) => r \in PlainPaths
<1>1. wheels[w].namespace_entries \cup wheels[w].namespace_dirs \cup wheels[w].regular_roots
        \subseteq Seq(STRING)
  BY TopLevelsAssumption DEF Wheel
<1>2. \A p \in Seq(STRING) : IsPrefix(tl, p) => p \in PlainPaths
  BY PrefixHead DEF PlainPaths
<1> QED
  BY <1>1, <1>2 DEF Entries, NsDirs, IsStrictPrefix

LEMMA OwnedIsPlain ==
  ASSUME wheels \in WheelSets, NEW tl \in PlainPaths, NEW S \in SUBSET Wheel, NEW exclude
  PROVE  DOMAIN EntryOwner(S, tl, exclude) \subseteq PlainPaths
BY SaidIsPlain DEF EntryOwner

LEMMA CollapsedIsPlain ==
  ASSUME wheels \in WheelSets, NEW tl \in PlainPaths, NEW S \in SUBSET Wheel, NEW exclude,
         NEW owner, DOMAIN owner \subseteq PlainPaths
  PROVE  DOMAIN Collapse(owner, S, tl, exclude) \subseteq PlainPaths
<1> DEFINE owners(d) == {w \in S : d \in NsDirs(w, tl)}
           sole == {d \in UNION {NsDirs(w, tl) : w \in S} :
                      /\ Cardinality(owners(d)) = 1
                      /\ \E e \in DOMAIN owner : IsStrictPrefix(d, e)
                      /\ ~Holds(d, exclude)}
           roots == Shallowest(sole)
           outside == {e \in DOMAIN owner : ~Within(e, roots)}
<1>1. sole \subseteq PlainPaths
  BY SaidIsPlain
<1>2. roots \subseteq sole
  BY DEF Shallowest
<1>3. outside \subseteq PlainPaths
  OBVIOUS
<1>4. Collapse(owner, S, tl, exclude) =
        IF DOMAIN owner = {} THEN owner
        ELSE [p \in outside \cup roots |->
                IF p \in roots THEN CHOOSE w \in owners(p) : TRUE ELSE owner[p]]
  BY Zenon DEF Collapse
<1> HIDE DEF owners, sole, roots, outside
<1> QED
  BY <1>1, <1>2, <1>3, <1>4

LEMMA UpdatedDomain ==
  \A d, new : DOMAIN Updated(d, new) = DOMAIN d \cup DOMAIN new
BY DEF Updated

LEMMA ResolveTopLevelTop ==
  ASSUME TopInv, NEW tl \in pending, ResolveTopLevel(tl)
  PROVE  TopInv'
<1> DEFINE S == Claimants(tl)
<1>1. tl \in PlainPaths /\ S \subseteq Wheel /\ wheels \in WheelSets
  BY DEF TopInv, Claimants
<1>2. stage = "resolve" /\ stage' = "resolve" /\ wheels' = wheels /\ pending' \subseteq pending
  BY DEF ResolveTopLevel
<1>3. SUFFICES conflicted' \cup DOMAIN mergeGroups' \cup DOMAIN projected' \subseteq PlainPaths
  BY <1>2 DEF TopInv
<1>4. conflicted \cup DOMAIN mergeGroups \cup DOMAIN projected \subseteq PlainPaths
  BY <1>2 DEF TopInv
<1>5. CASE projected' = Updated(projected, [p \in {tl} |-> LastOf(S)]) /\ UNCHANGED <<conflicted, mergeGroups>>
  <2>1. DOMAIN projected' = {tl} \cup DOMAIN projected
    BY <1>5 DEF Updated
  <2> QED
    BY <1>1, <1>4, <1>5, <2>1
<1>6. CASE ResolvePureNamespace(tl, S)
  <2> DEFINE with == S \ {w \in S : Entries(w, tl) = {}}
             claimed == EntryOwner(with, tl, {})
             owner == [e \in DOMAIN claimed \ Nested(claimed) |-> claimed[e]]
  <2>1. projected' = Updated(projected, Collapse(owner, with, tl, {})) /\ UNCHANGED <<conflicted, mergeGroups>>
    BY <1>6, Zenon DEF ResolvePureNamespace
  <2>2. with \subseteq Wheel
    BY <1>1
  <2>3. DOMAIN owner \subseteq DOMAIN claimed
    OBVIOUS
  <2>4. DOMAIN owner \subseteq PlainPaths
    BY <1>1, <2>2, <2>3, OwnedIsPlain
  <2> HIDE DEF with, owner
  <2>5. DOMAIN Collapse(owner, with, tl, {}) \subseteq PlainPaths
    BY <1>1, <2>2, <2>4, CollapsedIsPlain
  <2> QED
    BY <1>4, <2>1, <2>5, UpdatedDomain
<1>7. CASE ResolveSpan(tl, S, ConflictedRoots(tl, S))
  <2> DEFINE roots == ConflictedRoots(tl, S)
             native == NativeConflicted(roots, S)
             winner == [r \in native |-> LastOf({w \in S : r \in wheels[w].regular_roots})]
             with == S \ {w \in S : Entries(w, tl) = {}}
             owner == EntryOwner(with, tl, roots)
  <2>1. /\ conflicted' = conflicted \cup {r \in roots : ~Within(r, native)}
        /\ projected' = Updated(Updated(projected, winner), Collapse(owner, with, tl, roots))
        /\ UNCHANGED mergeGroups
    BY <1>7, Zenon DEF ResolveSpan
  <2>2. with \subseteq Wheel
    BY <1>1
  <2>3. roots \subseteq PlainPaths
    BY <1>1, SaidIsPlain DEF ConflictedRoots
  <2>4. native \subseteq roots
    BY DEF NativeConflicted, Shallowest
  <2>5. DOMAIN owner \subseteq PlainPaths
    BY <1>1, <2>2, OwnedIsPlain
  <2>6. DOMAIN winner = native
    OBVIOUS
  <2> HIDE DEF roots, native, winner, with, owner
  <2>7. DOMAIN Collapse(owner, with, tl, roots) \subseteq PlainPaths
    BY <1>1, <2>2, <2>5, CollapsedIsPlain
  <2>8. DOMAIN projected' = DOMAIN Collapse(owner, with, tl, roots) \cup native \cup DOMAIN projected
    BY <2>1, <2>6 DEF Updated
  <2> QED
    BY <1>4, <2>1, <2>3, <2>4, <2>7, <2>8
<1>8. CASE ResolveDirectories(tl, S)
  <2>1. /\ DOMAIN projected' \subseteq {tl} \cup DOMAIN projected
        /\ DOMAIN mergeGroups' \subseteq {tl} \cup DOMAIN mergeGroups
        /\ UNCHANGED conflicted
    BY <1>8 DEF ResolveDirectories, Updated
  <2> QED
    BY <1>1, <1>4, <2>1
<1>9. ResolveNamespace(tl, S) => ResolvePureNamespace(tl, S) \/ ResolveSpan(tl, S, ConflictedRoots(tl, S))
  BY Zenon DEF ResolveNamespace
<1> QED
  BY <1>5, <1>6, <1>7, <1>8, <1>9 DEF ResolveTopLevel, ResolveModule

LEMMA FoldMergeGroupsTop ==
  ASSUME TopInv, FoldMergeGroups
  PROVE  TopInv'
<1> DEFINE roots == {r \in Shallowest(conflicted) : Cardinality(Contributors(r)) >= 2}
<1>1. /\ UNCHANGED <<wheels, pending, projected, conflicted>>
      /\ stage = "resolve" /\ stage' = "metadata"
      /\ mergeGroups' = Updated(mergeGroups, [r \in roots |-> InOrder(Contributors(r))])
  BY DEF FoldMergeGroups
<1>2. roots \subseteq conflicted
  BY DEF Shallowest
<1> HIDE DEF roots
<1>3. DOMAIN mergeGroups' = roots \cup DOMAIN mergeGroups
  BY <1>1 DEF Updated
<1> QED
  BY <1>1, <1>2, <1>3 DEF TopInv

LEMMA ResolveMetadataTop ==
  ASSUME TopInv, ResolveMetadata
  PROVE  TopInv'
<1>1. UNCHANGED <<wheels, pending, conflicted, mergeGroups, fullyCovered>> /\ stage = "metadata"
  BY DEF ResolveMetadata
<1>2. UNCHANGED Names /\ UNCHANGED Won /\ \A tl : UNCHANGED Claimants(tl)
  BY <1>1 DEF Names, Won, Claimants, Wheel, IsMetadata
<1>3. CASE \E tl \in Names : ~(Claimants(tl) \ {LastOf(Claimants(tl))} \subseteq fullyCovered)
  <2>1. stage' = "failed" /\ UNCHANGED projected
    BY <1>3, Zenon DEF ResolveMetadata, Names
  <2> QED
    BY <1>1, <2>1 DEF TopInv
<1>4. CASE \A tl \in Names : Claimants(tl) \ {LastOf(Claimants(tl))} \subseteq fullyCovered
  <2> DEFINE bound == [tl \in Won |-> LastOf(Claimants(tl))]
  <2>1. stage' = "done" /\ projected' = Updated(projected, bound)
    BY <1>4, Zenon DEF ResolveMetadata, Names, Won
  <2>2. /\ DOMAIN projected' = Won \cup DOMAIN projected
        /\ \A tl \in Won : projected'[tl] = LastOf(Claimants(tl))
    BY <2>1, UpdatedDomain DEF Updated
  <2> QED
    BY <1>1, <1>2, <1>4, <2>1, <2>2 DEF TopInv
<1> QED
  BY <1>3, <1>4

LEMMA TopInvariance == VenvSpec => []TopInv
<1>1. TopInv /\ [VenvNext \/ Terminating]_<<vars, dataVars>> => TopInv'
  <2> SUFFICES ASSUME TopInv, [VenvNext \/ Terminating]_<<vars, dataVars>>
               PROVE  TopInv'
    OBVIOUS
  <2>1. CASE UNCHANGED vars
    <3>1. UNCHANGED Names /\ UNCHANGED Won /\ \A tl : UNCHANGED Claimants(tl)
      BY <2>1 DEF Names, Won, Claimants, Wheel, IsMetadata, vars
    <3> QED
      BY <2>1, <3>1 DEF TopInv, vars
  <2> QED
    BY <2>1, ResolveTopLevelTop, FoldMergeGroupsTop, ResolveMetadataTop DEF VenvNext, Terminating
<1> QED
  BY <1>1, TopInvInit, PTL DEF VenvSpec

\* The last wheel with a metadata directory is one that has it.
LEMMA LastClaims ==
  ASSUME wheels \in WheelSets, NEW tl \in Names
  PROVE  /\ LastOf(Claimants(tl)) \in Claimants(tl)
         /\ tl \in Paths /\ Len(tl) = 1 /\ tl[1] \in Metadata
<1>1. Len(wheels) \in Nat /\ Claimants(tl) \subseteq 1 .. Len(wheels)
  BY WheelSetsAssumption DEF Claimants, Wheel
<1>2. PICK w \in Wheel : tl \in wheels[w].top_levels
  BY DEF Names
<1>3. Claimants(tl) # {}
  BY <1>2 DEF Claimants
<1>4. \E u \in Claimants(tl) : \A v \in Claimants(tl) : v <= u
  BY <1>1, <1>3, LastExists
<1>5. LastOf(Claimants(tl)) \in Claimants(tl)
  BY <1>4 DEF LastOf
<1> QED
  BY <1>2, <1>5, TopLevelsAre DEF Names, IsMetadata

\* Below a metadata directory, site-packages shows files of its last wheel,
\* and none at all unless that wheel is not on sys.path.
LEMMA MetadataShown ==
  ASSUME TopInv, stage = "done", NEW tl \in Names, NEW f \in AllFiles, IsPrefix(tl, f)
  PROVE  /\ SiteFiles(f) # {} => tl \in Won
         /\ SiteFiles(f) \subseteq {LastOf(Claimants(tl))}
         /\ tl \in Won /\ f \in wheels[LastOf(Claimants(tl))].files => SiteFiles(f) # {}
<1>1. f \in Paths /\ tl \in Paths /\ Len(tl) = 1 /\ tl[1] \in Metadata
  BY TopLevelsAre, LastClaims DEF TopInv
<1>2. f[1] \in Metadata
  BY <1>1, PrefixHead DEF Paths
<1>3. \A q \in PlainPaths : ~ IsPrefix(q, f)
  BY <1>1, <1>2, PrefixHead DEF PlainPaths, Paths
<1>4. \A q \in DOMAIN mergeGroups : ~ IsPrefix(q, f)
  BY <1>3 DEF TopInv
<1>5. ASSUME NEW q \in DOMAIN projected, IsPrefix(q, f)
      PROVE  q = tl /\ tl \in Won
  <2>1. q \in Won
    BY <1>3, <1>5 DEF TopInv
  <2>2. q \in Paths /\ Len(q) = 1
    BY <2>1, LastClaims DEF TopInv, Won
  <2>3. q = tl
    BY <1>1, <1>5, <2>2, TopLevelOf
  <2> QED
    BY <2>1, <2>3
<1>6. tl \in Won => tl \in DOMAIN projected /\ projected[tl] = LastOf(Claimants(tl))
  BY DEF TopInv
<1>7. SiteFiles(f) =
        {projected[p] : p \in {q \in DOMAIN projected : IsPrefix(q, f) /\ f \in wheels[projected[q]].files}}
  <2>1. {q \in DOMAIN mergeGroups : IsPrefix(q, f)} = {}
    BY <1>4
  <2> QED
    BY <2>1 DEF SiteFiles
<1> QED
  BY <1>5, <1>6, <1>7

\* Python finds the metadata of each distribution in one place of sys.path, as
\* the last wheel that has it ships it, for any wheels (virtuals_resolvers.bzl,
\* resolve_wheel_collisions).
THEOREM OneDistributionCorrect == VenvSpec => []OneDistribution
<1>1. ASSUME TopInv, stage = "done", NEW tl \in Names
      PROVE  LET last == LastOf(Claimants(tl))
                 on == {k \in SysPath : \E f \in AllFiles : IsPrefix(tl, f) /\ Provides(k, f)}
             IN \/ on = {last}
                \/ on = {0} /\ \A f \in AllFiles : IsPrefix(tl, f) => SiteFiles(f) \subseteq {last}
  <2> DEFINE last == LastOf(Claimants(tl))
             on == {k \in SysPath : \E f \in AllFiles : IsPrefix(tl, f) /\ Provides(k, f)}
  <2>1. wheels \in WheelSets /\ last \in Claimants(tl) /\ Claimants(tl) \subseteq Wheel
    BY <1>1, LastClaims DEF TopInv, Claimants
  <2>2. tl \in Paths /\ Len(tl) = 1 /\ 0 \notin Wheel
    BY <2>1, LastClaims, WheelSetsAssumption DEF Wheel
  <2>3. Claimants(tl) \ {last} \subseteq fullyCovered
    BY <1>1 DEF TopInv
  <2>4. \A w \in Wheel : w \in Claimants(tl) <=> \E f \in wheels[w].files : IsPrefix(tl, f)
    BY <2>1, <2>2, TopLevelsAre DEF Claimants
  <2>5. \A k \in on : k = 0 \/ k \in Claimants(tl)
    BY <2>4 DEF SysPath, Provides
  <2>6. PICK g \in wheels[last].files : IsPrefix(tl, g)
    BY <2>1, <2>4
  <2>7. g \in AllFiles
    BY <2>1, <2>6 DEF AllFiles
  <2>8. \A f \in AllFiles : IsPrefix(tl, f) =>
          /\ SiteFiles(f) # {} => tl \in Won
          /\ SiteFiles(f) \subseteq {last}
    BY <1>1, MetadataShown
  <2>9. CASE last \in fullyCovered
    <3>1. tl \in Won /\ SiteFiles(g) # {}
      BY <1>1, <2>6, <2>7, <2>9, MetadataShown DEF Won
    <3>2. 0 \in on
      BY <2>6, <2>7, <3>1 DEF SysPath, Provides
    <3>3. \A k \in Claimants(tl) : k \notin on
      BY <2>1, <2>2, <2>3, <2>9 DEF SysPath
    <3> QED
      BY <2>5, <2>8, <3>2, <3>3
  <2>10. CASE last \notin fullyCovered
    <3>1. tl \notin Won
      BY <2>10 DEF Won
    <3>2. 0 \notin on
      BY <2>8, <3>1 DEF Provides
    <3>3. last \in on
      BY <2>1, <2>2, <2>6, <2>7, <2>10 DEF SysPath, Provides
    <3>4. \A k \in Claimants(tl) : k \in on => k = last
      BY <2>1, <2>2, <2>3 DEF SysPath
    <3> QED
      BY <2>5, <3>2, <3>3, <3>4
  <2> QED
    BY <2>9, <2>10
<1>2. TopInv => OneDistribution
  BY <1>1 DEF OneDistribution, Names
<1> QED
  BY <1>2, TopInvariance, PTL

-----------------------------------------------------------------------------
(* The outputs.                                                            *)

\* Being above another path is an order in which what is above one path is in
\* a line.
LEMMA PrefixOrder ==
  /\ \A p \in Paths : IsPrefix(p, p)
  /\ \A p, q, r \in Paths : IsPrefix(p, q) /\ IsPrefix(q, r) => IsPrefix(p, r)
  /\ \A p, q \in Paths : IsPrefix(p, q) /\ IsPrefix(q, p) => p = q
  /\ \A p, q, r \in Paths : IsPrefix(p, r) /\ IsPrefix(q, r) => IsPrefix(p, q) \/ IsPrefix(q, p)
  /\ \A p, q \in Paths : Len(q) = 1 /\ IsPrefix(p, q) => p = q
<1>1. \A p \in Paths : IsPrefix(p, p)
  BY PrefixAbove
<1>2. ASSUME NEW p \in Paths, NEW q \in Paths, NEW r \in Paths, IsPrefix(p, q), IsPrefix(q, r)
      PROVE  IsPrefix(p, r)
  BY <1>2, PrefixAbove, AboveTrans
<1>3. ASSUME NEW p \in Paths, NEW q \in Paths, IsPrefix(p, q), IsPrefix(q, p)
      PROVE  p = q
  BY <1>3, PrefixAbove, AboveTrans, AboveHead
<1>4. ASSUME NEW p \in Paths, NEW q \in Paths, NEW r \in Paths, IsPrefix(p, r), IsPrefix(q, r)
      PROVE  IsPrefix(p, q) \/ IsPrefix(q, p)
  BY <1>1, <1>4, PrefixAbove, AboveChain
<1>5. ASSUME NEW p \in Paths, NEW q \in Paths, Len(q) = 1, IsPrefix(p, q)
      PROVE  p = q
  <2>1. CASE p \in Data!Ancestors(q)
    <3>1. Len(p) < Len(q) /\ Len(p) \in Nat \ {0}
      BY <2>1, AboveParts DEF Paths
    <3> QED
      BY <1>5, <3>1
  <2> QED
    BY <1>5, <2>1, PrefixAbove
<1> QED
  BY <1>1, <1>2, <1>3, <1>4, <1>5

\* A path cut off at some depth.
LEMMA CutOff ==
  ASSUME NEW f \in Paths, NEW n \in 1 .. Len(f)
  PROVE  /\ SubSeq(f, 1, n) \in Paths /\ Len(SubSeq(f, 1, n)) = n /\ IsPrefix(SubSeq(f, 1, n), f)
         /\ n < Len(f) => SubSeq(f, 1, n) \in Ancestors(f)
         /\ n = Len(f) => SubSeq(f, 1, n) = f
<1>1. Len(f) \in Nat \ {0} /\ n \in Nat \ {0} /\ n <= Len(f) /\ \A i \in 1 .. n : f[i] \in STRING
  BY DEF Paths
<1> DEFINE h == SubSeq(f, 1, n)
<1>2. /\ h \in Seq(STRING) /\ Len(h) = (IF 1 <= n THEN n - 1 + 1 ELSE 0)
      /\ \A i \in 1 .. n - 1 + 1 : h[i] = f[1 + i - 1]
  <2>1. n \in Int /\ 1 \in Int
    BY <1>1
  <2> QED
    BY <1>1, <2>1, SubSeqProperties
<1>3. Len(h) = n /\ h \in Paths /\ \A i \in 1 .. n : h[i] = f[i]
  BY <1>1, <1>2 DEF Paths
<1>4. n < Len(f) => h \in Ancestors(f)
  <2>1. n < Len(f) => n \in 1 .. (Len(f) - 1)
    BY <1>1
  <2> QED
    BY <2>1 DEF Ancestors
<1> HIDE DEF h
<1>5. n = Len(f) => h = f
  BY <1>3, SeqEqual DEF Paths
<1>6. IsPrefix(h, f)
  <2>1. CASE n = Len(f)
    BY <1>3, <1>5, <2>1, PrefixAbove
  <2>2. CASE n # Len(f)
    <3>1. Len(h) < Len(f)
      BY <1>1, <1>3, <2>2
    <3>2. h \in Data!Ancestors(f)
      BY <1>3, <3>1, AboveParts
    <3> QED
      BY <1>3, <3>2, PrefixAbove
  <2> QED
    BY <2>1, <2>2
<1> QED
  BY <1>3, <1>4, <1>5, <1>6 DEF h

\* Both definitions of what is above a path are one.
LEMMA AncestorsAre ==
  ASSUME NEW p \in Paths
  PROVE  /\ Ancestors(p) = Data!Ancestors(p)
         /\ \A q \in Paths : q \in Ancestors(p) <=> IsPrefix(q, p) /\ q # p
         /\ Ancestors(p) \subseteq Paths
<1>1. Ancestors(p) = Data!Ancestors(p)
  BY DEF Ancestors, Data!Ancestors
<1>2. \A q \in Data!Ancestors(p) : q \in Paths /\ q # p
  BY AboveHead
<1> QED
  BY <1>1, <1>2, PrefixAbove

\* The place of a path on the line above another one is its length.
LEMMA AboveIsCut ==
  ASSUME NEW f \in Paths, NEW p \in Paths, IsPrefix(p, f)
  PROVE  Len(p) \in 1 .. Len(f) /\ p = SubSeq(f, 1, Len(p))
<1>1. CASE p = f
  <2>1. Len(f) \in 1 .. Len(f)
    BY DEF Paths
  <2> QED
    BY <1>1, <2>1, CutOff
<1>2. CASE p # f
  <2>1. Len(p) < Len(f) /\ Len(p) \in Nat \ {0} /\ Len(f) \in Nat /\ \A i \in 1 .. Len(p) : p[i] = f[i]
    BY <1>2, PrefixAbove, AboveParts DEF Paths
  <2>2. Len(p) \in 1 .. Len(f)
    BY <2>1
  <2>3. SubSeq(f, 1, Len(p)) \in Paths /\ Len(SubSeq(f, 1, Len(p))) = Len(p)
    BY <2>2, CutOff
  <2>4. \A i \in 1 .. Len(p) : SubSeq(f, 1, Len(p))[i] = f[i]
    <3>1. SubSeq(f, 1, Len(p)) = f \/ SubSeq(f, 1, Len(p)) \in Data!Ancestors(f)
      BY <2>2, <2>3, CutOff, PrefixAbove
    <3> QED
      BY <2>3, <3>1, AboveParts
  <2> QED
    BY <2>1, <2>2, <2>3, <2>4, SeqEqual DEF Paths
<1> QED
  BY <1>1, <1>2

Antichain(X) == \A p, q \in X : IsPrefix(p, q) => p = q
Apart(X, Y) == \A p \in X, q \in Y : ~IsPrefix(p, q) /\ ~IsPrefix(q, p)

\* Binding whole directories keeps the outputs apart, from each other and from
\* what is excluded.
LEMMA CollapseApart ==
  ASSUME wheels \in WheelSets, NEW tl \in PlainPaths, NEW S \in SUBSET Wheel,
         NEW exclude \in SUBSET Paths, NEW owner, DOMAIN owner \subseteq PlainPaths,
         Antichain(DOMAIN owner), Apart(DOMAIN owner, exclude),
         \A e \in DOMAIN owner : IsPrefix(tl, e)
  PROVE  LET D == DOMAIN Collapse(owner, S, tl, exclude)
         IN /\ D \subseteq PlainPaths /\ Antichain(D) /\ Apart(D, exclude)
            /\ \A e \in D : IsPrefix(tl, e)
<1> DEFINE owners(d) == {w \in S : d \in NsDirs(w, tl)}
           sole == {d \in UNION {NsDirs(w, tl) : w \in S} :
                      /\ Cardinality(owners(d)) = 1
                      /\ \E e \in DOMAIN owner : IsStrictPrefix(d, e)
                      /\ ~Holds(d, exclude)}
           roots == Shallowest(sole)
           outside == {e \in DOMAIN owner : ~Within(e, roots)}
<1>1. sole \subseteq PlainPaths /\ \A d \in sole : IsPrefix(tl, d)
  BY SaidIsPlain DEF NsDirs
<1>2. \A d \in sole : (\E e \in DOMAIN owner : IsPrefix(d, e) /\ d # e) /\ ~Holds(d, exclude)
  BY DEF IsStrictPrefix
<1>3. roots \subseteq sole /\ \A p, q \in roots : IsPrefix(p, q) => p = q
  BY DEF Shallowest, IsStrictPrefix
<1>4. outside \subseteq DOMAIN owner /\ \A e \in outside : ~Within(e, roots)
  OBVIOUS
<1>5. Collapse(owner, S, tl, exclude) =
        IF DOMAIN owner = {} THEN owner
        ELSE [p \in outside \cup roots |->
                IF p \in roots THEN CHOOSE w \in owners(p) : TRUE ELSE owner[p]]
  BY Zenon DEF Collapse
<1> HIDE DEF owners, sole, roots, outside
<1>6. DOMAIN Collapse(owner, S, tl, exclude) = outside \cup roots \/
        DOMAIN Collapse(owner, S, tl, exclude) = DOMAIN owner
  BY <1>5
<1>7. \A d \in roots, e \in DOMAIN owner : ~IsPrefix(e, d)
  <2> SUFFICES ASSUME NEW d \in roots, NEW e \in DOMAIN owner, IsPrefix(e, d) PROVE FALSE
    OBVIOUS
  <2>1. PICK x \in DOMAIN owner : IsPrefix(d, x) /\ d # x
    BY <1>2, <1>3
  <2>2. d \in Paths /\ e \in Paths /\ x \in Paths
    BY <1>1, <1>3 DEF PlainPaths
  <2>3. IsPrefix(e, x)
    BY <2>1, <2>2, PrefixOrder
  <2>4. e = x
    BY <2>3 DEF Antichain
  <2> QED
    BY <2>1, <2>2, <2>4, PrefixOrder
<1>8. Antichain(outside \cup roots)
  BY <1>3, <1>4, <1>7 DEF Antichain, Within
<1>9. Apart(roots, exclude)
  <2> SUFFICES ASSUME NEW d \in roots, NEW x \in exclude
               PROVE  ~IsPrefix(d, x) /\ ~IsPrefix(x, d)
    BY DEF Apart
  <2>1. ~IsPrefix(d, x)
    BY <1>2, <1>3 DEF Holds
  <2>2. PICK e \in DOMAIN owner : IsPrefix(d, e) /\ d # e
    BY <1>2, <1>3
  <2>3. d \in Paths /\ e \in Paths /\ x \in Paths
    BY <1>1, <1>3 DEF PlainPaths
  <2>4. ~IsPrefix(x, e)
    BY DEF Apart
  <2> QED
    BY <2>1, <2>2, <2>3, <2>4, PrefixOrder
<1>10. Apart(outside \cup roots, exclude)
  BY <1>4, <1>9 DEF Apart
<1>11. \A e \in outside \cup roots : IsPrefix(tl, e) /\ e \in PlainPaths
  BY <1>1, <1>3, <1>4
<1> QED
  BY <1>6, <1>8, <1>10, <1>11

\* The depth at which an entry is cut off is the least that qualifies.
LEMMA LeastDepth ==
  ASSUME NEW k \in Nat, NEW D \in SUBSET (2 .. k), k \in D
  PROVE  LET m == CHOOSE n \in D : \A o \in D : n <= o
         IN m \in D /\ \A o \in D : m <= o
<1>1. D \subseteq Nat
  OBVIOUS
<1>2. PICK m \in D : \A o \in D : ~ (<<o, m>> \in OpToRel(<, Nat))
  BY <1>1, WFMin, NatLessThanWellFounded, Zenon
<1>3. \A o \in D : ~ (o < m)
  BY <1>1, <1>2 DEF OpToRel
<1>4. \A o \in D : m <= o
  BY <1>1, <1>3
<1> QED
  BY <1>4

\* A wheel that came with a RECORD.
Described(w) == wheels[w] = WheelRecord(wheels[w].files, wheels[w].data_files)

\* What the RECORD of a wheel says of a namespace.
LEMMA RecordSays ==
  ASSUME wheels \in WheelSets, NEW w \in Wheel, Described(w),
         NEW tl \in Paths, Len(tl) = 1, IsNs(w, tl)
  PROVE  LET F == wheels[w].files
             inits == InitDirs(F)
             below == {d \in Dirs(F) : SubSeq(d, 1, 1) \in NamespaceTopLevels(F)}
         IN /\ F \subseteq Paths /\ tl \in NamespaceTopLevels(F) /\ tl \notin inits
            /\ wheels[w].namespace_entries = NamespaceEntries(F)
            /\ wheels[w].native_roots = NativeRoots(F)
            /\ wheels[w].regular_roots = Roots(F).regular
            /\ wheels[w].namespace_dirs = Roots(F).namespace
            /\ \A d : d \in wheels[w].regular_roots <=>
                 d \in below /\ d \in inits /\ Ancestors(d) \cap inits = {}
            /\ \A d : d \in wheels[w].namespace_dirs <=>
                 d \in below /\ Len(d) >= 2 /\ d \notin inits /\ Ancestors(d) \cap inits = {}
<1> DEFINE F == wheels[w].files
           inits == InitDirs(F)
           below == {d \in Dirs(F) : SubSeq(d, 1, 1) \in NamespaceTopLevels(F)}
<1>1. /\ F \subseteq Paths
      /\ wheels[w].namespace_entries = NamespaceEntries(F)
      /\ wheels[w].namespace_dirs = Roots(F).namespace
      /\ wheels[w].regular_roots = Roots(F).regular
      /\ wheels[w].native_roots = NativeRoots(F)
      /\ tl \in NamespaceTopLevels(F)
  <2>1. F \subseteq Paths
    BY TopLevelsAssumption DEF Wheel, Paths
  <2>2. /\ WheelRecord(F, wheels[w].data_files).namespace_entries = NamespaceEntries(F)
        /\ WheelRecord(F, wheels[w].data_files).namespace_dirs = Roots(F).namespace
        /\ WheelRecord(F, wheels[w].data_files).regular_roots = Roots(F).regular
        /\ WheelRecord(F, wheels[w].data_files).native_roots = NativeRoots(F)
        /\ WheelRecord(F, wheels[w].data_files).namespace_top_levels = NamespaceTopLevels(F)
    BY DEF WheelRecord
  <2> QED
    BY <2>1, <2>2 DEF Described, IsNs
<1>2. /\ \A d : d \in wheels[w].regular_roots <=>
            d \in below /\ d \in inits /\ Ancestors(d) \cap inits = {}
      /\ \A d : d \in wheels[w].namespace_dirs <=>
            d \in below /\ Len(d) >= 2 /\ d \notin inits /\ Ancestors(d) \cap inits = {}
  <2>1. /\ Roots(F).regular = {d \in below \cap inits : Ancestors(d) \cap inits = {}}
        /\ Roots(F).namespace =
             {d \in below : Len(d) >= 2 /\ d \notin inits /\ Ancestors(d) \cap inits = {}}
    BY DEF Roots
  <2> QED
    BY <1>1, <2>1
<1>3. tl \notin inits
  <2> SUFFICES ASSUME tl \in inits PROVE FALSE
    OBVIOUS
  <2>1. PICK f \in F : Len(f) >= 2 /\ Last(f) = InitPy /\ tl = Front(f)
    BY DEF InitDirs
  <2>2. f \in Paths /\ Len(f) \in Nat
    BY <1>1 DEF Paths
  <2>3. Len(Front(f)) = Len(f) - 1
    <3>1. Len(f) - 1 \in 1 .. Len(f)
      BY <2>1, <2>2
    <3> QED
      BY <2>2, <3>1, CutOff DEF Front
  <2>4. Len(f) = 2 /\ f[2] = InitPy
    <3>1. Len(f) - 1 = 1
      BY <2>1, <2>3, Zenon
    <3>2. Len(f) = 2
      BY <2>2, <3>1
    <3> QED
      BY <2>1, <3>2 DEF Last
  <2>5. tl = SubSeq(f, 1, 1)
    BY <2>1, <2>4 DEF Front
  <2> QED
    BY <1>1, <2>4, <2>5 DEF NamespaceTopLevels, RegularTopLevels
<1> QED
  BY <1>1, <1>2, <1>3

\* What such a wheel says of a namespace: an entry is a file or a regular
\* package, and the directories above both are its namespace directories.
LEMMA DescribedSkeleton ==
  ASSUME wheels \in WheelSets, NEW w \in Wheel, Described(w),
         NEW tl \in Paths, Len(tl) = 1, IsNs(w, tl)
  PROVE  /\ \A e \in Entries(w, tl) :
              e # tl /\ (e \in wheels[w].files \/ e \in wheels[w].regular_roots)
         /\ \A x \in Entries(w, tl) \cup {r \in wheels[w].regular_roots : IsStrictPrefix(tl, r)} :
              \A d \in Paths : IsStrictPrefix(tl, d) /\ IsStrictPrefix(d, x) =>
                d \in Dirs(wheels[w].files) /\ d \in wheels[w].namespace_dirs
         /\ wheels[w].regular_roots \cap wheels[w].namespace_dirs = {}
<1> DEFINE F == wheels[w].files
           inits == InitDirs(F)
           below == {d \in Dirs(F) : SubSeq(d, 1, 1) \in NamespaceTopLevels(F)}
<1>1. /\ F \subseteq Paths
      /\ wheels[w].namespace_entries = NamespaceEntries(F)
      /\ wheels[w].namespace_dirs = Roots(F).namespace
      /\ wheels[w].regular_roots = Roots(F).regular
      /\ tl \in NamespaceTopLevels(F)
  BY RecordSays
<1>2. /\ \A d : d \in wheels[w].regular_roots <=>
            d \in below /\ d \in inits /\ Ancestors(d) \cap inits = {}
      /\ \A d : d \in wheels[w].namespace_dirs <=>
            d \in below /\ Len(d) >= 2 /\ d \notin inits /\ Ancestors(d) \cap inits = {}
  BY RecordSays
<1>3. tl \notin inits
  BY RecordSays
<1> DEFINE depths(f) == {n \in 2 .. Len(f) : n = Len(f) \/ SubSeq(f, 1, n) \in inits}
           depth(f) == CHOOSE n \in depths(f) : \A m \in depths(f) : n <= m
           free(d) == d \in Paths /\ IsPrefix(tl, d) /\ d # tl /\ Ancestors(d) \cap inits = {}
<1>4. ASSUME NEW d, free(d), NEW f \in F, IsPrefix(d, f), d # f
      PROVE  /\ d \in inits => d \in wheels[w].regular_roots
             /\ d \notin inits => d \in Dirs(F) /\ d \in wheels[w].namespace_dirs
  <2>1. f \in Paths /\ d \in Paths /\ IsPrefix(tl, d) /\ d # tl /\ Ancestors(d) \cap inits = {}
    BY <1>1, <1>4
  <2>2. d \in Dirs(F)
    BY <1>4, <2>1, AncestorsAre DEF Dirs
  <2>3. SubSeq(d, 1, 1) = tl
    BY <2>1, TopLevelOf
  <2>4. d \in below
    BY <1>1, <2>2, <2>3
  <2>5. Len(d) >= 2
    BY <2>1, PrefixAbove, AboveParts DEF Paths
  <2> QED
    BY <1>2, <2>1, <2>2, <2>4, <2>5
<1> HIDE DEF F, inits, below
<1>5. ASSUME NEW e \in Entries(w, tl)
      PROVE  \E f \in F : /\ IsPrefix(e, f) /\ e \in Paths /\ IsPrefix(tl, e) /\ e # tl
                          /\ e = f \/ e \in inits
                          /\ \A d \in Paths : IsPrefix(d, e) /\ d # e => d \notin inits
  <2>1. e \in NamespaceEntries(F) /\ IsPrefix(tl, e)
    BY <1>1 DEF Entries
  <2>2. PICK f \in F : Len(f) >= 2 /\ e = SubSeq(f, 1, depth(f))
    BY <2>1 DEF NamespaceEntries, inits
  <2>3. f \in Paths /\ Len(f) \in Nat
    BY <1>1 DEF Paths
  <2>4. Len(f) \in depths(f) /\ depths(f) \subseteq 2 .. Len(f)
    BY <2>2, <2>3
  <2> DEFINE m == depth(f)
  <2>5. m \in depths(f) /\ \A n \in depths(f) : m <= n
    BY <2>3, <2>4, LeastDepth
  <2> HIDE DEF depth
  <2>6. m \in 2 .. Len(f) /\ m \in 1 .. Len(f) /\ (m = Len(f) \/ SubSeq(f, 1, m) \in inits)
    BY <2>3, <2>5
  <2>7. e \in Paths /\ Len(e) = m /\ IsPrefix(e, f) /\ (m = Len(f) => e = f)
    BY <2>2, <2>3, <2>6, CutOff
  <2>8. e # tl
    <3>1. Len(e) # 1
      BY <2>3, <2>6, <2>7
    <3> QED
      BY <3>1, Zenon
  <2>9. ASSUME NEW d \in Paths, IsPrefix(d, e), d # e
        PROVE  d \notin inits
    <3>1. Len(d) < m /\ Len(d) \in Nat \ {0}
      BY <2>7, <2>9, PrefixAbove, AboveParts DEF Paths
    <3>2. IsPrefix(d, f)
      BY <2>3, <2>7, <2>9, PrefixOrder
    <3>3. d = SubSeq(f, 1, Len(d)) /\ Len(d) \in 1 .. Len(f)
      BY <2>3, <3>2, AboveIsCut
    <3>4. CASE Len(d) = 1
      <4>1. IsPrefix(tl, f)
        BY <2>1, <2>3, <2>7, PrefixOrder
      <4>2. d = tl
        BY <2>3, <3>2, <3>4, <4>1, TopLevelOf
      <4> QED
        BY <1>3, <4>2
    <3>5. CASE Len(d) # 1
      <4>1. Len(d) \in 2 .. Len(f) /\ Len(d) \notin depths(f)
        BY <2>3, <2>5, <2>6, <3>1, <3>3, <3>5
      <4> QED
        BY <3>3, <4>1
    <3> QED
      BY <3>4, <3>5
  <2> QED
    BY <2>1, <2>2, <2>6, <2>7, <2>8, <2>9
<1>6. ASSUME NEW r \in wheels[w].regular_roots, IsPrefix(tl, r), r # tl
      PROVE  \E f \in F : /\ IsPrefix(r, f) /\ r \in Paths
                          /\ \A d \in Paths : IsPrefix(d, r) /\ d # r => d \notin inits
  <2>1. r \in Dirs(F) /\ Ancestors(r) \cap inits = {}
    BY <1>2 DEF below
  <2>2. PICK f \in F : r \in Ancestors(f)
    BY <2>1 DEF Dirs
  <2>3. IsPrefix(r, f) /\ r \in Paths
    BY <1>1, <2>2, AncestorsAre
  <2> QED
    BY <2>1, <2>2, <2>3, AncestorsAre
<1>7. ASSUME NEW x \in Paths, IsPrefix(tl, x), x # tl, NEW f \in F, IsPrefix(x, f),
             \A d \in Paths : IsPrefix(d, x) /\ d # x => d \notin inits,
             NEW d \in Paths, IsPrefix(tl, d), d # tl, IsPrefix(d, x), d # x
      PROVE  d \in Dirs(F) /\ d \in wheels[w].namespace_dirs
  <2>1. f \in Paths
    BY <1>1
  <2>2. IsPrefix(d, f) /\ d # f
    BY <1>7, <2>1, PrefixOrder
  <2>3. \A a \in Ancestors(d) : a \in Paths /\ IsPrefix(a, x) /\ a # x
    <3> TAKE a \in Ancestors(d)
    <3>1. a \in Paths /\ IsPrefix(a, d) /\ a # d
      BY <1>7, AncestorsAre
    <3> QED
      BY <1>7, <3>1, PrefixOrder
  <2>4. Ancestors(d) \cap inits = {} /\ d \notin inits
    BY <1>7, <2>3
  <2>5. free(d)
    BY <1>7, <2>4
  <2> QED
    BY <1>4, <2>2, <2>4, <2>5
<1>8. ASSUME NEW e \in Entries(w, tl)
      PROVE  e # tl /\ (e \in F \/ e \in wheels[w].regular_roots)
  <2>1. PICK f \in F : /\ IsPrefix(e, f) /\ e \in Paths /\ IsPrefix(tl, e) /\ e # tl
                       /\ e = f \/ e \in inits
                       /\ \A d \in Paths : IsPrefix(d, e) /\ d # e => d \notin inits
    BY <1>5
  <2>2. CASE e # f
    <3>1. Ancestors(e) \cap inits = {}
      BY <2>1, AncestorsAre
    <3>2. free(e)
      BY <2>1, <3>1
    <3> QED
      BY <1>4, <2>1, <2>2, <3>2
  <2> QED
    BY <2>1, <2>2
<1>9. wheels[w].regular_roots \cap wheels[w].namespace_dirs = {}
  BY <1>2
<1>10. \A x \in Entries(w, tl) \cup {r \in wheels[w].regular_roots : IsStrictPrefix(tl, r)} :
              \A d \in Paths : IsStrictPrefix(tl, d) /\ IsStrictPrefix(d, x) =>
                d \in Dirs(F) /\ d \in wheels[w].namespace_dirs
  <2> SUFFICES ASSUME NEW x \in Entries(w, tl) \cup {r \in wheels[w].regular_roots : IsStrictPrefix(tl, r)},
                      NEW d \in Paths, IsStrictPrefix(tl, d), IsStrictPrefix(d, x)
               PROVE  d \in Dirs(F) /\ d \in wheels[w].namespace_dirs
    OBVIOUS
  <2>1. \E f \in F : /\ IsPrefix(x, f) /\ x \in Paths /\ IsPrefix(tl, x) /\ x # tl
                     /\ \A c \in Paths : IsPrefix(c, x) /\ c # x => c \notin inits
    BY <1>5, <1>6 DEF IsStrictPrefix
  <2> QED
    BY <1>7, <2>1 DEF IsStrictPrefix
<1> QED
  BY <1>8, <1>9, <1>10 DEF F

\* Entries that go to their own wheels next to conflicted roots are outside of
\* those, and not below each other.
LEMMA EntriesApart ==
  ASSUME wheels \in WheelSets, NEW tl \in PlainPaths, Len(tl) = 1,
         \A w \in Claimants(tl) : IsNs(w, tl),
         \A v, w \in Claimants(tl) : Described(w) /\ Dirs(wheels[v].files) \cap wheels[w].files = {},
         NEW roots, roots = ConflictedRoots(tl, Claimants(tl)),
         NEW S \in SUBSET Claimants(tl)
  PROVE  LET E == DOMAIN EntryOwner(S, tl, roots)
         IN /\ E \subseteq PlainPaths /\ Antichain(E) /\ Apart(E, roots)
            /\ \A e \in E : IsPrefix(tl, e)
<1> DEFINE All == Claimants(tl)
           E == DOMAIN EntryOwner(S, tl, roots)
<1>1. E = {x \in UNION {Entries(w, tl) : w \in S} : ~Within(x, roots)}
  BY DEF EntryOwner
<1>2. All \subseteq Wheel /\ S \subseteq All /\ tl \in Paths
  BY DEF Claimants, PlainPaths
<1>3. \A v, w \in All : Described(w) /\ Dirs(wheels[v].files) \cap wheels[w].files = {}
  OBVIOUS
<1>4. roots \subseteq PlainPaths /\ \A r \in roots :
        /\ IsStrictPrefix(tl, r)
        /\ \E w \in All : r \in wheels[w].regular_roots
  BY <1>2, SaidIsPlain DEF ConflictedRoots
<1>5. \A r \in Paths : \A v, w \in All :
        v # w /\ r \in wheels[v].regular_roots /\ IsStrictPrefix(tl, r)
          /\ r \in wheels[w].namespace_dirs \cup wheels[w].regular_roots => r \in roots
  BY Zenon DEF ConflictedRoots
<1>6. E \subseteq PlainPaths /\ \A e \in E : IsPrefix(tl, e) /\ ~Within(e, roots)
  BY <1>1, <1>2, OwnedIsPlain DEF Entries
<1>7. \A e \in E : \E w \in All : e \in Entries(w, tl)
  BY <1>1, <1>2
<1> HIDE DEF All, E
<1>8. ASSUME NEW e \in E, NEW w \in All,
             NEW x \in Entries(w, tl) \cup {r \in wheels[w].regular_roots : IsStrictPrefix(tl, r)},
             IsStrictPrefix(e, x)
      PROVE  FALSE
  <2>1. PICK v \in All : e \in Entries(v, tl)
    BY <1>7
  <2>2. e \in Paths /\ v \in Wheel /\ w \in Wheel /\ IsNs(v, tl) /\ IsNs(w, tl)
    BY <1>2, <1>6 DEF PlainPaths, All
  <2>3. e # tl /\ (e \in wheels[v].files \/ e \in wheels[v].regular_roots)
    BY <1>2, <1>3, <2>1, <2>2, DescribedSkeleton
  <2>4. IsStrictPrefix(tl, e)
    BY <1>6, <2>3 DEF IsStrictPrefix
  <2>5. e \in Dirs(wheels[w].files) /\ e \in wheels[w].namespace_dirs
    BY <1>2, <1>3, <1>8, <2>2, <2>4, DescribedSkeleton
  <2>6. e \in wheels[v].regular_roots
    BY <1>3, <2>3, <2>5
  <2>7. v # w
    BY <1>2, <1>3, <2>2, <2>5, <2>6, DescribedSkeleton
  <2>8. e \in roots
    BY <1>5, <2>2, <2>4, <2>5, <2>6, <2>7
  <2>9. IsPrefix(e, e)
    BY <2>2, PrefixOrder
  <2> QED
    BY <1>6, <2>8, <2>9 DEF Within
<1>9. Antichain(E)
  <2> SUFFICES ASSUME NEW e \in E, NEW x \in E, IsPrefix(e, x), e # x PROVE FALSE
    BY DEF Antichain
  <2>1. PICK w \in All : x \in Entries(w, tl)
    BY <1>7
  <2> QED
    BY <1>8, <2>1 DEF IsStrictPrefix
<1>10. Apart(E, roots)
  <2> SUFFICES ASSUME NEW e \in E, NEW r \in roots
               PROVE  ~IsPrefix(e, r) /\ ~IsPrefix(r, e)
    BY DEF Apart
  <2>1. ~IsPrefix(r, e)
    BY <1>6 DEF Within
  <2>2. ASSUME IsPrefix(e, r) PROVE FALSE
    <3>1. e # r
      BY <2>1, <2>2
    <3>2. PICK w \in All : r \in wheels[w].regular_roots /\ IsStrictPrefix(tl, r)
      BY <1>4 DEF All
    <3> QED
      BY <1>8, <2>2, <3>1, <3>2 DEF IsStrictPrefix
  <2> QED
    BY <2>1, <2>2
<1> QED
  BY <1>6, <1>9, <1>10 DEF E

\* The roots bound to one wheel are not below each other, and apart from those
\* left for a merge.
LEMMA NativeApart ==
  ASSUME NEW roots \in SUBSET Paths, NEW S
  PROVE  LET native == NativeConflicted(roots, S)
         IN native \subseteq roots /\ Antichain(native)
              /\ Apart(native, {r \in roots : ~Within(r, native)})
<1> DEFINE held == {r \in roots : \E w \in S : r \in wheels[w].native_roots}
           X == {r \in roots : Holds(r, held)}
           native == NativeConflicted(roots, S)
<1>1. native = Shallowest(X)
  BY DEF NativeConflicted
<1>2. X \subseteq roots /\ held \subseteq roots /\ \A r \in roots : r \in X <=> \E h \in held : IsPrefix(r, h)
  BY DEF Holds
<1> HIDE DEF X, held, native
<1>3. native \subseteq X /\ \A n \in native, x \in X : IsPrefix(x, n) => x = n
  BY <1>1 DEF Shallowest, IsStrictPrefix
<1>4. Antichain(native)
  BY <1>3 DEF Antichain
<1>5. ASSUME NEW n \in native, NEW r \in roots, ~Within(r, native)
      PROVE  ~IsPrefix(n, r) /\ ~IsPrefix(r, n)
  <2>1. ~IsPrefix(n, r)
    BY <1>5 DEF Within
  <2>2. ASSUME IsPrefix(r, n) PROVE FALSE
    <3>1. PICK h \in held : IsPrefix(n, h)
      BY <1>2, <1>3
    <3>2. r \in Paths /\ n \in Paths /\ h \in Paths
      BY <1>2, <1>3
    <3>3. r \in X
      BY <1>2, <2>2, <3>1, <3>2, PrefixOrder
    <3> QED
      BY <1>3, <2>1, <2>2, <3>3
  <2> QED
    BY <2>1, <2>2
<1>6. Apart(native, {r \in roots : ~Within(r, native)})
  BY <1>5 DEF Apart
<1> QED
  BY <1>2, <1>3, <1>4, <1>6 DEF native

AllDescribed == \A tl \in UNION {wheels[w].top_levels : w \in Wheel} : SpanDescribed(tl)

\* The outputs are not below each other.  Until the merges are folded they are
\* also apart from the conflicted roots, and neither reaches into a top level
\* that is still to be resolved.
OutputsInv ==
  AllDescribed =>
    /\ Antichain(Outputs) /\ DOMAIN projected \cap DOMAIN mergeGroups = {}
    /\ stage = "resolve" =>
         /\ Apart(Outputs, conflicted)
         /\ pending \subseteq UNION {wheels[w].top_levels : w \in Wheel}
         /\ \A p \in Outputs \cup conflicted, tl \in pending : ~IsPrefix(tl, p)

LEMMA OutputsInvInit == VenvInit => OutputsInv
<1> SUFFICES ASSUME VenvInit PROVE OutputsInv
  OBVIOUS
<1>1. DOMAIN projected = {} /\ DOMAIN mergeGroups = {} /\ conflicted = {}
      /\ pending \subseteq UNION {wheels[w].top_levels : w \in Wheel}
  BY DEF VenvInit, Init
<1> QED
  BY <1>1 DEF OutputsInv, Outputs, Antichain, Apart

LEMMA DescribedStays == UNCHANGED wheels => (AllDescribed' <=> AllDescribed)
<1> SUFFICES ASSUME UNCHANGED wheels PROVE AllDescribed' <=> AllDescribed
  OBVIOUS
<1>1. UNCHANGED Wheel /\ \A tl : UNCHANGED Claimants(tl)
  BY DEF Wheel, Claimants
<1>2. ASSUME NEW tl PROVE SpanDescribed(tl)' <=> SpanDescribed(tl)
  BY <1>1 DEF SpanDescribed, ConflictedRoots, IsNs
<1> QED
  BY <1>1, <1>2 DEF AllDescribed

\* Outputs placed in one top level do not meet those of the others.
LEMMA Placing ==
  ASSUME TopInv, OutputsInv, AllDescribed, stage = "resolve", NEW tl \in pending,
         UNCHANGED <<wheels, stage>>, pending' = pending \ {tl},
         NEW P \in SUBSET PlainPaths, NEW M \in SUBSET PlainPaths, NEW C \in SUBSET PlainPaths,
         DOMAIN projected' = DOMAIN projected \cup P,
         DOMAIN mergeGroups' = DOMAIN mergeGroups \cup M,
         conflicted' = conflicted \cup C,
         \A p \in P \cup M \cup C : IsPrefix(tl, p),
         Antichain(P \cup M), P \cap M = {}, Apart(P \cup M, C)
  PROVE  OutputsInv'
<1> DEFINE old == Outputs \cup conflicted
           new == P \cup M \cup C
<1>1. /\ Antichain(Outputs) /\ DOMAIN projected \cap DOMAIN mergeGroups = {}
      /\ Apart(Outputs, conflicted)
      /\ pending \subseteq UNION {wheels[w].top_levels : w \in Wheel}
      /\ \A p \in old, t \in pending : ~IsPrefix(t, p)
  BY DEF OutputsInv
<1>2. \A t \in pending : t \in Paths /\ Len(t) = 1
  BY <1>1, TopLevelsAre DEF TopInv
<1>3. old \subseteq Paths /\ new \subseteq Paths /\ Outputs \subseteq old /\ conflicted \subseteq old
  BY DEF TopInv, Outputs, PlainPaths
<1>4. Outputs' = Outputs \cup P \cup M
  BY DEF Outputs
<1>5. \A p \in new : IsPrefix(tl, p)
  OBVIOUS
<1> HIDE DEF old, new
<1>6. ASSUME NEW p \in old, NEW q \in new
      PROVE  ~IsPrefix(p, q) /\ ~IsPrefix(q, p) /\ p # q
  <2>1. p \in Paths /\ q \in Paths /\ tl \in Paths /\ Len(tl) = 1 /\ IsPrefix(tl, q) /\ ~IsPrefix(tl, p)
    BY <1>1, <1>2, <1>3, <1>5
  <2>2. ~IsPrefix(q, p)
    BY <2>1, PrefixOrder
  <2>3. ~IsPrefix(p, q)
    <3> SUFFICES ASSUME IsPrefix(p, q) PROVE FALSE
      OBVIOUS
    <3>1. IsPrefix(p, tl)
      BY <2>1, PrefixOrder
    <3>2. p = tl
      BY <2>1, <3>1, PrefixOrder
    <3> QED
      BY <2>1, <3>2, PrefixOrder
  <2> QED
    BY <2>1, <2>2, <2>3
<1>7. P \subseteq new /\ M \subseteq new /\ C \subseteq new
  BY DEF new
<1>8. Antichain(Outputs')
  BY <1>1, <1>3, <1>4, <1>6, <1>7 DEF Antichain
<1>9. DOMAIN projected' \cap DOMAIN mergeGroups' = {}
  <2>1. DOMAIN projected \subseteq old /\ DOMAIN mergeGroups \subseteq old
    BY DEF old, Outputs
  <2> QED
    BY <1>1, <1>6, <1>7, <2>1
<1>10. Apart(Outputs', conflicted')
  BY <1>1, <1>3, <1>4, <1>6, <1>7 DEF Apart
<1>11. ASSUME NEW p \in Outputs' \cup conflicted', NEW t \in pending'
       PROVE  ~IsPrefix(t, p)
  <2>1. t \in pending /\ t # tl /\ (p \in old \/ p \in new)
    BY <1>4 DEF old, new
  <2>2. CASE p \in old
    BY <1>1, <2>1, <2>2
  <2>3. CASE p \in new
    <3>1. p \in Paths /\ t \in Paths /\ tl \in Paths /\ Len(t) = 1 /\ Len(tl) = 1
      BY <1>2, <1>3, <2>1, <2>3
    <3> QED
      BY <1>5, <2>1, <2>3, <3>1, TopLevelOf
  <2> QED
    BY <2>1, <2>2, <2>3
<1>12. pending' \subseteq UNION {wheels[w].top_levels : w \in Wheel}'
  BY <1>1 DEF Wheel
<1> QED
  BY <1>8, <1>9, <1>10, <1>11, <1>12 DEF OutputsInv

LEMMA ResolveTopLevelOutputs ==
  ASSUME TopInv, OutputsInv, AllDescribed, NEW tl \in pending, ResolveTopLevel(tl)
  PROVE  OutputsInv'
<1> DEFINE S == Claimants(tl)
           Placed(P, M, C) ==
             /\ P \subseteq PlainPaths /\ M \subseteq PlainPaths /\ C \subseteq PlainPaths
             /\ DOMAIN projected' = DOMAIN projected \cup P
             /\ DOMAIN mergeGroups' = DOMAIN mergeGroups \cup M
             /\ conflicted' = conflicted \cup C
             /\ \A p \in P \cup M \cup C : IsPrefix(tl, p)
             /\ Antichain(P \cup M) /\ P \cap M = {} /\ Apart(P \cup M, C)
<1>1. stage = "resolve" /\ pending' = pending \ {tl} /\ UNCHANGED <<wheels, stage>>
  BY DEF ResolveTopLevel
<1>2. /\ wheels \in WheelSets /\ tl \in PlainPaths /\ tl \in Paths /\ S \subseteq Wheel
      /\ tl \in UNION {wheels[w].top_levels : w \in Wheel}
  BY <1>1 DEF TopInv, OutputsInv, Claimants, PlainPaths
<1>3. Len(tl) = 1 /\ SpanDescribed(tl) /\ IsPrefix(tl, tl)
  BY <1>2, TopLevelsAre, PrefixOrder DEF AllDescribed
<1>4. ASSUME NEW P, NEW M, NEW C, Placed(P, M, C) PROVE OutputsInv'
  BY <1>1, <1>4, Placing
<1>5. CASE /\ projected' = Updated(projected, [p \in {tl} |-> LastOf(S)])
           /\ UNCHANGED <<conflicted, mergeGroups>>
  <2>1. DOMAIN projected' = DOMAIN projected \cup {tl}
    BY <1>5 DEF Updated
  <2>2. Placed({tl}, {}, {})
    BY <1>2, <1>3, <1>5, <2>1 DEF Antichain, Apart
  <2> QED
    BY <1>4, <2>2
<1>6. CASE ResolvePureNamespace(tl, S)
  <2> DEFINE with == S \ {w \in S : Entries(w, tl) = {}}
             claimed == EntryOwner(with, tl, {})
             owner == [e \in DOMAIN claimed \ Nested(claimed) |-> claimed[e]]
             D == DOMAIN Collapse(owner, with, tl, {})
  <2>1. projected' = Updated(projected, Collapse(owner, with, tl, {})) /\ UNCHANGED <<conflicted, mergeGroups>>
    BY <1>6, Zenon DEF ResolvePureNamespace
  <2>2. with \subseteq Wheel
    BY <1>2
  <2>3. DOMAIN claimed \subseteq PlainPaths /\ \A e \in DOMAIN claimed : IsPrefix(tl, e)
    BY <1>2, <2>2, OwnedIsPlain DEF EntryOwner, Entries
  <2>4. DOMAIN owner = Shallowest(DOMAIN claimed)
    BY DEF Nested, Shallowest
  <2>5. /\ DOMAIN owner \subseteq DOMAIN claimed
        /\ Antichain(DOMAIN owner)
    BY <2>4 DEF Shallowest, Antichain, IsStrictPrefix
  <2> HIDE DEF with, claimed, owner
  <2>6. DOMAIN owner \subseteq PlainPaths /\ Apart(DOMAIN owner, {})
        /\ \A e \in DOMAIN owner : IsPrefix(tl, e)
    BY <2>3, <2>5 DEF Apart
  <2>7. D \subseteq PlainPaths /\ Antichain(D) /\ \A e \in D : IsPrefix(tl, e)
    BY <1>2, <2>2, <2>5, <2>6, CollapseApart
  <2>8. DOMAIN projected' = DOMAIN projected \cup D
    BY <2>1, UpdatedDomain
  <2> HIDE DEF D
  <2>9. Placed(D, {}, {})
    BY <2>1, <2>7, <2>8 DEF Apart
  <2> QED
    BY <1>4, <2>9
<1>7. CASE /\ ResolveSpan(tl, S, ConflictedRoots(tl, S)) /\ ConflictedRoots(tl, S) # {}
           /\ \A w \in S : IsNs(w, tl)
  <2> DEFINE roots == ConflictedRoots(tl, S)
             native == NativeConflicted(roots, S)
             winner == [r \in native |-> LastOf({w \in S : r \in wheels[w].regular_roots})]
             with == S \ {w \in S : Entries(w, tl) = {}}
             owner == EntryOwner(with, tl, roots)
             D == DOMAIN Collapse(owner, with, tl, roots)
             merged == {r \in roots : ~Within(r, native)}
  <2>1. /\ conflicted' = conflicted \cup merged
        /\ projected' = Updated(Updated(projected, winner), Collapse(owner, with, tl, roots))
        /\ UNCHANGED mergeGroups
    BY <1>7, Zenon DEF ResolveSpan
  <2>2. with \subseteq S /\ with \subseteq Wheel
    BY <1>2
  <2>3. roots \subseteq PlainPaths /\ \A r \in roots : IsPrefix(tl, r)
    BY <1>2, SaidIsPlain DEF ConflictedRoots, IsStrictPrefix
  <2>4. DOMAIN winner = native /\ merged \subseteq roots
    OBVIOUS
  <2>5. roots \subseteq Paths /\ roots = ConflictedRoots(tl, S) /\ roots # {}
    BY <1>7, <2>3 DEF PlainPaths
  <2> HIDE DEF roots
  <2>6. native \subseteq roots /\ Antichain(native) /\ Apart(native, merged)
    BY <2>5, NativeApart
  <2>7. /\ DOMAIN owner \subseteq PlainPaths /\ Antichain(DOMAIN owner) /\ Apart(DOMAIN owner, roots)
        /\ \A e \in DOMAIN owner : IsPrefix(tl, e)
    <3>1. \A v, w \in S : Described(w) /\ Dirs(wheels[v].files) \cap wheels[w].files = {}
      BY <1>3, <1>7 DEF SpanDescribed, Described
    <3> QED
      BY <1>2, <1>3, <1>7, <2>2, <2>5, <3>1, EntriesApart
  <2> HIDE DEF native, winner, with, owner, merged
  <2>8. D \subseteq PlainPaths /\ Antichain(D) /\ Apart(D, roots) /\ \A e \in D : IsPrefix(tl, e)
    BY <1>2, <2>2, <2>5, <2>7, CollapseApart
  <2>9. DOMAIN projected' = DOMAIN projected \cup (native \cup D)
    <3>1. DOMAIN projected' = DOMAIN Updated(projected, winner) \cup D
      BY <2>1, UpdatedDomain, Zenon
    <3>2. DOMAIN Updated(projected, winner) = DOMAIN projected \cup native
      BY <2>4, UpdatedDomain, Zenon
    <3> QED
      BY <3>1, <3>2
  <2> HIDE DEF D
  <2>10. Antichain(native \cup D)
    BY <2>6, <2>8 DEF Antichain, Apart
  <2>11. Apart(native \cup D, merged)
    BY <2>4, <2>6, <2>8 DEF Apart
  <2>12. Placed(native \cup D, {}, merged)
    BY <2>1, <2>3, <2>4, <2>6, <2>8, <2>9, <2>10, <2>11
  <2> QED
    BY <1>4, <2>12
<1>8. CASE ResolveDirectories(tl, S)
  <2>1. CASE /\ \E w : projected' = Updated(projected, [p \in {tl} |-> w])
             /\ UNCHANGED <<conflicted, mergeGroups>>
    <3>1. DOMAIN projected' = DOMAIN projected \cup {tl}
      BY <2>1 DEF Updated
    <3>2. Placed({tl}, {}, {})
      BY <1>2, <1>3, <2>1, <3>1 DEF Antichain, Apart
    <3> QED
      BY <1>4, <3>2
  <2>2. CASE /\ mergeGroups' = Updated(mergeGroups, [r \in {tl} |-> InOrder(S)])
             /\ UNCHANGED <<conflicted, projected>>
    <3>1. DOMAIN mergeGroups' = DOMAIN mergeGroups \cup {tl}
      BY <2>2 DEF Updated
    <3>2. Placed({}, {tl}, {})
      BY <1>2, <1>3, <2>2, <3>1 DEF Antichain, Apart
    <3> QED
      BY <1>4, <3>2
  <2>3. ResolveDirectories(tl, S) =>
          \/ /\ \E w : projected' = Updated(projected, [p \in {tl} |-> w])
             /\ UNCHANGED <<conflicted, mergeGroups>>
          \/ /\ mergeGroups' = Updated(mergeGroups, [r \in {tl} |-> InOrder(S)])
             /\ UNCHANGED <<conflicted, projected>>
    BY Zenon DEF ResolveDirectories
  <2> QED
    BY <1>8, <2>1, <2>2, <2>3
<1>9. \/ /\ projected' = Updated(projected, [p \in {tl} |-> LastOf(S)])
         /\ UNCHANGED <<conflicted, mergeGroups>>
      \/ ResolvePureNamespace(tl, S)
      \/ /\ ResolveSpan(tl, S, ConflictedRoots(tl, S)) /\ ConflictedRoots(tl, S) # {}
         /\ \A w \in S : IsNs(w, tl)
      \/ ResolveDirectories(tl, S)
  BY DEF ResolveTopLevel, ResolveNamespace, ResolveModule
<1> QED
  BY <1>5, <1>6, <1>7, <1>8, <1>9

LEMMA FoldMergeGroupsOutputs ==
  ASSUME TopInv, OutputsInv, AllDescribed, FoldMergeGroups
  PROVE  OutputsInv'
<1> DEFINE roots == {r \in Shallowest(conflicted) : Cardinality(Contributors(r)) >= 2}
<1>1. /\ UNCHANGED projected /\ stage = "resolve" /\ stage' = "metadata"
      /\ mergeGroups' = Updated(mergeGroups, [r \in roots |-> InOrder(Contributors(r))])
  BY DEF FoldMergeGroups
<1>2. roots \subseteq conflicted /\ roots \subseteq Paths /\ Antichain(roots)
  BY DEF Shallowest, Antichain, IsStrictPrefix, TopInv, PlainPaths
<1> HIDE DEF roots
<1>3. DOMAIN mergeGroups' = roots \cup DOMAIN mergeGroups
  BY <1>1 DEF Updated
<1>4. Outputs' = Outputs \cup roots
  BY <1>1, <1>3 DEF Outputs
<1>5. Antichain(Outputs) /\ Apart(Outputs, roots) /\ DOMAIN projected \cap DOMAIN mergeGroups = {}
  BY <1>1, <1>2 DEF OutputsInv, Apart
<1>6. Antichain(Outputs')
  BY <1>2, <1>4, <1>5 DEF Antichain, Apart
<1>7. DOMAIN projected \cap roots = {}
  BY <1>2, <1>5, PrefixOrder DEF Apart, Outputs
<1> QED
  BY <1>1, <1>3, <1>5, <1>6, <1>7 DEF OutputsInv

LEMMA ResolveMetadataOutputs ==
  ASSUME TopInv, OutputsInv, AllDescribed, ResolveMetadata
  PROVE  OutputsInv'
<1>1. UNCHANGED <<wheels, mergeGroups>> /\ stage = "metadata" /\ stage' # "resolve"
  BY DEF ResolveMetadata
<1>2. UNCHANGED projected \/ \E bound : DOMAIN bound = Won /\ projected' = Updated(projected, bound)
  <2> DEFINE bound == [tl \in Won |-> LastOf(Claimants(tl))]
  <2>1. UNCHANGED projected \/ projected' = Updated(projected, bound)
    BY Zenon DEF ResolveMetadata, Names, Won
  <2> QED
    BY <2>1
<1>3. DOMAIN projected' = DOMAIN projected \/ DOMAIN projected' = DOMAIN projected \cup Won
  BY <1>2, UpdatedDomain
<1>4. Antichain(Outputs) /\ DOMAIN projected \cap DOMAIN mergeGroups = {} /\ Outputs \subseteq PlainPaths
  BY <1>1 DEF OutputsInv, TopInv, Outputs
<1>5. \A tl \in Won : tl \in Paths /\ Len(tl) = 1 /\ tl[1] \in Metadata
  BY LastClaims DEF Won, TopInv
<1>6. ASSUME NEW tl \in Won, NEW p \in PlainPaths
      PROVE  ~IsPrefix(tl, p) /\ ~IsPrefix(p, tl) /\ tl # p
  <2>1. p \in Paths /\ p \in Seq(STRING) /\ p[1] \notin Metadata
    BY DEF PlainPaths, Paths
  <2>2. tl \in Paths /\ tl \in Seq(STRING) /\ tl[1] \in Metadata
    BY <1>5 DEF Paths
  <2> QED
    BY <2>1, <2>2, PrefixHead
<1>7. \A s, t \in Won : IsPrefix(s, t) => s = t
  BY <1>5, PrefixOrder
<1>8. Antichain(Outputs \cup Won)
  BY <1>4, <1>6, <1>7 DEF Antichain
<1>9. Won \cap DOMAIN mergeGroups = {}
  BY <1>4, <1>6 DEF Outputs
<1>10. Outputs' \subseteq Outputs \cup Won
  BY <1>1, <1>3 DEF Outputs
<1>11. Antichain(Outputs')
  BY <1>8, <1>10 DEF Antichain
<1>12. DOMAIN projected' \cap DOMAIN mergeGroups' = {}
  BY <1>1, <1>3, <1>4, <1>9
<1> QED
  BY <1>1, <1>11, <1>12 DEF OutputsInv

LEMMA OutputsInvariance == VenvSpec => [](TopInv /\ OutputsInv)
<1>1. TopInv /\ OutputsInv /\ [VenvNext \/ Terminating]_<<vars, dataVars>> => OutputsInv'
  <2> SUFFICES ASSUME TopInv, OutputsInv, [VenvNext \/ Terminating]_<<vars, dataVars>>
               PROVE  OutputsInv'
    OBVIOUS
  <2>1. CASE UNCHANGED vars
    <3>1. UNCHANGED wheels /\ UNCHANGED Wheel /\ UNCHANGED Outputs
      BY <2>1 DEF vars, Wheel, Outputs
    <3>2. AllDescribed' => AllDescribed
      BY <3>1, DescribedStays
    <3> QED
      BY <2>1, <3>1, <3>2 DEF OutputsInv, vars
  <2>2. CASE (\E tl \in pending : ResolveTopLevel(tl)) \/ FoldMergeGroups \/ ResolveMetadata
    <3>1. UNCHANGED wheels
      BY <2>2 DEF ResolveTopLevel, FoldMergeGroups, ResolveMetadata
    <3>2. ~AllDescribed => OutputsInv'
      BY <3>1, DescribedStays DEF OutputsInv
    <3> QED
      BY <2>2, <3>2, ResolveTopLevelOutputs, FoldMergeGroupsOutputs, ResolveMetadataOutputs
  <2> QED
    BY <2>1, <2>2 DEF VenvNext, Terminating
<1> QED
  BY <1>1, TopInvariance, OutputsInvInit, PTL DEF VenvSpec

\* No declared symlink or merge is another one or lies inside it, for any
\* wheels whose spans are described by a RECORD: not within a top level, where
\* files, whole directories, conflicted roots and native roots are declared
\* side by side, nor across the three passes (virtuals_resolvers.bzl,
\* resolve_wheel_collisions).
THEOREM OutputsDisjointCorrect == VenvSpec => []OutputsDisjoint
<1>1. TopInv /\ OutputsInv => OutputsDisjoint
  BY DEF OutputsInv, AllDescribed, OutputsDisjoint, Shallowest, Antichain, IsStrictPrefix
<1> QED
  BY <1>1, OutputsInvariance, PTL

-----------------------------------------------------------------------------
(* The modules of the wheels.                                              *)

LEMMA ImageFinite ==
  ASSUME NEW S, IsFiniteSet(S), NEW g, DOMAIN g = S
  PROVE  IsFiniteSet({g[x] : x \in S})
<1> DEFINE T == {g[x] : x \in S}
           h == [x \in S |-> g[x]]
<1>1. h \in Surjection(S, T)
  BY DEF Surjection
<1> QED
  BY <1>1, FS_Surjection

\* The module in a file, given by the path with the file's stem.
PathOf(f) == Append(Front(f), Stem[Last(f)])
ModuleOf(f) ==
  LET module == IF Last(PathOf(f)) = "__init__" THEN Front(PathOf(f)) ELSE PathOf(f)
  IN IF ToSet(module) \cap Private # {} THEN << >> ELSE module

LEMMA PathOfIs ==
  ASSUME NEW f \in Paths, Last(f) \in Importable
  PROVE  /\ PathOf(f) \in Paths /\ Len(PathOf(f)) = Len(f)
         /\ \A i \in 1 .. Len(f) - 1 : PathOf(f)[i] = f[i]
         /\ PathOf(f)[Len(f)] = Stem[Last(f)]
<1>1. Len(f) \in Nat \ {0} /\ Stem[Last(f)] \in STRING /\ \A i \in 1 .. Len(f) : f[i] \in STRING
  BY StemAssumption DEF Paths
<1> DEFINE n == Len(f) - 1
           h == Front(f)
<1>2. /\ h \in Seq(STRING) /\ Len(h) = (IF 1 <= n THEN n - 1 + 1 ELSE 0)
      /\ \A i \in 1 .. n - 1 + 1 : h[i] = f[1 + i - 1]
  <2>1. n \in Int /\ 1 \in Int /\ \A i \in 1 .. n : f[i] \in STRING
    BY <1>1
  <2> QED
    BY <2>1, SubSeqProperties DEF Front
<1> HIDE DEF h
<1>3. Len(h) = n /\ n \in Nat /\ \A i \in 1 .. n : h[i] = f[i]
  <2>1. n \in Nat
    BY <1>1
  <2> HIDE DEF n
  <2> QED
    BY <1>2, <2>1
<1> DEFINE p == Append(h, Stem[Last(f)])
<1>4. /\ p \in Seq(STRING) /\ p # << >> /\ Len(p) = n + 1
      /\ \A i \in 1 .. n : p[i] = h[i]
      /\ p[n + 1] = Stem[Last(f)]
  BY <1>1, <1>2, <1>3, AppendProperties
<1>5. p = PathOf(f)
  BY DEF PathOf, h
<1> HIDE DEF p
<1>6. n + 1 = Len(f)
  BY <1>1
<1> QED
  BY <1>3, <1>4, <1>5, <1>6 DEF Paths

LEMMA ModuleOfIs ==
  ASSUME NEW f \in Paths, Last(f) \in Importable
  PROVE  ModuleOf(f) \in Seq(STRING)
<1>1. PathOf(f) \in Paths /\ Len(PathOf(f)) \in Nat \ {0}
  BY PathOfIs DEF Paths
<1>2. Front(PathOf(f)) \in Seq(STRING)
  <2> DEFINE p == PathOf(f)
             n == Len(p) - 1
  <2>1. n \in Int /\ 1 \in Int /\ \A i \in 1 .. n : p[i] \in STRING
    BY <1>1 DEF Paths
  <2> QED
    BY <2>1, SubSeqProperties DEF Front
<1>3. << >> \in Seq(STRING)
  BY EmptySeq
<1> QED
  BY <1>1, <1>2, <1>3 DEF ModuleOf, Paths

\* What the archive calls a file does not change its module.
LEMMA InstalledModule ==
  ASSUME NEW f \in Paths, Last(f) \in Importable, f[1] \notin DataDirs
  PROVE  get_importable_module_name(f) = ModuleOf(f)
<1> DEFINE p == PathOf(f)
           moved == Len(p) >= 2 /\ p[1] \in DataDirs /\ p[2] \in {"platlib", "purelib"}
           named(x) == IF Last(x) = "__init__" THEN Front(x) ELSE x
           public(x) == IF ToSet(x) \cap Private # {} THEN << >> ELSE x
<1>1. p \in Paths /\ Len(p) = Len(f) /\ Len(f) \in Nat \ {0}
      /\ \A i \in 1 .. Len(f) - 1 : p[i] = f[i]
  BY PathOfIs DEF Paths
<1>2. ~moved
  <2> SUFFICES ASSUME Len(p) >= 2 PROVE p[1] = f[1]
    OBVIOUS
  <2>1. 1 \in 1 .. Len(f) - 1
    BY <1>1
  <2> QED
    BY <1>1, <2>1
<1> HIDE DEF p
<1>3. get_importable_module_name(f) = public(named(IF moved THEN SubSeq(p, 3, Len(p)) ELSE p))
  BY Zenon DEF get_importable_module_name, p, PathOf
<1>4. ModuleOf(f) = public(named(p))
  BY Zenon DEF ModuleOf, p
<1> HIDE DEF moved, named, public
<1>5. (IF moved THEN SubSeq(p, 3, Len(p)) ELSE p) = p
  BY <1>2
<1> QED
  BY <1>3, <1>4, <1>5, Zenon

\* An archive's name of a native library ends like the file's own.
LEMMA ArchivedLast ==
  ASSUME NEW f \in Paths
  PROVE  LET m == <<"d.data", "platlib">> \o f
         IN /\ m[1] = "d.data" /\ m[2] = "platlib" /\ Last(m) = Last(f)
            /\ m \in Seq(STRING \cup {"d.data", "platlib"}) /\ Len(m) = 2 + Len(f)
            /\ \A i \in 1 .. Len(f) : m[2 + i] = f[i]
<1> DEFINE T == STRING \cup {"d.data", "platlib"}
           d == <<"d.data", "platlib">>
           m == d \o f
<1>1. d \in Seq(T) /\ Len(d) = 2 /\ d[1] = "d.data" /\ d[2] = "platlib"
  OBVIOUS
<1>2. f \in Seq(T) /\ Len(f) \in Nat \ {0}
  <2>1. STRING \subseteq T /\ f \in Seq(STRING)
    BY DEF Paths
  <2> QED
    BY <2>1, SeqMonotonic DEF Paths
<1> HIDE DEF T
<1>3. /\ m \in Seq(T) /\ Len(m) = 2 + Len(f)
      /\ \A i \in 1 .. 2 + Len(f) : m[i] = IF i <= 2 THEN d[i] ELSE f[i - 2]
  <2> HIDE DEF d
  <2>1. /\ d \o f \in Seq(T) /\ Len(d \o f) = Len(d) + Len(f)
        /\ \A i \in 1 .. Len(d) + Len(f) : (d \o f)[i] = IF i <= Len(d) THEN d[i] ELSE f[i - Len(d)]
    BY <1>1, <1>2, ConcatProperties
  <2> QED
    BY <1>1, <2>1
<1> HIDE DEF d, m
<1>4. m[1] = "d.data" /\ m[2] = "platlib" /\ \A i \in 1 .. Len(f) : m[2 + i] = f[i]
  <2>1. \A i \in 1 .. Len(f) : 2 + i \in 1 .. 2 + Len(f) /\ ~ (2 + i <= 2) /\ (2 + i) - 2 = i
    BY <1>2
  <2>2. 1 \in 1 .. 2 + Len(f) /\ 2 \in 1 .. 2 + Len(f) /\ 1 <= 2 /\ 2 <= 2
    BY <1>2
  <2> QED
    BY <1>1, <1>3, <2>1, <2>2
<1>5. Last(m) = Last(f)
  <2>1. Len(f) \in 1 .. Len(f)
    BY <1>2
  <2> QED
    BY <1>3, <1>4, <2>1 DEF Last
<1> QED
  BY <1>3, <1>4, <1>5 DEF T, m, d

LEMMA ArchivedModule ==
  ASSUME NEW f \in Paths, Last(f) \in Importable
  PROVE  LET m == <<"d.data", "platlib">> \o f
         IN /\ m[1] = "d.data" /\ Last(m) = Last(f)
            /\ get_importable_module_name(m) = ModuleOf(f)
<1> DEFINE T == STRING \cup {"d.data", "platlib"}
           d == <<"d.data", "platlib">>
           m == d \o f
<1>2. Len(f) \in Nat \ {0} /\ Stem[Last(f)] \in T /\ T = STRING \cup {"d.data", "platlib"}
  BY StemAssumption DEF Paths
<1>3. /\ m \in Seq(T) /\ Len(m) = 2 + Len(f) /\ m[1] = "d.data" /\ m[2] = "platlib"
      /\ Last(m) = Last(f) /\ \A i \in 1 .. Len(f) : m[2 + i] = f[i]
  BY ArchivedLast
<1> HIDE DEF T, d, m
<1>4. m[1] = "d.data" /\ m[2] = "platlib" /\ \A i \in 1 .. Len(f) : m[2 + i] = f[i]
  BY <1>3
<1>5. Last(m) = Last(f)
  BY <1>3
<1> DEFINE n == Len(f) + 1
           h == Front(m)
<1>6. /\ h \in Seq(T) /\ Len(h) = n
      /\ \A i \in 1 .. n : h[i] = m[i]
  <2>1. n \in Int /\ 1 \in Int /\ n \in Nat /\ 1 <= n /\ Len(m) - 1 = n
    BY <1>2, <1>3
  <2>2. \A i \in 1 .. n : m[i] \in T
    BY <1>2, <1>3
  <2>3. h = SubSeq(m, 1, n)
    BY <2>1 DEF Front
  <2> HIDE DEF n, h
  <2>4. /\ h \in Seq(T) /\ Len(h) = (IF 1 <= n THEN n - 1 + 1 ELSE 0)
        /\ \A i \in 1 .. n - 1 + 1 : h[i] = m[1 + i - 1]
    BY <2>1, <2>2, <2>3, SubSeqProperties
  <2> QED
    BY <2>1, <2>4
<1> HIDE DEF h
<1> DEFINE s == Stem[Last(f)]
           p == Append(h, s)
<1>7. /\ p \in Seq(T) /\ Len(p) = n + 1
      /\ \A i \in 1 .. n : p[i] = h[i]
      /\ p[n + 1] = s
  BY <1>2, <1>6, AppendProperties
<1> HIDE DEF p
<1>8. p[1] = "d.data" /\ p[2] = "platlib" /\ Len(p) >= 2 /\ Len(p) = Len(f) + 2
  BY <1>2, <1>4, <1>6, <1>7
<1>9. SubSeq(p, 3, Len(p)) = PathOf(f)
  <2> DEFINE q == SubSeq(p, 3, Len(p))
             k == Len(f)
  <2>1. 3 \in Int /\ Len(p) \in Int /\ \A i \in 3 .. Len(p) : p[i] \in T
    BY <1>2, <1>7, <1>8
  <2>2. /\ q \in Seq(T)
        /\ Len(q) = IF 3 <= Len(p) THEN Len(p) - 3 + 1 ELSE 0
        /\ \A i \in 1 .. Len(p) - 3 + 1 : q[i] = p[3 + i - 1]
    BY <2>1, SubSeqProperties
  <2> HIDE DEF q
  <2>3. Len(q) = k /\ k \in Nat \ {0} /\ \A i \in 1 .. k : q[i] = p[2 + i]
    BY <1>2, <1>8, <2>2
  <2>4. /\ PathOf(f) \in Paths /\ Len(PathOf(f)) = k
        /\ \A i \in 1 .. k - 1 : PathOf(f)[i] = f[i]
        /\ PathOf(f)[k] = s
    BY PathOfIs
  <2>5. PathOf(f) \in Seq(T)
    BY <2>4, SeqMonotonic DEF Paths, T
  <2>6. ASSUME NEW i \in 1 .. k PROVE q[i] = PathOf(f)[i]
    <3>1. CASE i = k
      <4>1. 2 + i = n + 1
        BY <2>3, <3>1
      <4> QED
        BY <1>7, <2>3, <2>4, <3>1, <4>1
    <3>2. CASE i # k
      <4>1. i \in 1 .. k - 1 /\ 2 + i \in 1 .. n
        BY <2>3, <3>2
      <4> QED
        BY <1>4, <1>6, <1>7, <2>3, <2>4, <4>1
    <3> QED
      BY <3>1, <3>2
  <2> QED
    BY <2>2, <2>3, <2>4, <2>5, <2>6, SeqEqual DEF q
<1>10. "d.data" \in DataDirs
  BY InstalledAssumption
<1>11. p = Append(Front(m), Stem[Last(m)])
  BY <1>5 DEF p, h
<1> DEFINE moved == Len(p) >= 2 /\ p[1] \in DataDirs /\ p[2] \in {"platlib", "purelib"}
           named(x) == IF Last(x) = "__init__" THEN Front(x) ELSE x
           public(x) == IF ToSet(x) \cap Private # {} THEN << >> ELSE x
<1>12. get_importable_module_name(m) = public(named(IF moved THEN SubSeq(p, 3, Len(p)) ELSE p))
  BY <1>11, Zenon DEF get_importable_module_name
<1>13. ModuleOf(f) = public(named(PathOf(f)))
  BY Zenon DEF ModuleOf
<1>14. moved
  BY <1>8, <1>10
<1> HIDE DEF moved, named, public
<1>15. (IF moved THEN SubSeq(p, 3, Len(p)) ELSE p) = PathOf(f)
  BY <1>9, <1>14
<1>16. get_importable_module_name(m) = ModuleOf(f)
  BY <1>12, <1>13, <1>15, Zenon
<1> QED
  BY <1>4, <1>5, <1>16 DEF m, d

LEMMA FiniteBound ==
  ASSUME NEW S \in SUBSET Nat, IsFiniteSet(S)
  PROVE  \E k \in Nat : \A s \in S : s <= k
<1>1. Cardinality(S) \in Nat /\ ExistsBijection(1 .. Cardinality(S), S)
  BY FS_CardinalityType
<1> DEFINE c == Cardinality(S)
<1>2. PICK b \in [1 .. c -> S] : \A s \in S : \E i \in 1 .. c : b[i] = s
  BY <1>1 DEF ExistsBijection, Bijection, Surjection
<1> HIDE DEF c
<1>3. c \in Nat
  BY <1>1 DEF c
<1> DEFINE Bounded(n) == \E k \in Nat : \A i \in 1 .. n : b[i] <= k
           D == {n \in 0 .. c : ~Bounded(n)}
<1>4. D = {}
  <2> SUFFICES ASSUME D # {} PROVE FALSE
    OBVIOUS
  <2>1. D \subseteq Nat
    BY <1>3
  <2> HIDE DEF D
  <2>2. PICK n \in D : \A m \in D : ~ (<<m, n>> \in OpToRel(<, Nat))
    BY <2>1, WFMin, NatLessThanWellFounded, Zenon
  <2>3. \A m \in D : ~ (m < n)
    BY <2>1, <2>2 DEF OpToRel
  <2>4. n # 0
    <3>1. Bounded(0)
      OBVIOUS
    <3> QED
      BY <2>2, <3>1 DEF D
  <2>5. n \in 1 .. c /\ n - 1 \in 0 .. c /\ n - 1 < n
    <3>1. n \in 0 .. c
      BY <2>2 DEF D
    <3> QED
      BY <1>3, <2>4, <3>1
  <2>6. Bounded(n - 1)
    BY <2>3, <2>5 DEF D
  <2>7. PICK k \in Nat : \A i \in 1 .. n - 1 : b[i] <= k
    BY <2>6
  <2>8. b[n] \in Nat /\ \A i \in 1 .. n : b[i] \in Nat
    <3>1. \A i \in 1 .. n : i \in 1 .. c
      BY <1>3, <2>5
    <3> QED
      BY <1>2, <2>5, <3>1
  <2>9. \A i \in 1 .. n : b[i] <= k + b[n]
    <3>1. \A i \in 1 .. n : i = n \/ i \in 1 .. n - 1
      BY <2>5
    <3> QED
      BY <2>7, <2>8, <3>1
  <2>10. k + b[n] \in Nat
    BY <2>8
  <2>11. Bounded(n)
    BY <2>9, <2>10
  <2> QED
    BY <2>2, <2>11 DEF D
<1>5. Bounded(c)
  <2>1. c \in 0 .. c
    BY <1>3
  <2> QED
    BY <1>4, <2>1
<1> QED
  BY <1>2, <1>5

LEMMA GreatestOf ==
  ASSUME NEW S \in SUBSET Nat, IsFiniteSet(S), S # {}
  PROVE  Max(S) \in S /\ \A s \in S : s <= Max(S)
<1>1. PICK k \in Nat : \A s \in S : s <= k
  BY FiniteBound
<1> DEFINE T == {n \in Nat : k - n \in S}
<1>2. \A s \in S : k - s \in T
  <2>1. \A s \in S : k - s \in Nat /\ k - (k - s) = s
    BY <1>1
  <2> QED
    BY <2>1
<1>3. T # {} /\ T \subseteq Nat /\ \A t \in T : k - t \in S
  BY <1>2
<1> HIDE DEF T
<1>4. PICK t \in T : \A u \in T : ~ (<<u, t>> \in OpToRel(<, Nat))
  BY <1>3, WFMin, NatLessThanWellFounded, Zenon
<1>5. \A u \in T : ~ (u < t)
  BY <1>3, <1>4 DEF OpToRel
<1>6. \A s \in S : k - t >= s
  <2> TAKE s \in S
  <2>1. k - s \in T /\ t \in Nat /\ s \in Nat
    BY <1>2, <1>3
  <2>2. ~ (k - s < t)
    BY <1>5, <2>1
  <2> QED
    BY <2>1, <2>2
<1>7. Max(S) \in S /\ \A s \in S : Max(S) >= s
  BY <1>3, <1>6, Zenon DEF Max
<1> QED
  BY <1>7

\* Above every member of a set there is one of its cover.
LEMMA CoverReaches ==
  ASSUME NEW X \in SUBSET Paths, NEW p \in X
  PROVE  \E s \in Shallowest(X) : IsPrefix(s, p)
<1> DEFINE D == {n \in Nat : \E q \in X : IsPrefix(q, p) /\ Len(q) = n}
<1>1. Len(p) \in D /\ D \subseteq Nat
  BY PrefixOrder DEF Paths
<1> HIDE DEF D
<1>2. PICK n \in D : \A m \in D : ~ (<<m, n>> \in OpToRel(<, Nat))
  BY <1>1, WFMin, NatLessThanWellFounded, Zenon
<1>3. \A m \in D : ~ (m < n)
  BY <1>1, <1>2 DEF OpToRel
<1>4. PICK s \in X : IsPrefix(s, p) /\ Len(s) = n
  BY <1>2 DEF D
<1>5. ASSUME NEW q \in X, IsStrictPrefix(q, s) PROVE FALSE
  <2>1. IsPrefix(q, p) /\ IsPrefix(q, s) /\ q # s /\ q \in Paths /\ s \in Paths
    BY <1>4, <1>5, PrefixOrder DEF IsStrictPrefix
  <2>2. Len(q) < Len(s) /\ Len(q) \in Nat
    BY <2>1, PrefixAbove, AboveParts DEF Paths
  <2>3. Len(q) \in D
    BY <2>1, <2>2 DEF D
  <2> QED
    BY <1>3, <1>4, <2>2, <2>3
<1> QED
  BY <1>4, <1>5 DEF Shallowest

LEMMA WheelModules ==
  ASSUME wheels \in WheelSets, NEW w \in Wheel
  PROVE  /\ identify_modules(w) \subseteq Paths /\ IsFiniteSet(identify_modules(w))
         /\ extract_package_name(w) \subseteq Metadata \cap STRING
         /\ IsFiniteSet(extract_package_name(w))
         /\ \A f \in wheels[w].files : Last(f) \in Importable =>
              /\ extract_package_name(w) # {}
              /\ ~InDistInfo(f) /\ get_importable_module_name(f) # << >> =>
                   get_importable_module_name(f) \in identify_modules(w)
<1> DEFINE F == wheels[w].files
           g == [f \in F |-> IF Last(f) \in NativeLib THEN <<"d.data", "platlib">> \o f ELSE f]
           candidates == {n \in Members(w) : ~InDistInfo(n) /\ Last(n) \in Importable}
           named == metadata_files(F)
           first == FirstListed(w, named)
<1>1. /\ F \subseteq Paths /\ IsFiniteSet(F) /\ \A f \in F : f[1] \notin DataDirs
      /\ \A f \in F : Last(f) \in Importable => named # {}
      /\ named # {} => first \in named
      /\ "d.data" \notin Metadata /\ "platlib" \notin Metadata
  BY InstalledAssumption, TopLevelsAssumption DEF Wheel, Paths
<1>2. Members(w) = {g[f] : f \in F}
  BY DEF Members
<1>3. IsFiniteSet(Members(w))
  <2>1. DOMAIN g = F
    OBVIOUS
  <2> HIDE DEF F, g
  <2> QED
    BY <1>1, <1>2, <2>1, ImageFinite
<1> DEFINE h == [m \in candidates |-> get_importable_module_name(m)]
<1>4. identify_modules(w) = {h[m] : m \in candidates} \ {<< >>}
  BY DEF identify_modules
<1>5. extract_package_name(w) = IF named = {} THEN {} ELSE {first[Len(first) - 1]}
  BY DEF extract_package_name
<1>6. IsFiniteSet(candidates)
  BY <1>3, FS_Subset
<1> HIDE DEF F, g
<1>7. ASSUME NEW f \in F
      PROVE  /\ Last(f) \notin NativeLib => g[f] = f /\ f \in Members(w)
             /\ Last(f) \in NativeLib => g[f] = <<"d.data", "platlib">> \o f /\ g[f] \in Members(w)
  BY <1>2 DEF g
<1>8. ASSUME NEW m \in candidates
      PROVE  h[m] \in Seq(STRING)
  <2>1. PICK f \in F : m = g[f]
    BY <1>2
  <2>2. CASE Last(f) \notin NativeLib
    <3>1. m = f /\ Last(f) \in Importable
      BY <1>7, <2>1, <2>2
    <3> QED
      BY <1>1, <3>1, InstalledModule, ModuleOfIs
  <2>3. CASE Last(f) \in NativeLib
    <3>1. m = <<"d.data", "platlib">> \o f /\ Last(m) \in Importable
      BY <1>7, <2>1, <2>3
    <3>2. Last(f) \in Importable
      <4>1. Last(m) = Last(f)
        <5>1. \A x : x \in Paths => Last(<<"d.data", "platlib">> \o x) = Last(x)
          BY ArchivedLast
        <5> QED
          BY <1>1, <3>1, <5>1
      <4> QED
        BY <3>1, <4>1
    <3> QED
      BY <1>1, <3>1, <3>2, ArchivedModule, ModuleOfIs
  <2> QED
    BY <2>2, <2>3
<1>9. identify_modules(w) \subseteq Paths
  BY <1>4, <1>8 DEF Paths
<1> HIDE DEF candidates, h
<1>10. IsFiniteSet(identify_modules(w))
  <2>1. DOMAIN h = candidates
    BY DEF h
  <2>2. IsFiniteSet({h[m] : m \in candidates})
    BY <1>6, <2>1, ImageFinite
  <2> QED
    BY <1>4, <2>2, FS_Subset
<1>11. extract_package_name(w) \subseteq Metadata \cap STRING
  <2> SUFFICES ASSUME named # {} PROVE first[Len(first) - 1] \in Metadata \cap STRING
    BY <1>5
  <2>1. first \in F /\ Len(first) > 1 /\ first[Len(first) - 1] \in Metadata
    BY <1>1 DEF metadata_files
  <2>2. first \in Seq(STRING)
    BY <1>1, <2>1 DEF Paths
  <2> HIDE DEF first
  <2>3. Len(first) - 1 \in 1 .. Len(first)
    BY <2>1, <2>2
  <2> QED
    BY <2>1, <2>2, <2>3
<1>12. IsFiniteSet(extract_package_name(w))
  BY <1>5, FS_EmptySet, FS_Singleton
<1>13. ASSUME NEW f \in F, Last(f) \in Importable
       PROVE  extract_package_name(w) # {}
  BY <1>1, <1>5, <1>13
<1>14. ASSUME NEW f \in F, Last(f) \in Importable, ~InDistInfo(f),
              get_importable_module_name(f) # << >>
       PROVE  get_importable_module_name(f) \in identify_modules(w)
  <2>1. f \in Paths /\ get_importable_module_name(f) = ModuleOf(f)
    BY <1>1, <1>14, InstalledModule
  <2>2. CASE Last(f) \notin NativeLib
    <3>1. f \in candidates
      BY <1>7, <1>14, <2>2 DEF candidates
    <3>2. h[f] = get_importable_module_name(f)
      BY <3>1 DEF h
    <3> QED
      BY <1>4, <1>14, <3>1, <3>2
  <2>3. CASE Last(f) \in NativeLib
    <3> DEFINE m == <<"d.data", "platlib">> \o f
    <3>1. m \in Members(w)
      BY <1>7, <2>3
    <3>2. Last(m) = Last(f) /\ get_importable_module_name(m) = ModuleOf(f)
      BY <1>14, <2>1, ArchivedModule
    <3>5. /\ m[1] = "d.data" /\ m[2] = "platlib" /\ Len(m) = 2 + Len(f) /\ Len(f) \in Nat
          /\ \A i \in 1 .. Len(f) : m[2 + i] = f[i]
      BY <2>1, ArchivedLast DEF Paths
    <3> HIDE DEF m
    <3>6. ~InDistInfo(m)
      <4> SUFFICES ASSUME NEW i \in 1 .. Len(m) - 1, m[i] \in Metadata PROVE FALSE
        BY DEF InDistInfo
      <4>1. i # 1 /\ i # 2
        BY <1>1, <3>5
      <4>2. i - 2 \in 1 .. Len(f) - 1 /\ i - 2 \in 1 .. Len(f) /\ 2 + (i - 2) = i
        BY <3>5, <4>1
      <4>3. m[i] = f[i - 2]
        BY <3>5, <4>2
      <4> QED
        BY <1>14, <4>2, <4>3 DEF InDistInfo
    <3>3. m \in candidates
      BY <1>14, <3>1, <3>2, <3>6 DEF candidates
    <3>4. h[m] = ModuleOf(f)
      BY <3>2, <3>3 DEF h
    <3> QED
      BY <1>4, <1>14, <2>1, <3>3, <3>4
  <2> QED
    BY <2>2, <2>3
<1> QED
  BY <1>9, <1>10, <1>11, <1>12, <1>13, <1>14 DEF F

-----------------------------------------------------------------------------
(* Merges keep the order of the wheels.                                    *)

LEMMA WheelsFinite ==
  ASSUME wheels \in WheelSets, NEW S \in SUBSET Wheel
  PROVE  /\ IsFiniteSet(S) /\ S \subseteq Nat \ {0}
         /\ S # {} => LastOf(S) \in S /\ \A v \in S : v <= LastOf(S)
<1>1. Len(wheels) \in Nat /\ S \subseteq 1 .. Len(wheels)
  BY WheelSetsAssumption DEF Wheel
<1>2. IsFiniteSet(S)
  <2>1. 1 \in Int /\ Len(wheels) \in Int
    BY <1>1
  <2>2. IsFiniteSet(1 .. Len(wheels))
    BY <2>1, FS_Interval
  <2> QED
    BY <1>1, <2>2, FS_Subset
<1>3. ASSUME S # {} PROVE LastOf(S) \in S /\ \A v \in S : v <= LastOf(S)
  <2>1. \E w \in S : \A v \in S : v <= w
    BY <1>1, <1>3, LastExists
  <2> QED
    BY <2>1, Zenon DEF LastOf
<1> QED
  BY <1>1, <1>2, <1>3

LEMMA InOrderIs ==
  ASSUME wheels \in WheelSets, NEW S \in SUBSET Wheel
  PROVE  /\ Cardinality(S) \in Nat /\ DOMAIN InOrder(S) = 1 .. Cardinality(S)
         /\ \A i \in 1 .. Cardinality(S) : InOrder(S)[i] \in S
         /\ \A w \in S : \E i \in 1 .. Cardinality(S) : InOrder(S)[i] = w
         /\ \A i, j \in 1 .. Cardinality(S) : i <= j => InOrder(S)[i] <= InOrder(S)[j]
<1> DEFINE c == Cardinality(S)
           lower(w) == {v \in S : v < w}
           rank(w) == Cardinality(lower(w))
<1>1. S \subseteq Nat /\ IsFiniteSet(S) /\ c \in Nat
  BY WheelsFinite, FS_CardinalityType
<1>2. \A w \in S : IsFiniteSet(lower(w)) /\ rank(w) \in Nat
  BY <1>1, FS_Subset, FS_CardinalityType
<1>3. ASSUME NEW v \in S, NEW w \in S, v < w PROVE rank(v) < rank(w)
  <2>1. lower(v) \cup {v} \subseteq lower(w) /\ v \notin lower(v)
    <3>1. v \in Nat /\ w \in Nat /\ ~ (v < v)
      BY <1>1
    <3>2. \A u \in S : u < v => u < w
      <4> TAKE u \in S
      <4>1. u \in Nat
        BY <1>1
      <4> QED
        BY <1>3, <3>1, <4>1
    <3> QED
      BY <1>3, <3>1, <3>2
  <2> HIDE DEF lower
  <2>2. Cardinality(lower(v) \cup {v}) = rank(v) + 1
    BY <1>2, <2>1, FS_AddElement
  <2>3. Cardinality(lower(v) \cup {v}) <= rank(w)
    BY <1>2, <2>1, FS_Subset
  <2> QED
    BY <1>2, <2>2, <2>3
<1>4. \A w \in S : rank(w) \in 0 .. c - 1
  <2> TAKE w \in S
  <2>1. lower(w) \subseteq S /\ w \notin lower(w)
    BY <1>1
  <2> HIDE DEF lower
  <2>2. rank(w) <= c /\ rank(w) # c
    BY <1>1, <2>1, FS_Subset
  <2> QED
    BY <1>1, <1>2, <2>2
<1> DEFINE f == [w \in S |-> rank(w)]
           T == {rank(w) : w \in S}
<1> HIDE DEF lower, c
<1>5. f \in Surjection(S, T) /\ f \in Injection(S, T)
  <2>1. \A v, w \in S : rank(v) = rank(w) => v = w
    <3> TAKE v \in S, w \in S
    <3>1. v \in Nat /\ w \in Nat /\ rank(v) \in Nat /\ rank(w) \in Nat
      BY <1>1, <1>2
    <3>2. v < w => rank(v) < rank(w)
      BY <1>3
    <3>3. w < v => rank(w) < rank(v)
      BY <1>3
    <3> HIDE DEF rank
    <3> QED
      BY <3>1, <3>2, <3>3
  <2> HIDE DEF rank
  <2>2. f \in [S -> T] /\ \A w \in S : f[w] = rank(w)
    OBVIOUS
  <2>3. \A t \in T : \E w \in S : f[w] = t
    OBVIOUS
  <2>4. \A v, w \in S : f[v] = f[w] => v = w
    BY <2>1, <2>2
  <2> HIDE DEF f, T
  <2>5. f \in Surjection(S, T)
    BY <2>2, <2>3, Zenon DEF Surjection
  <2>6. f \in Injection(S, T)
    BY <2>2, <2>4, Zenon DEF Injection, IsInjective
  <2> QED
    BY <2>5, <2>6
<1>6. T = 0 .. c - 1
  <2> HIDE DEF f
  <2>1. IsFiniteSet(T) /\ Cardinality(T) = c
    BY <1>1, <1>5, FS_Surjection DEF c
  <2>2. T \subseteq 0 .. c - 1
    BY <1>4
  <2>3. IsFiniteSet(0 .. c - 1) /\ Cardinality(0 .. c - 1) = c
    <3>1. 0 \in Int /\ c - 1 \in Int
      BY <1>1
    <3>2. IsFiniteSet(0 .. c - 1) /\ Cardinality(0 .. c - 1) = IF 0 > c - 1 THEN 0 ELSE (c - 1) - 0 + 1
      BY <3>1, FS_Interval
    <3> QED
      BY <1>1, <3>2
  <2> HIDE DEF T
  <2> QED
    BY <2>1, <2>2, <2>3, FS_Subset
<1>7. DOMAIN InOrder(S) = 1 .. c /\ \A i \in 1 .. c : InOrder(S)[i] = CHOOSE w \in S : rank(w) = i - 1
  BY DEF InOrder, c, lower
<1> DEFINE o == InOrder(S)
<1> HIDE DEF rank
<1>8. \A i \in 1 .. c : o[i] \in S /\ rank(o[i]) = i - 1
  <2> TAKE i \in 1 .. c
  <2>1. i - 1 \in 0 .. c - 1
    BY <1>1
  <2>2. i - 1 \in T
    BY <1>6, <2>1
  <2>3. \E w \in S : rank(w) = i - 1
    BY <2>2
  <2> QED
    BY <1>7, <2>3
<1>9. \A w \in S : \E i \in 1 .. c : o[i] = w
  <2> TAKE w \in S
  <2>1. rank(w) \in 0 .. c - 1 /\ rank(w) + 1 \in 1 .. c /\ (rank(w) + 1) - 1 = rank(w)
    BY <1>1, <1>2, <1>4
  <2> DEFINE i == rank(w) + 1
  <2>2. i \in 1 .. c /\ o[i] \in S /\ rank(o[i]) = rank(w)
    BY <1>8, <2>1
  <2>3. f[o[i]] = f[w]
    BY <2>2
  <2> HIDE DEF f, i
  <2>4. \A v, u \in S : f[v] = f[u] => v = u
    BY <1>5 DEF Injection, IsInjective, f
  <2>5. o[i] = w
    BY <2>2, <2>3, <2>4
  <2> QED
    BY <2>2, <2>5
<1> HIDE DEF o
<1>10. \A i, j \in 1 .. c : i <= j => o[i] <= o[j]
  <2> SUFFICES ASSUME NEW i \in 1 .. c, NEW j \in 1 .. c, ~ (o[i] <= o[j]) PROVE ~ (i <= j)
    OBVIOUS
  <2>1. o[i] \in S /\ o[j] \in S /\ rank(o[i]) = i - 1 /\ rank(o[j]) = j - 1
    BY <1>8
  <2>2. o[j] < o[i]
    <3>1. o[i] \in Nat /\ o[j] \in Nat
      BY <1>1, <2>1
    <3> QED
      BY <3>1
  <2>3. j - 1 < i - 1
    BY <1>3, <2>1, <2>2
  <2> QED
    BY <1>1, <2>3
<1> QED
  BY <1>1, <1>7, <1>8, <1>9, <1>10 DEF c, o

\* A merge shows a file in the version of its last wheel.
LEMMA MergeShows ==
  ASSUME wheels \in WheelSets, NEW S \in SUBSET Wheel, NEW f
  PROVE  LET o == InOrder(S)
             at == {i \in DOMAIN o : f \in wheels[o[i]].files}
             having == {w \in S : f \in wheels[w].files}
         IN /\ at = {} <=> having = {}
            /\ at # {} => o[LastOf(at)] = LastOf(having) /\ LastOf(having) \in having
<1> DEFINE o == InOrder(S)
           at == {i \in DOMAIN o : f \in wheels[o[i]].files}
           having == {w \in S : f \in wheels[w].files}
           c == Cardinality(S)
<1>1. /\ c \in Nat /\ DOMAIN o = 1 .. c /\ \A i \in 1 .. c : o[i] \in S
      /\ \A w \in S : \E i \in 1 .. c : o[i] = w
      /\ \A i, j \in 1 .. c : i <= j => o[i] <= o[j]
  BY InOrderIs
<1> HIDE DEF o, c
<1>2. at = {} <=> having = {}
  BY <1>1
<1>3. ASSUME at # {} PROVE o[LastOf(at)] = LastOf(having) /\ LastOf(having) \in having
  <2>1. at \in SUBSET (1 .. c)
    BY <1>1
  <2>2. LastOf(at) \in at /\ \A j \in at : j <= LastOf(at)
    <3> HIDE DEF at
    <3>1. \E j \in at : \A i \in at : i <= j
      BY <1>1, <1>3, <2>1, LastExists
    <3> QED
      BY <3>1, Zenon DEF LastOf
  <2> DEFINE k == LastOf(at)
  <2> HIDE DEF k
  <2>3. k \in 1 .. c /\ o[k] \in having
    BY <1>1, <2>2 DEF k
  <2>4. \A w \in having : w <= o[k]
    <3> TAKE w \in having
    <3>1. PICK j \in 1 .. c : o[j] = w
      BY <1>1
    <3>2. j \in at
      BY <1>1, <3>1
    <3> QED
      BY <1>1, <2>2, <2>3, <3>1, <3>2 DEF k
  <2>5. having \subseteq Wheel /\ having # {}
    BY <2>3
  <2> HIDE DEF having
  <2>6. LastOf(having) \in having /\ \A v \in having : v <= LastOf(having)
    BY <2>5, WheelsFinite
  <2>7. having \subseteq Nat
    BY <2>5, WheelsFinite
  <2>8. o[k] <= LastOf(having) /\ LastOf(having) <= o[k] /\ o[k] \in Nat /\ LastOf(having) \in Nat
    BY <2>3, <2>4, <2>6, <2>7
  <2>9. o[k] = LastOf(having)
    BY <2>8
  <2> QED
    BY <2>6, <2>9 DEF k
<1> QED
  BY <1>2, <1>3 DEF o

-----------------------------------------------------------------------------
(* Where Python looks.                                                     *)

NextLook(dir, L) ==
  LET regular == {k \in L : Provides(k, Append(dir, InitPy))}
  IN IF regular # {} THEN {CHOOSE k \in regular : \A j \in regular : k <= j}
     ELSE {k \in L : HasDir(k, dir)}

Looks(d, n, look) ==
  look = [m \in 0 .. n |-> IF m = 0 THEN SysPath ELSE NextLook(SubSeq(d, 1, m), look[m - 1])]

LEMMA LooksExist ==
  ASSUME NEW d, NEW N \in Nat
  PROVE  \E look : Looks(d, N, look)
<1> DEFINE D == {n \in Nat : ~ \E look : Looks(d, n, look)}
<1>1. ASSUME D # {} PROVE FALSE
  <2>1. D \subseteq Nat
    OBVIOUS
  <2> HIDE DEF D
  <2>2. PICK n \in D : \A m \in D : ~ (<<m, n>> \in OpToRel(<, Nat))
    BY <1>1, <2>1, WFMin, NatLessThanWellFounded, Zenon
  <2>3. \A m \in D : ~ (m < n)
    BY <2>1, <2>2 DEF OpToRel
  <2>4. CASE n = 0
    <3> DEFINE look == [m \in 0 .. 0 |-> SysPath]
    <3>1. look = [m \in 0 .. 0 |-> IF m = 0 THEN SysPath ELSE NextLook(SubSeq(d, 1, m), look[m - 1])]
      OBVIOUS
    <3>2. Looks(d, 0, look)
      BY <3>1 DEF Looks
    <3> QED
      BY <2>2, <2>4, <3>2 DEF D
  <2>5. CASE n # 0
    <3> n \in Nat
      BY <2>1, <2>2
    <3>1. n \in Nat /\ n - 1 \in Nat /\ n - 1 < n
      BY <2>5
    <3>2. PICK g : Looks(d, n - 1, g)
      BY <2>3, <3>1 DEF D
    <3> DEFINE look == [m \in 0 .. n |-> IF m = n THEN NextLook(SubSeq(d, 1, n), g[n - 1]) ELSE g[m]]
    <3>3. \A m \in 0 .. n - 1 :
            /\ g[m] = (IF m = 0 THEN SysPath ELSE NextLook(SubSeq(d, 1, m), g[m - 1]))
            /\ look[m] = g[m]
      <4>1. \A m \in 0 .. n - 1 : m \in 0 .. n /\ m # n
        BY <3>1
      <4> QED
        BY <3>2, <4>1 DEF Looks
    <3>4. ASSUME NEW m \in 0 .. n
          PROVE  look[m] = IF m = 0 THEN SysPath ELSE NextLook(SubSeq(d, 1, m), look[m - 1])
      <4>1. CASE m = n
        <5>1. n - 1 \in 0 .. n - 1 /\ m # 0 /\ m - 1 = n - 1
          BY <2>5, <3>1, <4>1
        <5>2. look[m] = NextLook(SubSeq(d, 1, n), g[n - 1])
          BY <4>1
        <5>3. look[m - 1] = g[n - 1]
          BY <3>3, <5>1
        <5> HIDE DEF look
        <5> QED
          BY <4>1, <5>1, <5>2, <5>3
      <4>2. CASE m # n
        <5>1. m \in 0 .. n - 1 /\ (m # 0 => m - 1 \in 0 .. n - 1)
          BY <3>1, <4>2
        <5> HIDE DEF look
        <5> QED
          BY <3>3, <5>1
      <4> QED
        BY <4>1, <4>2
    <3>5. look = [m \in 0 .. n |-> look[m]]
      OBVIOUS
    <3> HIDE DEF look
    <3>6. Looks(d, n, look)
      BY <3>4, <3>5 DEF Looks
    <3> QED
      BY <2>2, <3>6 DEF D
  <2> QED
    BY <2>4, <2>5
<1> QED
  BY <1>1

\* Where Python looks for what is in a directory, level by level.
LEMMA SearchPathIs ==
  ASSUME NEW d, Len(d) \in Nat
  PROVE  \E look : /\ SearchPath(d) = look[Len(d)]
                   /\ look[0] = SysPath
                   /\ \A n \in 1 .. Len(d) : look[n] = NextLook(SubSeq(d, 1, n), look[n - 1])
<1> DEFINE f == CHOOSE look : Looks(d, Len(d), look)
<1>1. Looks(d, Len(d), f)
  BY LooksExist
<1>2. SearchPath(d) = f[Len(d)]
  BY Zenon DEF SearchPath, Looks, NextLook
<1> HIDE DEF f
<1>3. \A n \in 0 .. Len(d) : f[n] = IF n = 0 THEN SysPath ELSE NextLook(SubSeq(d, 1, n), f[n - 1])
  BY <1>1, Zenon DEF Looks
<1>4. \A n \in 1 .. Len(d) : n \in 0 .. Len(d) /\ n # 0
  OBVIOUS
<1>5. 0 \in 0 .. Len(d)
  OBVIOUS
<1> QED
  BY <1>2, <1>3, <1>4, <1>5

LEMMA LeastOf ==
  ASSUME NEW X \in SUBSET Nat, X # {}
  PROVE  LET k == CHOOSE k \in X : \A j \in X : k <= j
         IN k \in X /\ \A j \in X : k <= j
<1>1. PICK k \in X : \A j \in X : ~ (<<j, k>> \in OpToRel(<, Nat))
  BY WFMin, NatLessThanWellFounded, Zenon
<1>2. \A j \in X : ~ (j < k)
  BY <1>1 DEF OpToRel
<1>3. \A j \in X : k <= j
  BY <1>2
<1> QED
  BY <1>3

LEMMA NextLookIs ==
  ASSUME NEW dir, NEW L \in SUBSET Nat
  PROVE  LET regular == {k \in L : Provides(k, Append(dir, InitPy))}
         IN /\ NextLook(dir, L) \subseteq L
            /\ regular = {} => NextLook(dir, L) = {k \in L : HasDir(k, dir)}
            /\ regular # {} =>
                 \E k \in regular : NextLook(dir, L) = {k} /\ \A j \in regular : k <= j
<1> DEFINE regular == {k \in L : Provides(k, Append(dir, InitPy))}
           least == CHOOSE k \in regular : \A j \in regular : k <= j
<1>1. NextLook(dir, L) = IF regular # {} THEN {least} ELSE {k \in L : HasDir(k, dir)}
  BY Zenon DEF NextLook
<1>2. regular \subseteq L /\ regular \in SUBSET Nat
  OBVIOUS
<1> HIDE DEF regular
<1>3. regular # {} => least \in regular /\ \A j \in regular : least <= j
  BY <1>2, LeastOf, Zenon
<1> HIDE DEF least
<1> QED
  BY <1>1, <1>2, <1>3 DEF regular

LEMMA SearchedIsOnPath ==
  ASSUME wheels \in WheelSets, NEW d, Len(d) \in Nat
  PROVE  SearchPath(d) \subseteq SysPath /\ SysPath \subseteq Nat
<1>1. SysPath \subseteq Nat
  BY WheelsFinite DEF SysPath
<1>2. PICK look : /\ SearchPath(d) = look[Len(d)]
                  /\ look[0] = SysPath
                  /\ \A n \in 1 .. Len(d) : look[n] = NextLook(SubSeq(d, 1, n), look[n - 1])
  BY SearchPathIs
<1> DEFINE D == {n \in 0 .. Len(d) : ~ (look[n] \subseteq SysPath)}
<1>3. ASSUME D # {} PROVE FALSE
  <2>1. D \subseteq Nat
    OBVIOUS
  <2> HIDE DEF D
  <2>2. PICK n \in D : \A m \in D : ~ (<<m, n>> \in OpToRel(<, Nat))
    BY <1>3, <2>1, WFMin, NatLessThanWellFounded, Zenon
  <2>3. \A m \in D : ~ (m < n)
    BY <2>1, <2>2 DEF OpToRel
  <2>4. n \in 0 .. Len(d) /\ ~ (look[n] \subseteq SysPath)
    BY <2>2 DEF D
  <2>5. n # 0
    BY <1>2, <2>4
  <2>6. n \in 1 .. Len(d) /\ n - 1 \in 0 .. Len(d) /\ n - 1 < n
    BY <2>4, <2>5
  <2>7. look[n - 1] \subseteq SysPath
    BY <2>3, <2>6 DEF D
  <2>8. look[n] \subseteq look[n - 1]
    <3>1. look[n - 1] \in SUBSET Nat
      BY <1>1, <2>7
    <3> QED
      BY <1>2, <2>6, <3>1, NextLookIs
  <2> QED
    BY <2>4, <2>7, <2>8
<1>4. Len(d) \in 0 .. Len(d)
  OBVIOUS
<1> QED
  BY <1>1, <1>2, <1>3, <1>4

-----------------------------------------------------------------------------
(* What is bound, and what is found.                                       *)

\* What is bound is bound to a wheel, and what is merged comes from wheels.
RangeInv ==
  /\ nsClaimants \subseteq Wheel
  /\ pending \subseteq UNION {wheels[w].top_levels : w \in Wheel}
  /\ \A p \in DOMAIN projected : projected[p] \in Wheel
  /\ \A r \in DOMAIN mergeGroups : \E S \in SUBSET Wheel : mergeGroups[r] = InOrder(S)

LEMMA RangeInvInit == VenvInit => RangeInv
<1> SUFFICES ASSUME VenvInit PROVE RangeInv
  OBVIOUS
<1>1. /\ nsClaimants = {} /\ DOMAIN projected = {} /\ DOMAIN mergeGroups = {}
      /\ pending \subseteq UNION {wheels[w].top_levels : w \in Wheel}
  BY DEF VenvInit, Init
<1> QED
  BY <1>1 DEF RangeInv

LEMMA UpdatedRange ==
  ASSUME NEW d, NEW new, NEW W,
         \A p \in DOMAIN d : d[p] \in W, \A p \in DOMAIN new : new[p] \in W
  PROVE  \A p \in DOMAIN Updated(d, new) : Updated(d, new)[p] \in W
BY DEF Updated

LEMMA OwnerRange ==
  ASSUME wheels \in WheelSets, NEW S \in SUBSET Wheel, NEW tl, NEW exclude
  PROVE  \A e \in DOMAIN EntryOwner(S, tl, exclude) :
           /\ EntryOwner(S, tl, exclude)[e] = LastOf(EntryClaimants(e, S, tl))
           /\ EntryOwner(S, tl, exclude)[e] \in EntryClaimants(e, S, tl)
<1> DEFINE E == {x \in UNION {Entries(w, tl) : w \in S} : ~Within(x, exclude)}
<1>1. EntryOwner(S, tl, exclude) = [e \in E |-> LastOf(EntryClaimants(e, S, tl))]
  BY DEF EntryOwner
<1>2. \A e \in E : EntryClaimants(e, S, tl) # {} /\ EntryClaimants(e, S, tl) \subseteq Wheel
  BY DEF EntryClaimants
<1> HIDE DEF E
<1>3. \A e \in E : LastOf(EntryClaimants(e, S, tl)) \in EntryClaimants(e, S, tl)
  BY <1>2, WheelsFinite
<1> QED
  BY <1>1, <1>3

\* What one of the wheels alone has is bound to it.
LEMMA CollapseIs ==
  ASSUME wheels \in WheelSets, NEW S \in SUBSET Wheel, NEW tl, NEW exclude, NEW owner
  PROVE  LET result == Collapse(owner, S, tl, exclude)
         IN \A p \in DOMAIN result :
              \/ p \in DOMAIN owner /\ result[p] = owner[p]
              \/ /\ result[p] \in S
                 /\ \A w \in S : p \in NsDirs(w, tl) <=> w = result[p]
<1> DEFINE owners(d) == {w \in S : d \in NsDirs(w, tl)}
           sole == {d \in UNION {NsDirs(w, tl) : w \in S} :
                      /\ Cardinality(owners(d)) = 1
                      /\ \E e \in DOMAIN owner : IsStrictPrefix(d, e)
                      /\ ~Holds(d, exclude)}
           roots == Shallowest(sole)
           outside == {e \in DOMAIN owner : ~Within(e, roots)}
           result == Collapse(owner, S, tl, exclude)
<1>1. result =
        IF DOMAIN owner = {} THEN owner
        ELSE [p \in outside \cup roots |->
                IF p \in roots THEN CHOOSE w \in owners(p) : TRUE ELSE owner[p]]
  BY Zenon DEF Collapse
<1>2. \A d \in roots : \E x : owners(d) = {x}
  <2> TAKE d \in roots
  <2>1. Cardinality(owners(d)) = 1
    BY DEF Shallowest
  <2>2. IsFiniteSet(owners(d))
    BY WheelsFinite
  <2> HIDE DEF owners
  <2> QED
    BY <2>1, <2>2, FS_Singleton
<1>3. outside \subseteq DOMAIN owner
  OBVIOUS
<1> HIDE DEF roots, outside, result
<1>4. ASSUME NEW p \in roots
      PROVE  LET w == CHOOSE w \in owners(p) : TRUE IN w \in S /\ \A v \in S : p \in NsDirs(v, tl) <=> v = w
  <2>1. PICK x : owners(p) = {x}
    BY <1>2
  <2>2. (CHOOSE w \in owners(p) : TRUE) = x
    BY <2>1
  <2> QED
    BY <2>1, <2>2
<1> HIDE DEF owners
<1> QED
  BY <1>1, <1>3, <1>4 DEF result

LEMMA CollapseRange ==
  ASSUME wheels \in WheelSets, NEW S \in SUBSET Wheel, NEW tl, NEW exclude, NEW owner,
         \A e \in DOMAIN owner : owner[e] \in Wheel
  PROVE  \A p \in DOMAIN Collapse(owner, S, tl, exclude) : Collapse(owner, S, tl, exclude)[p] \in Wheel
<1> TAKE p \in DOMAIN Collapse(owner, S, tl, exclude)
<1>1. \/ p \in DOMAIN owner /\ Collapse(owner, S, tl, exclude)[p] = owner[p]
      \/ Collapse(owner, S, tl, exclude)[p] \in S
  BY CollapseIs
<1> QED
  BY <1>1

LEMMA ResolveTopLevelRange ==
  ASSUME TopInv, RangeInv, NEW tl \in pending, ResolveTopLevel(tl)
  PROVE  RangeInv'
<1> DEFINE S == Claimants(tl)
           bound == \A p \in DOMAIN projected' : projected'[p] \in Wheel
           merged == \A r \in DOMAIN mergeGroups' : \E T \in SUBSET Wheel : mergeGroups'[r] = InOrder(T)
<1>1. wheels' = wheels /\ pending' \subseteq pending /\ Wheel' = Wheel
  BY DEF ResolveTopLevel, Wheel
<1>2. wheels \in WheelSets /\ S \subseteq Wheel /\ S # {}
  BY DEF TopInv, RangeInv, Claimants
<1>3. /\ nsClaimants \subseteq Wheel /\ \A p \in DOMAIN projected : projected[p] \in Wheel
      /\ \A r \in DOMAIN mergeGroups : \E T \in SUBSET Wheel : mergeGroups[r] = InOrder(T)
  BY DEF RangeInv
<1>4. ASSUME nsClaimants' \subseteq Wheel, bound, merged PROVE RangeInv'
  <2>1. pending' \subseteq UNION {wheels'[w].top_levels : w \in Wheel'}
    BY <1>1 DEF RangeInv
  <2> QED
    BY <1>1, <1>4, <2>1 DEF RangeInv
<1>5. UNCHANGED mergeGroups => merged
  BY <1>3
<1>6. ASSUME NEW w \in Wheel, projected' = Updated(projected, [p \in {tl} |-> w]) PROVE bound
  <2> DEFINE new == [p \in {tl} |-> w]
  <2>1. \A p \in DOMAIN new : new[p] \in Wheel
    OBVIOUS
  <2> HIDE DEF new
  <2>2. projected' = Updated(projected, new)
    BY <1>6 DEF new
  <2> QED
    BY <1>3, <2>1, <2>2, UpdatedRange
<1>7. LastOf(S) \in Wheel
  BY <1>2, WheelsFinite
<1>8. CASE /\ projected' = Updated(projected, [p \in {tl} |-> LastOf(S)])
           /\ UNCHANGED <<nsClaimants, mergeGroups>>
  BY <1>3, <1>4, <1>5, <1>6, <1>7, <1>8
<1>9. CASE ResolvePureNamespace(tl, S) /\ nsClaimants' = nsClaimants \cup S
  <2> DEFINE with == S \ {w \in S : Entries(w, tl) = {}}
             claimed == EntryOwner(with, tl, {})
             owner == [e \in DOMAIN claimed \ Nested(claimed) |-> claimed[e]]
             new == Collapse(owner, with, tl, {})
  <2>1. projected' = Updated(projected, new) /\ UNCHANGED mergeGroups
    BY <1>9, Zenon DEF ResolvePureNamespace
  <2>2. with \subseteq Wheel
    BY <1>2
  <2>3. \A e \in DOMAIN claimed : claimed[e] \in Wheel
    BY <1>2, <2>2, OwnerRange DEF EntryClaimants
  <2>4. \A e \in DOMAIN owner : owner[e] \in Wheel
    BY <2>3
  <2> HIDE DEF with, owner
  <2>5. \A p \in DOMAIN new : new[p] \in Wheel
    BY <1>2, <2>2, <2>4, CollapseRange
  <2> HIDE DEF new
  <2>6. bound
    BY <1>3, <2>1, <2>5, UpdatedRange
  <2> QED
    BY <1>2, <1>3, <1>4, <1>5, <1>9, <2>1, <2>6
<1>10. CASE ResolveSpan(tl, S, ConflictedRoots(tl, S)) /\ nsClaimants' = nsClaimants \cup S
  <2> DEFINE roots == ConflictedRoots(tl, S)
             native == NativeConflicted(roots, S)
             winner == [r \in native |-> LastOf({w \in S : r \in wheels[w].regular_roots})]
             with == S \ {w \in S : Entries(w, tl) = {}}
             owner == EntryOwner(with, tl, roots)
             new == Collapse(owner, with, tl, roots)
  <2>1. projected' = Updated(Updated(projected, winner), new) /\ UNCHANGED mergeGroups
    BY <1>10, Zenon DEF ResolveSpan
  <2>2. with \subseteq Wheel
    BY <1>2
  <2>3. \A e \in DOMAIN owner : owner[e] \in Wheel
    BY <1>2, <2>2, OwnerRange DEF EntryClaimants
  <2>4. native \subseteq roots
    BY DEF NativeConflicted, Shallowest
  <2>5. \A r \in roots : {w \in S : r \in wheels[w].regular_roots} # {}
    BY DEF ConflictedRoots
  <2>6. \A r \in native : winner[r] = LastOf({w \in S : r \in wheels[w].regular_roots})
    OBVIOUS
  <2>7. \A r \in native : winner[r] \in Wheel
    <3> TAKE r \in native
    <3> DEFINE R == {w \in S : r \in wheels[w].regular_roots}
    <3>1. R \subseteq Wheel /\ R # {}
      BY <1>2, <2>4, <2>5
    <3>2. winner[r] = LastOf(R)
      BY <2>6
    <3> HIDE DEF R, winner
    <3> QED
      BY <1>2, <3>1, <3>2, WheelsFinite
  <2>8. DOMAIN winner = native
    OBVIOUS
  <2> HIDE DEF with, owner, winner, native, roots
  <2>9. \A p \in DOMAIN new : new[p] \in Wheel
    BY <1>2, <2>2, <2>3, CollapseRange
  <2> HIDE DEF new
  <2>10. \A p \in DOMAIN Updated(projected, winner) : Updated(projected, winner)[p] \in Wheel
    BY <1>3, <2>7, <2>8, UpdatedRange
  <2>11. bound
    BY <2>1, <2>9, <2>10, UpdatedRange
  <2> QED
    BY <1>2, <1>3, <1>4, <1>5, <1>10, <2>1, <2>11
<1>11. CASE ResolveDirectories(tl, S)
  <2>1. UNCHANGED nsClaimants
    BY <1>11 DEF ResolveDirectories
  <2>2. CASE /\ projected' = Updated(projected, [p \in {tl} |-> LastOf({w \in S : ~IsNs(w, tl)})])
             /\ UNCHANGED mergeGroups
    <3> DEFINE R == {w \in S : ~IsNs(w, tl)}
    <3>1. R \subseteq Wheel /\ R # {}
      BY <1>2, <1>11 DEF ResolveDirectories
    <3> HIDE DEF R
    <3>2. LastOf(R) \in Wheel
      BY <1>2, <3>1, WheelsFinite
    <3>3. bound
      BY <1>6, <2>2, <3>2 DEF R
    <3> QED
      BY <1>3, <1>4, <1>5, <2>1, <2>2, <3>3
  <2>3. CASE mergeGroups' = Updated(mergeGroups, [r \in {tl} |-> InOrder(S)]) /\ UNCHANGED projected
    <3>1. \A r \in DOMAIN mergeGroups' :
            \/ r \in DOMAIN mergeGroups /\ mergeGroups'[r] = mergeGroups[r]
            \/ mergeGroups'[r] = InOrder(S)
      BY <2>3 DEF Updated
    <3>2. merged
      BY <1>2, <1>3, <3>1
    <3> QED
      BY <1>3, <1>4, <2>1, <2>3, <3>2
  <2>4. \/ /\ projected' = Updated(projected, [p \in {tl} |-> LastOf({w \in S : ~IsNs(w, tl)})])
           /\ UNCHANGED mergeGroups
        \/ mergeGroups' = Updated(mergeGroups, [r \in {tl} |-> InOrder(S)]) /\ UNCHANGED projected
    BY <1>11, Zenon DEF ResolveDirectories
  <2> QED
    BY <2>2, <2>3, <2>4
<1>12. \/ /\ projected' = Updated(projected, [p \in {tl} |-> LastOf(S)])
          /\ UNCHANGED <<nsClaimants, mergeGroups>>
       \/ ResolvePureNamespace(tl, S) /\ nsClaimants' = nsClaimants \cup S
       \/ ResolveSpan(tl, S, ConflictedRoots(tl, S)) /\ nsClaimants' = nsClaimants \cup S
       \/ ResolveDirectories(tl, S)
  BY DEF ResolveTopLevel, ResolveNamespace, ResolveModule
<1> QED
  BY <1>8, <1>9, <1>10, <1>11, <1>12

LEMMA RangeInvariance == VenvSpec => [](TopInv /\ RangeInv)
<1>1. ASSUME RangeInv, UNCHANGED <<wheels, pending, nsClaimants, projected, mergeGroups>>
      PROVE  RangeInv'
  BY <1>1 DEF RangeInv, Wheel
<1>2. ASSUME TopInv, RangeInv, FoldMergeGroups PROVE RangeInv'
  <2> DEFINE roots == {r \in Shallowest(conflicted) : Cardinality(Contributors(r)) >= 2}
  <2>1. /\ UNCHANGED <<wheels, pending, nsClaimants, projected>>
        /\ mergeGroups' = Updated(mergeGroups, [r \in roots |-> InOrder(Contributors(r))])
    BY <1>2 DEF FoldMergeGroups
  <2> HIDE DEF roots
  <2>2. \A r \in DOMAIN mergeGroups' :
          \/ r \in DOMAIN mergeGroups /\ mergeGroups'[r] = mergeGroups[r]
          \/ mergeGroups'[r] = InOrder(Contributors(r))
    BY <2>1 DEF Updated
  <2>3. \A r : Contributors(r) \subseteq Wheel
    BY <1>2 DEF RangeInv, Contributors
  <2>4. \A r \in DOMAIN mergeGroups' : \E S \in SUBSET Wheel : mergeGroups'[r] = InOrder(S)
    BY <1>2, <2>2, <2>3 DEF RangeInv
  <2> QED
    BY <1>2, <2>1, <2>4 DEF RangeInv, Wheel
<1>3. ASSUME TopInv, RangeInv, ResolveMetadata PROVE RangeInv'
  <2> DEFINE bound == [tl \in Won |-> LastOf(Claimants(tl))]
  <2>1. /\ UNCHANGED <<wheels, pending, nsClaimants, mergeGroups>>
        /\ UNCHANGED projected \/ projected' = Updated(projected, bound)
    BY <1>3, Zenon DEF ResolveMetadata, Names, Won
  <2>2. \A tl \in DOMAIN bound : bound[tl] \in Wheel
    <3>1. \A tl \in Won : LastOf(Claimants(tl)) \in Wheel
      BY <1>3, LastClaims DEF TopInv, Won, Claimants
    <3> QED
      BY <3>1
  <2> HIDE DEF bound
  <2>3. \A p \in DOMAIN projected' : projected'[p] \in Wheel
    BY <1>3, <2>1, <2>2, UpdatedRange DEF RangeInv
  <2> QED
    BY <1>3, <2>1, <2>3 DEF RangeInv, Wheel
<1>4. TopInv /\ RangeInv /\ [VenvNext \/ Terminating]_<<vars, dataVars>> => RangeInv'
  <2> SUFFICES ASSUME TopInv, RangeInv, [VenvNext \/ Terminating]_<<vars, dataVars>> PROVE RangeInv'
    OBVIOUS
  <2>1. CASE UNCHANGED vars
    BY <1>1, <2>1 DEF vars
  <2> QED
    BY <1>2, <1>3, <2>1, ResolveTopLevelRange DEF VenvNext, Terminating
<1> QED
  BY <1>4, RangeInvInit, TopInvariance, PTL DEF VenvSpec

\* What lies in site-packages comes from a wheel that has it.
LEMMA SiteIn ==
  ASSUME TopInv, RangeInv, NEW f, NEW v \in SiteFiles(f)
  PROVE  v \in Wheel /\ f \in wheels[v].files
<1>0. wheels \in WheelSets
  BY DEF TopInv
<1>1. CASE \E p \in DOMAIN projected : v = projected[p] /\ f \in wheels[v].files
  BY <1>1 DEF RangeInv
<1>2. CASE \E r \in DOMAIN mergeGroups :
             LET at == {i \in DOMAIN mergeGroups[r] : f \in wheels[mergeGroups[r][i]].files}
             IN at # {} /\ v = mergeGroups[r][LastOf(at)]
  <2>1. PICK r \in DOMAIN mergeGroups :
             LET at == {i \in DOMAIN mergeGroups[r] : f \in wheels[mergeGroups[r][i]].files}
             IN at # {} /\ v = mergeGroups[r][LastOf(at)]
    BY <1>2
  <2>2. PICK S \in SUBSET Wheel : mergeGroups[r] = InOrder(S)
    BY DEF RangeInv
  <2> DEFINE having == {w \in S : f \in wheels[w].files}
  <2>3. v = LastOf(having) /\ LastOf(having) \in having
    <3> DEFINE at == {i \in DOMAIN InOrder(S) : f \in wheels[InOrder(S)[i]].files}
    <3>1. at # {} /\ v = InOrder(S)[LastOf(at)]
      BY <2>1, <2>2
    <3>2. at # {} => InOrder(S)[LastOf(at)] = LastOf(having) /\ LastOf(having) \in having
      BY <1>0, MergeShows, Zenon
    <3> HIDE DEF at, having
    <3> QED
      BY <3>1, <3>2
  <2> QED
    BY <2>3
<1> QED
  BY <1>1, <1>2 DEF SiteFiles

\* A file is found in a wheel that has it.
LEMMA FoundIn ==
  ASSUME TopInv, RangeInv, NEW f \in Paths
  PROVE  /\ \A v \in SiteFiles(f) : v \in Wheel /\ f \in wheels[v].files
         /\ \A v \in Found(f) : v \in Wheel /\ f \in wheels[v].files
<1>0. wheels \in WheelSets
  BY DEF TopInv
<1>1. ASSUME NEW v \in SiteFiles(f) PROVE v \in Wheel /\ f \in wheels[v].files
  BY <1>1, SiteIn
<1>2. ASSUME NEW v \in Found(f) PROVE v \in Wheel /\ f \in wheels[v].files
  <2> DEFINE at == {k \in SearchPath(Front(f)) : Provides(k, f)}
             k == CHOOSE k \in at : \A j \in at : k <= j
  <2>1. at # {} /\ v \in (IF k = 0 THEN SiteFiles(f) ELSE {k})
    BY <1>2, Zenon DEF Found
  <2>2. Len(Front(f)) \in Nat
    <3>1. Len(f) \in Nat \ {0} /\ \A i \in 1 .. Len(f) - 1 : f[i] \in STRING
      BY DEF Paths
    <3>2. 1 \in Int /\ Len(f) - 1 \in Int
      BY <3>1
    <3>3. Front(f) \in Seq(STRING)
      BY <3>1, <3>2, SubSeqProperties DEF Front
    <3> QED
      BY <3>3
  <2>3. SearchPath(Front(f)) \subseteq SysPath /\ SysPath \subseteq Nat
    BY <1>0, <2>2, SearchedIsOnPath
  <2>4. at \subseteq SysPath /\ at \in SUBSET Nat /\ \A j \in at : Provides(j, f)
    BY <2>3
  <2> HIDE DEF at
  <2>5. k \in at
    BY <2>1, <2>4, LeastOf, Zenon
  <2> HIDE DEF k
  <2>6. CASE k = 0
    BY <1>1, <2>1, <2>6
  <2>7. CASE k # 0
    BY <2>1, <2>4, <2>5, <2>7 DEF SysPath, Provides
  <2> QED
    BY <2>6, <2>7
<1> QED
  BY <1>1, <1>2

-----------------------------------------------------------------------------
(* Which prefixes the manifest has.                                        *)

LEMMA PairsAre ==
  ASSUME wheels \in WheelSets
  PROVE  /\ \A x \in Pairs : x[1] \in Paths /\ x[2] \in Metadata /\ x = <<x[1], x[2]>>
         /\ IsFiniteSet(Pairs)
         /\ \A m, d : <<m, d>> \in Pairs <=>
              \E w \in Wheel : /\ d \in extract_package_name(w)
                               /\ m \in identify_modules(w) \/ (d \in Stubs /\ m = <<d>>)
<1> DEFINE pairs(w) == (identify_modules(w) \X extract_package_name(w))
                          \cup {<<<<d>>, d>> : d \in Stubs \cap extract_package_name(w)}
<1>1. Pairs = UNION {pairs(w) : w \in Wheel}
  BY DEF Pairs
<1>2. \A w \in Wheel :
        /\ identify_modules(w) \subseteq Paths /\ IsFiniteSet(identify_modules(w))
        /\ extract_package_name(w) \subseteq Metadata \cap STRING /\ IsFiniteSet(extract_package_name(w))
  BY WheelModules
<1>3. \A d \in STRING : <<d>> \in Paths
  <2> TAKE d \in STRING
  <2>1. << >> \in Seq(STRING)
    BY EmptySeq
  <2>2. Append(<< >>, d) = <<d>>
    OBVIOUS
  <2>3. Append(<< >>, d) \in Seq(STRING) /\ Append(<< >>, d) # << >>
    BY <2>1, AppendProperties
  <2> QED
    BY <2>2, <2>3, Zenon DEF Paths
<1>4. \A m, d : <<m, d>> \in Pairs <=>
        \E w \in Wheel : /\ d \in extract_package_name(w)
                         /\ m \in identify_modules(w) \/ (d \in Stubs /\ m = <<d>>)
  BY <1>1
<1>5. \A x \in Pairs : x[1] \in Paths /\ x[2] \in Metadata /\ x = <<x[1], x[2]>>
  <2> SUFFICES ASSUME NEW w \in Wheel, NEW x \in pairs(w)
               PROVE  x[1] \in Paths /\ x[2] \in Metadata /\ x = <<x[1], x[2]>>
    BY <1>1
  <2>1. CASE x \in identify_modules(w) \X extract_package_name(w)
    BY <1>2, <2>1
  <2>2. CASE x \in {<<<<d>>, d>> : d \in Stubs \cap extract_package_name(w)}
    <3>1. PICK d \in Stubs \cap extract_package_name(w) : x = <<<<d>>, d>>
      BY <2>2
    <3>2. d \in Metadata /\ d \in STRING
      BY <1>2, <3>1
    <3> QED
      BY <1>3, <3>1, <3>2
  <2> QED
    BY <2>1, <2>2
<1>6. \A w \in Wheel : IsFiniteSet(pairs(w))
  <2> TAKE w \in Wheel
  <2> DEFINE E == extract_package_name(w)
             D == Stubs \cap E
             g == [d \in D |-> <<<<d>>, d>>]
  <2>1. IsFiniteSet(identify_modules(w)) /\ IsFiniteSet(E)
    BY <1>2
  <2>2. IsFiniteSet(identify_modules(w) \X E)
    BY <2>1, FS_Product
  <2>3. IsFiniteSet(D)
    BY <2>1, FS_Subset
  <2>4. {<<<<d>>, d>> : d \in D} = {g[d] : d \in D} /\ DOMAIN g = D
    OBVIOUS
  <2> HIDE DEF g, D
  <2>5. IsFiniteSet({g[d] : d \in D})
    BY <2>3, <2>4, ImageFinite
  <2>6. IsFiniteSet((identify_modules(w) \X E) \cup {g[d] : d \in D})
    BY <2>2, <2>5, FS_Union
  <2>7. pairs(w) = (identify_modules(w) \X E) \cup {g[d] : d \in D}
    BY <2>4 DEF D
  <2> QED
    BY <2>6, <2>7
<1>7. IsFiniteSet(Pairs)
  <2> DEFINE g == [w \in Wheel |-> pairs(w)]
             X == {g[w] : w \in Wheel}
  <2>1. IsFiniteSet(Wheel)
    BY WheelsFinite
  <2>2. DOMAIN g = Wheel
    OBVIOUS
  <2>3. Pairs = UNION X
    BY <1>1
  <2>4. \A T \in X : IsFiniteSet(T)
    BY <1>6
  <2> HIDE DEF g
  <2>5. IsFiniteSet(X)
    BY <2>1, <2>2, ImageFinite
  <2> HIDE DEF X
  <2> QED
    BY <2>3, <2>4, <2>5, FS_UNION
<1> QED
  BY <1>4, <1>5, <1>7

LEMMA PackagesOf ==
  ASSUME wheels \in WheelSets
  PROVE  /\ AllPrefixes \subseteq Paths
         /\ \A p \in Paths : p \in AllPrefixes <=> prefix_to_packages(p) # {}
         /\ \A p, q \in Paths : IsPrefix(q, p) => prefix_to_packages(p) \subseteq prefix_to_packages(q)
         /\ \A p : IsFiniteSet(prefix_to_packages(p))
         /\ \A p, d : d \in prefix_to_packages(p) <=>
              \E m : <<m, d>> \in Pairs /\ IsPrefix(p, m)
<1>1. /\ \A x \in Pairs : x[1] \in Paths /\ x = <<x[1], x[2]>>
      /\ IsFiniteSet(Pairs)
  BY PairsAre
<1>2. \A p, d : d \in prefix_to_packages(p) <=> \E m : <<m, d>> \in Pairs /\ IsPrefix(p, m)
  <2> SUFFICES ASSUME NEW p, NEW d
               PROVE  d \in prefix_to_packages(p) <=> \E m : <<m, d>> \in Pairs /\ IsPrefix(p, m)
    OBVIOUS
  <2>1. d \in prefix_to_packages(p) <=> \E x \in Pairs : IsPrefix(p, x[1]) /\ d = x[2]
    BY DEF prefix_to_packages
  <2>2. ASSUME NEW x \in Pairs, IsPrefix(p, x[1]), d = x[2]
        PROVE  \E m : <<m, d>> \in Pairs /\ IsPrefix(p, m)
    BY <1>1, <2>2
  <2>3. ASSUME NEW m, <<m, d>> \in Pairs, IsPrefix(p, m)
        PROVE  \E x \in Pairs : IsPrefix(p, x[1]) /\ d = x[2]
    <3>1. <<m, d>>[1] = m /\ <<m, d>>[2] = d
      OBVIOUS
    <3> QED
      BY <2>3, <3>1
  <2> QED
    BY <2>1, <2>2, <2>3
<1>3. ASSUME NEW p \in Paths
      PROVE  p \in AllPrefixes <=> \E x \in Pairs : IsPrefix(p, x[1])
  <2>1. p # << >>
    BY DEF Paths
  <2>2. p \in AllPrefixes <=> \E x \in Pairs : p \in Prefixes(x[1])
    <3>2. \A x : p \in Prefixes(x[1]) \ {<< >>} <=> p \in Prefixes(x[1])
      BY <2>1
    <3> DEFINE P(x) == Prefixes(x[1]) \ {<< >>}
    <3>3. AllPrefixes = UNION {P(x) : x \in Pairs}
      BY DEF AllPrefixes
    <3>4. \A x : p \in P(x) <=> p \in Prefixes(x[1])
      BY <3>2
    <3> HIDE DEF P
    <3> QED
      BY <3>3, <3>4, Zenon
  <2>3. ASSUME NEW x \in Pairs, p \in Prefixes(x[1]) PROVE IsPrefix(p, x[1])
    <3>1. PICK l \in 0 .. Len(x[1]) : p = SubSeq(x[1], 1, l)
      BY <2>3 DEF Prefixes
    <3>2. x[1] \in Paths /\ Len(x[1]) \in Nat
      BY <1>1 DEF Paths
    <3>3. l # 0
      BY <2>1, <3>1, SubSeqEmpty
    <3>4. l \in 1 .. Len(x[1])
      BY <3>2, <3>3
    <3> QED
      BY <3>1, <3>2, <3>4, CutOff
  <2>4. ASSUME NEW x \in Pairs, IsPrefix(p, x[1]) PROVE p \in Prefixes(x[1])
    <3>1. Len(p) \in 1 .. Len(x[1]) /\ p = SubSeq(x[1], 1, Len(p))
      BY <1>1, <2>4, AboveIsCut
    <3>2. Len(p) \in 0 .. Len(x[1])
      BY <3>1
    <3> QED
      BY <3>1, <3>2 DEF Prefixes
  <2> QED
    BY <2>2, <2>3, <2>4
<1>4. AllPrefixes \subseteq Paths
  <2> SUFFICES ASSUME NEW x \in Pairs, NEW l \in 0 .. Len(x[1]), SubSeq(x[1], 1, l) # << >>
               PROVE  SubSeq(x[1], 1, l) \in Paths
    <3>1. \A q \in AllPrefixes : q # << >> /\ \E x \in Pairs : q \in Prefixes(x[1])
      BY Zenon DEF AllPrefixes
    <3> QED
      BY <3>1, Zenon DEF Prefixes
  <2>1. x[1] \in Paths /\ Len(x[1]) \in Nat
    BY <1>1 DEF Paths
  <2>2. l # 0
    BY SubSeqEmpty
  <2>3. l \in 1 .. Len(x[1])
    BY <2>1, <2>2
  <2> QED
    BY <2>1, <2>3, CutOff
<1>5. \A p \in Paths : p \in AllPrefixes <=> prefix_to_packages(p) # {}
  <2> TAKE p \in Paths
  <2>1. p \in AllPrefixes <=> \E x \in Pairs : IsPrefix(p, x[1])
    BY <1>3
  <2>2. prefix_to_packages(p) # {} <=> \E x \in Pairs : IsPrefix(p, x[1])
    BY DEF prefix_to_packages
  <2> QED
    BY <2>1, <2>2
<1>6. ASSUME NEW p \in Paths, NEW q \in Paths, IsPrefix(q, p), NEW d \in prefix_to_packages(p)
      PROVE  d \in prefix_to_packages(q)
  <2>1. PICK x \in Pairs : IsPrefix(p, x[1]) /\ d = x[2]
    BY <1>6 DEF prefix_to_packages
  <2>2. IsPrefix(q, x[1])
    BY <1>1, <1>6, <2>1, PrefixOrder
  <2> QED
    BY <2>1, <2>2 DEF prefix_to_packages
<1>7. ASSUME NEW p PROVE IsFiniteSet(prefix_to_packages(p))
  <2> DEFINE D == {y \in Pairs : IsPrefix(p, y[1])}
             g == [x \in D |-> x[2]]
  <2>1. IsFiniteSet(D)
    BY <1>1, FS_Subset
  <2>2. prefix_to_packages(p) = {g[x] : x \in D}
    BY DEF prefix_to_packages
  <2>3. DOMAIN g = D
    OBVIOUS
  <2> HIDE DEF g, D
  <2> QED
    BY <2>1, <2>2, <2>3, ImageFinite
<1> QED
  BY <1>2, <1>4, <1>5, <1>6, <1>7

Unique == {p \in AllPrefixes : Cardinality(prefix_to_packages(p)) = 1}

LEMMA UniqueIs ==
  ASSUME wheels \in WheelSets
  PROVE  /\ Unique \subseteq Paths
         /\ \A p \in Unique : \E d : prefix_to_packages(p) = {d}
         /\ \A p \in AllPrefixes : \A d : prefix_to_packages(p) = {d} => p \in Unique
         /\ \A p \in AllPrefixes : \A q \in Unique : IsPrefix(q, p) =>
              p \in Unique /\ prefix_to_packages(p) = prefix_to_packages(q)
<1>1. \A p \in Unique : \E d : prefix_to_packages(p) = {d}
  BY PackagesOf, FS_Singleton DEF Unique
<1>2. \A p \in AllPrefixes : \A d : prefix_to_packages(p) = {d} => p \in Unique
  BY FS_Singleton DEF Unique
<1>3. Unique \subseteq Paths
  BY PackagesOf DEF Unique
<1>4. ASSUME NEW p \in AllPrefixes, NEW q \in Unique, IsPrefix(q, p)
      PROVE  p \in Unique /\ prefix_to_packages(p) = prefix_to_packages(q)
  <2>1. p \in Paths /\ q \in Paths
    BY <1>3, PackagesOf
  <2>2. prefix_to_packages(p) # {} /\ prefix_to_packages(p) \subseteq prefix_to_packages(q)
    BY <1>4, <2>1, PackagesOf
  <2>3. PICK d : prefix_to_packages(q) = {d}
    BY <1>1
  <2>4. prefix_to_packages(p) = {d}
    BY <2>2, <2>3
  <2> QED
    BY <1>2, <2>3, <2>4
<1> QED
  BY <1>1, <1>2, <1>3, <1>4

\* What the loop has put into the manifest once it reached a depth.
Packages == [p \in AllPrefixes |-> prefix_to_packages(p)]
Mapped(upTo) ==
  upTo = [n \in Nat |->
            IF n = 0 THEN {}
            ELSE upTo[n - 1] \cup
                   {p \in {q \in DOMAIN Packages : Cardinality(Packages[q]) = 1} :
                      /\ Len(p) = n
                      /\ \A q \in upTo[n - 1] : IsStrictPrefix(q, p) => Packages[q] # Packages[p]}]
MappedAt(n) == {p \in Shallowest(Unique) : Len(p) <= n}

\* The prefixes of one length that are added are those of the cover.
LEMMA MappedGrows ==
  ASSUME wheels \in WheelSets, NEW n \in Nat \ {0}
  PROVE  MappedAt(n) =
           MappedAt(n - 1) \cup
             {p \in {q \in DOMAIN Packages : Cardinality(Packages[q]) = 1} :
                /\ Len(p) = n
                /\ \A q \in MappedAt(n - 1) : IsStrictPrefix(q, p) => Packages[q] # Packages[p]}
<1>1. {q \in DOMAIN Packages : Cardinality(Packages[q]) = 1} = Unique
  BY DEF Packages, Unique
<1>2. \A p \in Unique : p \in Paths /\ Len(p) \in Nat \ {0} /\ Packages[p] = prefix_to_packages(p) /\ p \in AllPrefixes
  BY UniqueIs DEF Packages, Unique, Paths
<1>3. Shallowest(Unique) \subseteq Unique
  BY DEF Shallowest
<1>4. ASSUME NEW p \in Unique, Len(p) = n
      PROVE  p \in Shallowest(Unique) <=>
               \A q \in MappedAt(n - 1) : IsStrictPrefix(q, p) => Packages[q] # Packages[p]
  <2>1. p \in Shallowest(Unique) => \A q \in MappedAt(n - 1) : ~ IsStrictPrefix(q, p)
    BY <1>3 DEF Shallowest, MappedAt
  <2>2. ASSUME p \notin Shallowest(Unique)
        PROVE  \E q \in MappedAt(n - 1) : IsStrictPrefix(q, p) /\ Packages[q] = Packages[p]
    <3>1. PICK s \in Shallowest(Unique) : IsPrefix(s, p)
      BY <1>2, CoverReaches, UniqueIs
    <3>2. s # p /\ s \in Unique /\ s \in Paths /\ p \in Paths
      BY <1>2, <1>3, <2>2, <3>1
    <3>3. Len(s) < Len(p) /\ Len(s) \in Nat
      BY <3>1, <3>2, PrefixAbove, AboveParts DEF Paths
    <3>4. s \in MappedAt(n - 1)
      BY <1>4, <3>1, <3>3 DEF MappedAt
    <3>5. prefix_to_packages(p) = prefix_to_packages(s)
      BY <1>2, <3>1, <3>2, UniqueIs
    <3> QED
      BY <1>2, <3>1, <3>2, <3>4, <3>5 DEF IsStrictPrefix
  <2> QED
    BY <2>1, <2>2
<1>5. \A p \in Unique : Len(p) <= n <=> Len(p) <= n - 1 \/ Len(p) = n
  BY <1>2
<1> DEFINE added == {p \in Unique : Len(p) = n /\
                       \A q \in MappedAt(n - 1) : IsStrictPrefix(q, p) => Packages[q] # Packages[p]}
<1>6. \A p : p \in added <=> p \in Shallowest(Unique) /\ Len(p) = n
  BY <1>3, <1>4
<1>7. \A p : p \in MappedAt(n) <=> p \in Shallowest(Unique) /\ Len(p) <= n
  BY DEF MappedAt
<1>8. \A p : p \in MappedAt(n - 1) <=> p \in Shallowest(Unique) /\ Len(p) <= n - 1
  BY DEF MappedAt
<1> HIDE DEF added
<1>9. MappedAt(n) = MappedAt(n - 1) \cup added
  BY <1>3, <1>5, <1>6, <1>7, <1>8
<1> QED
  BY <1>1, <1>9 DEF added

LEMMA MappedIs ==
  ASSUME wheels \in WheelSets
  PROVE  LET upTo == CHOOSE upTo : Mapped(upTo)
         IN \A n \in Nat : upTo[n] = MappedAt(n)
<1> DEFINE h == [n \in Nat |-> MappedAt(n)]
<1>1. MappedAt(0) = {}
  <2>1. \A p \in Shallowest(Unique) : Len(p) \in Nat \ {0}
    BY UniqueIs DEF Shallowest, Paths
  <2> QED
    BY <2>1 DEF MappedAt
<1> DEFINE grown(L, n) ==
             L \cup {p \in {q \in DOMAIN Packages : Cardinality(Packages[q]) = 1} :
                       /\ Len(p) = n
                       /\ \A q \in L : IsStrictPrefix(q, p) => Packages[q] # Packages[p]}
<1>2. \A n \in Nat : n # 0 => MappedAt(n) = grown(MappedAt(n - 1), n)
  BY MappedGrows
<1>3. \A g : Mapped(g) <=> g = [n \in Nat |-> IF n = 0 THEN {} ELSE grown(g[n - 1], n)]
  BY Zenon DEF Mapped
<1> HIDE DEF grown
<1>4. Mapped(h)
  <2>1. \A n \in Nat : h[n] = MappedAt(n)
    OBVIOUS
  <2>2. \A n \in Nat : h[n] = IF n = 0 THEN {} ELSE grown(h[n - 1], n)
    <3> TAKE n \in Nat
    <3>1. n # 0 => n - 1 \in Nat
      OBVIOUS
    <3> QED
      BY <1>1, <1>2, <2>1, <3>1
  <2>3. h = [n \in Nat |-> h[n]]
    OBVIOUS
  <2> HIDE DEF h
  <2>4. h = [n \in Nat |-> IF n = 0 THEN {} ELSE grown(h[n - 1], n)]
    BY <2>2, <2>3
  <2> QED
    BY <1>3, <2>4
<1> DEFINE g == CHOOSE upTo : Mapped(upTo)
<1>5. Mapped(g)
  BY <1>4
<1> HIDE DEF g, h
<1>6. \A n \in Nat : g[n] = IF n = 0 THEN {} ELSE grown(g[n - 1], n)
  BY <1>3, <1>5, Zenon
<1> DEFINE D == {n \in Nat : g[n] # MappedAt(n)}
<1>7. ASSUME D # {} PROVE FALSE
  <2>1. D \subseteq Nat
    OBVIOUS
  <2> HIDE DEF D
  <2>2. PICK n \in D : \A m \in D : ~ (<<m, n>> \in OpToRel(<, Nat))
    BY <1>7, <2>1, WFMin, NatLessThanWellFounded, Zenon
  <2>3. \A m \in D : ~ (m < n)
    BY <2>1, <2>2 DEF OpToRel
  <2>4. n \in Nat /\ g[n] # MappedAt(n)
    BY <2>2 DEF D
  <2>5. n # 0
    BY <1>1, <1>6, <2>4
  <2>6. n - 1 \in Nat /\ n - 1 < n
    BY <2>4, <2>5
  <2>7. g[n - 1] = MappedAt(n - 1)
    BY <2>3, <2>6 DEF D
  <2> QED
    BY <1>2, <1>6, <2>4, <2>5, <2>7
<1> QED
  BY <1>7 DEF g

\* The manifest has the shallowest prefixes with one package.
LEMMA ManifestIs ==
  ASSUME wheels \in WheelSets
  PROVE  \A x : x \in find_unique_shallowest_prefixes <=>
           \E p \in Shallowest(Unique) : \E d \in prefix_to_packages(p) : x = <<p, d>>
<1> DEFINE unique == {q \in DOMAIN Packages : Cardinality(Packages[q]) = 1}
           g == CHOOSE upTo : Mapped(upTo)
           P == IF unique = {} THEN {} ELSE g[Max({Len(p) : p \in unique})]
<1>1. find_unique_shallowest_prefixes = UNION {{<<p, d>> : d \in Packages[p]} : p \in P}
  BY Zenon DEF find_unique_shallowest_prefixes, Packages, Mapped
<1>2. unique = Unique
  BY DEF Packages, Unique
<1>3. \A n \in Nat : g[n] = MappedAt(n)
  BY MappedIs, Zenon
<1> HIDE DEF g, unique
<1>4. P = Shallowest(Unique)
  <2>1. CASE Unique = {}
    BY <1>2, <2>1 DEF Shallowest
  <2>2. CASE Unique # {}
    <3> DEFINE L == {Len(p) : p \in Unique}
    <3>1. L \subseteq Nat /\ L # {}
      <4>1. \A p \in Unique : Len(p) \in Nat
        BY UniqueIs DEF Paths
      <4> QED
        BY <2>2, <4>1
    <3>2. IsFiniteSet(L)
      <4>1. IsFiniteSet(Pairs) /\ \A x \in Pairs : x[1] \in Paths
        BY PairsAre
      <4> DEFINE h == [x \in Pairs |-> Len(x[1])]
                 M == {h[x] : x \in Pairs}
      <4>2. \A x \in Pairs : h[x] = Len(x[1]) /\ Len(x[1]) \in Nat
        BY <4>1 DEF Paths
      <4>3. DOMAIN h = Pairs /\ M \subseteq Nat /\ \A x \in Pairs : h[x] \in M
        BY <4>2
      <4> HIDE DEF h
      <4>4. IsFiniteSet(M)
        BY <4>1, <4>3, ImageFinite
      <4> HIDE DEF M
      <4>5. PICK k \in Nat : \A m \in M : m <= k
        BY <4>3, <4>4, FiniteBound
      <4>6. \A p \in Unique : Len(p) <= k
        <5> TAKE p \in Unique
        <5>1. p \in Paths /\ prefix_to_packages(p) # {} /\ Len(p) \in Nat
          BY UniqueIs DEF Paths
        <5>2. PICK x \in Pairs : IsPrefix(p, x[1])
          BY <5>1 DEF prefix_to_packages
        <5>3. Len(p) <= Len(x[1])
          BY <5>2 DEF IsPrefix
        <5>4. Len(x[1]) <= k
          BY <4>2, <4>3, <4>5
        <5> QED
          BY <4>2, <5>1, <5>3, <5>4
      <4>7. \A l \in L : l <= k
        BY <4>6
      <4> HIDE DEF L
      <4> QED
        BY <3>1, <4>7, FS_BoundedSetOfNaturals
    <3>3. Max(L) \in L /\ \A l \in L : l <= Max(L)
      BY <3>1, <3>2, GreatestOf
    <3>4. Max(L) \in Nat /\ \A p \in Unique : Len(p) <= Max(L)
      BY <3>1, <3>3
    <3>5. MappedAt(Max(L)) = Shallowest(Unique)
      <4> HIDE DEF L
      <4> QED
        BY <3>4 DEF MappedAt, Shallowest
    <3>6. P = g[Max(L)]
      BY <1>2, <2>2
    <3> QED
      BY <1>3, <3>4, <3>5, <3>6
  <2> QED
    BY <2>1, <2>2
<1>5. \A p \in Shallowest(Unique) : Packages[p] = prefix_to_packages(p)
  BY DEF Shallowest, Unique, Packages
<1> HIDE DEF P
<1> QED
  BY <1>1, <1>4, <1>5

\* What ManifestExact says of the distributions that have a name.
Modules == [d \in Metadata |-> UNION {identify_modules(w) : w \in
                                        {v \in Wheel : d \in Distribution(v)}}]
Having(name) == {d \in UNION {Distribution(w) : w \in Wheel} :
                   \/ \E m \in Modules[d] : IsPrefix(name, m)
                   \/ d \in Stubs /\ name = <<d>>}

\* A wheel whose own METADATA is listed first is taken for its own distribution.
LEMMA OwnName ==
  ASSUME wheels \in WheelSets, NEW w \in Wheel, OwnListedFirst(w)
  PROVE  Distribution(w) = extract_package_name(w)
<1> DEFINE named == metadata_files(wheels[w].files)
           first == FirstListed(w, named)
           own == {n \in named : Len(n) = 2}
<1>1. /\ Distribution(w) = {m[1] : m \in own}
      /\ extract_package_name(w) = IF named = {} THEN {} ELSE {first[Len(first) - 1]}
      /\ named # {} => own = {first}
  BY DEF Distribution, extract_package_name, OwnListedFirst
<1>2. named # {} => Len(first) = 2
  BY <1>1
<1>3. named = {} => own = {}
  OBVIOUS
<1> HIDE DEF named, first, own
<1>4. CASE named = {}
  BY <1>1, <1>3, <1>4
<1>5. CASE named # {}
  <2>1. Len(first) - 1 = 1
    BY <1>2, <1>5
  <2>2. {m[1] : m \in own} = {first[1]}
    BY <1>1, <1>5
  <2> QED
    BY <1>1, <1>5, <2>1, <2>2
<1> QED
  BY <1>4, <1>5

\* The distributions below a prefix are those that have something by its name.
LEMMA HavingIs ==
  ASSUME wheels \in WheelSets, NEW p \in Paths, \A w \in Wheel : OwnListedFirst(w)
  PROVE  Having(p) = prefix_to_packages(p)
<1>0. \A w \in Wheel : Distribution(w) = extract_package_name(w)
  BY OwnName
<1>1. \A w \in Wheel : extract_package_name(w) \subseteq Metadata \cap STRING
  BY WheelModules
<1>2. \A d \in Metadata : \A m : m \in Modules[d] <=>
        \E w \in Wheel : d \in extract_package_name(w) /\ m \in identify_modules(w)
  BY <1>0 DEF Modules
<1>3. \A d : d \in Having(p) <=>
        /\ \E w \in Wheel : d \in extract_package_name(w)
        /\ \/ \E m \in Modules[d] : IsPrefix(p, m)
           \/ d \in Stubs /\ p = <<d>>
  BY <1>0 DEF Having
<1>4. \A m, d : <<m, d>> \in Pairs <=>
        \E w \in Wheel : /\ d \in extract_package_name(w)
                         /\ m \in identify_modules(w) \/ (d \in Stubs /\ m = <<d>>)
  BY PairsAre
<1>5. \A d : d \in prefix_to_packages(p) <=> \E m : <<m, d>> \in Pairs /\ IsPrefix(p, m)
  BY PackagesOf
<1>6. ASSUME NEW d \in Having(p) PROVE d \in prefix_to_packages(p)
  <2>1. PICK w \in Wheel : d \in extract_package_name(w)
    BY <1>3, <1>6
  <2>2. CASE \E m \in Modules[d] : IsPrefix(p, m)
    BY <1>1, <1>2, <1>4, <1>5, <2>1, <2>2
  <2>3. CASE d \in Stubs /\ p = <<d>>
    <3>1. <<p, d>> \in Pairs
      BY <1>4, <2>1, <2>3
    <3> QED
      BY <1>5, <3>1, PrefixOrder
  <2> QED
    BY <1>3, <1>6, <2>2, <2>3
<1>7. ASSUME NEW d \in prefix_to_packages(p) PROVE d \in Having(p)
  <2>1. PICK m : <<m, d>> \in Pairs /\ IsPrefix(p, m)
    BY <1>5, <1>7
  <2>2. PICK w \in Wheel : /\ d \in extract_package_name(w)
                           /\ m \in identify_modules(w) \/ (d \in Stubs /\ m = <<d>>)
    BY <1>4, <2>1
  <2>3. d \in Metadata
    BY <1>1, <2>2
  <2>4. CASE m \in identify_modules(w)
    <3>1. m \in Modules[d]
      BY <1>2, <2>2, <2>3, <2>4
    <3> QED
      BY <1>3, <2>1, <2>2, <3>1
  <2>5. CASE d \in Stubs /\ m = <<d>>
    <3>1. m \in Paths
      <4>1. \A x \in Pairs : x[1] \in Paths
        BY PairsAre
      <4>2. <<m, d>>[1] = m
        OBVIOUS
      <4> QED
        BY <2>1, <4>1, <4>2
    <3>2. Len(m) = 1
      BY <2>5
    <3>3. p = m
      BY <2>1, <3>1, <3>2, PrefixOrder
    <3> QED
      BY <1>3, <2>2, <2>5, <3>3
  <2> QED
    BY <2>2, <2>4, <2>5
<1> QED
  BY <1>6, <1>7

\* Below one entry of the manifest there is no other.
LEMMA ResolveIs ==
  ASSUME wheels \in WheelSets, NEW p \in Paths
  PROVE  LET manifest == find_unique_shallowest_prefixes
         IN /\ \A s \in Shallowest(Unique) : IsPrefix(s, p) =>
                 Resolve(manifest, p) = prefix_to_packages(s)
            /\ (~ \E s \in Shallowest(Unique) : IsPrefix(s, p)) => Resolve(manifest, p) = {}
<1> DEFINE manifest == find_unique_shallowest_prefixes
           at == {x \in manifest : IsPrefix(x[1], p)}
<1>1. \A x : x \in manifest <=>
        \E q \in Shallowest(Unique) : \E d \in prefix_to_packages(q) : x = <<q, d>>
  BY ManifestIs
<1>2. Resolve(manifest, p) = {x[2] : x \in {y \in at : \A z \in at : Len(z[1]) <= Len(y[1])}}
  BY DEF Resolve
<1>3. \A q \in Shallowest(Unique) : q \in Unique /\ q \in Paths /\ Len(q) \in Nat
  BY UniqueIs DEF Shallowest, Paths
<1> HIDE DEF manifest
<1>4. \A x \in at : \E q \in Shallowest(Unique) : \E d \in prefix_to_packages(q) :
        x = <<q, d>> /\ x[1] = q /\ IsPrefix(q, p)
  BY <1>1
<1>5. ASSUME NEW s \in Shallowest(Unique), IsPrefix(s, p)
      PROVE  Resolve(manifest, p) = prefix_to_packages(s)
  <2>1. PICK d : prefix_to_packages(s) = {d}
    BY <1>3, UniqueIs
  <2>2. ASSUME NEW q \in Shallowest(Unique), IsPrefix(q, p) PROVE q = s
    <3>1. IsPrefix(q, s) \/ IsPrefix(s, q)
      BY <1>3, <1>5, <2>2, PrefixOrder
    <3> QED
      BY <1>3, <2>2, <3>1 DEF Shallowest, IsStrictPrefix
  <2>3. <<s, d>> \in manifest
    BY <1>1, <2>1
  <2>4. <<s, d>> \in at
    BY <1>5, <2>3
  <2>5. \A x \in at : x = <<s, d>>
    BY <1>4, <2>1, <2>2
  <2>6. at = {<<s, d>>}
    BY <2>4, <2>5
  <2> DEFINE longest == {y \in at : \A z \in at : Len(z[1]) <= Len(y[1])}
  <2>7. longest = {<<s, d>>}
    BY <1>3, <2>6
  <2>8. Resolve(manifest, p) = {x[2] : x \in longest}
    BY <1>2
  <2> HIDE DEF longest
  <2>9. Resolve(manifest, p) = {d}
    BY <2>7, <2>8
  <2> QED
    BY <2>1, <2>9
<1>6. ASSUME ~ \E s \in Shallowest(Unique) : IsPrefix(s, p)
      PROVE  Resolve(manifest, p) = {}
  <2>1. at = {}
    BY <1>4, <1>6
  <2> HIDE DEF at
  <2> QED
    BY <1>2, <2>1
<1> QED
  BY <1>5, <1>6 DEF manifest

\* ManifestExact, where every archive lists its own METADATA first, as
\* extract_package_name takes for granted: by what each wheel ships and by what the
\* shallowest prefixes with one distribution are: below one of them everything is of that distribution, above
\* and beside them several have something.
THEOREM ManifestExactCorrect == VenvSpec => []ManifestExact
<1>1. TopInv /\ RangeInv => ManifestExact
  <2> SUFFICES ASSUME TopInv, RangeInv, stage = "done", \A w \in Wheel : OwnListedFirst(w)
               PROVE  ManifestExact
    BY DEF ManifestExact
  <2> DEFINE manifest == find_unique_shallowest_prefixes
  <2>0. wheels \in WheelSets
    BY DEF TopInv
  <2>1. ASSUME NEW p \in AllPrefixes
        PROVE  Resolve(manifest, p) = IF Cardinality(Having(p)) = 1 THEN Having(p) ELSE {}
    <3>1. p \in Paths
      BY <2>0, PackagesOf
    <3>2. Having(p) = prefix_to_packages(p)
      BY <2>0, <3>1, HavingIs
    <3>3. CASE Cardinality(prefix_to_packages(p)) = 1
      <4>1. p \in Unique
        BY <3>3 DEF Unique
      <4>2. PICK s \in Shallowest(Unique) : IsPrefix(s, p)
        BY <2>0, <4>1, CoverReaches, UniqueIs
      <4>3. s \in Unique
        BY DEF Shallowest
      <4>4. prefix_to_packages(p) = prefix_to_packages(s)
        BY <2>0, <4>2, <4>3, UniqueIs
      <4>5. Resolve(manifest, p) = prefix_to_packages(s)
        BY <2>0, <3>1, <4>2, ResolveIs
      <4> QED
        BY <3>2, <3>3, <4>4, <4>5
    <3>4. CASE Cardinality(prefix_to_packages(p)) # 1
      <4>1. ASSUME NEW s \in Shallowest(Unique), IsPrefix(s, p) PROVE FALSE
        <5>1. p \in Unique
          BY <2>0, <4>1, UniqueIs DEF Shallowest
        <5> QED
          BY <3>4, <5>1 DEF Unique
      <4>2. Resolve(manifest, p) = {}
        BY <2>0, <3>1, <4>1, ResolveIs
      <4> QED
        BY <3>2, <3>4, <4>2
    <3> QED
      BY <3>3, <3>4
  <2>2. \A x, y \in manifest : ~IsStrictPrefix(x[1], y[1])
    <3>1. ASSUME NEW x \in manifest PROVE x[1] \in Shallowest(Unique)
      <4>1. PICK q \in Shallowest(Unique) : \E d \in prefix_to_packages(q) : x = <<q, d>>
        BY <2>0, <3>1, ManifestIs
      <4> QED
        BY <4>1
    <3>2. \A p, q \in Shallowest(Unique) : ~IsStrictPrefix(p, q)
      BY DEF Shallowest
    <3> QED
      BY <3>1, <3>2
  <2>3. ASSUME NEW w \in Wheel, NEW f \in wheels[w].files,
               ~InDistInfo(f), Last(f) \in Importable, get_importable_module_name(f) # << >>,
               NEW d \in Resolve(manifest, get_importable_module_name(f)), NEW v \in Found(f)
        PROVE  d \in Distribution(v)
    <3> DEFINE p == get_importable_module_name(f)
    <3>1. f \in Paths
      BY <2>0, TopLevelsAssumption DEF Wheel, Paths
    <3>2. v \in Wheel /\ f \in wheels[v].files
      BY <3>1, FoundIn
    <3>3. extract_package_name(v) # {} /\ p \in identify_modules(v) /\ p \in Paths
      BY <2>0, <2>3, <3>2, WheelModules
    <3>4. PICK s \in Shallowest(Unique) : IsPrefix(s, p)
      BY <2>0, <2>3, <3>3, ResolveIs
    <3>5. d \in prefix_to_packages(s)
      BY <2>0, <2>3, <3>3, <3>4, ResolveIs
    <3>6. PICK e : prefix_to_packages(s) = {e}
      BY <2>0, <3>4, UniqueIs DEF Shallowest
    <3>7. PICK n \in extract_package_name(v) : TRUE
      BY <3>3
    <3>8. <<p, n>> \in Pairs
      BY <2>0, <3>2, <3>3, <3>7, PairsAre
    <3>9. n \in prefix_to_packages(s)
      BY <2>0, <3>4, <3>8, PackagesOf
    <3>10. d \in extract_package_name(v)
      BY <3>5, <3>6, <3>7, <3>9
    <3> QED
      BY <2>0, <3>2, <3>10, OwnName
  <2> HIDE DEF manifest
  <2> DEFINE exact(m) == /\ \A p \in AllPrefixes :
                              Resolve(m, p) = IF Cardinality(Having(p)) = 1 THEN Having(p) ELSE {}
                         /\ \A x, y \in m : ~IsStrictPrefix(x[1], y[1])
                         /\ \A w \in Wheel : \A f \in wheels[w].files :
                              ~InDistInfo(f) /\ Last(f) \in Importable /\ get_importable_module_name(f) # << >> =>
                                \A d \in Resolve(m, get_importable_module_name(f)), v \in Found(f) :
                                  d \in Distribution(v)
  <2>4. exact(manifest)
    BY <2>1, <2>2, <2>3
  <2>5. (stage = "done" /\ (\A w \in Wheel : OwnListedFirst(w)) => exact(manifest)) <=> ManifestExact
    BY Zenon DEF ManifestExact, manifest, Having, Modules
  <2> HIDE DEF exact
  <2> QED
    BY <2>4, <2>5
<1> QED
  BY <1>1, RangeInvariance, PTL

-----------------------------------------------------------------------------
(* The skeleton of a wheel.                                                *)

\* What is not directly a top level: the directories on a wheel's skeleton.
LEMMA SkeletonIs ==
  ASSUME wheels \in WheelSets, NEW w \in Wheel, Described(w),
         NEW tl \in Paths, Len(tl) = 1, IsNs(w, tl),
         NEW r \in Paths, IsStrictPrefix(tl, r)
  PROVE  LET F == wheels[w].files
             there == \E f \in F : IsStrictPrefix(r, f)
             free == \A a \in Paths : IsStrictPrefix(a, r) => a \notin InitDirs(F)
         IN /\ r \in wheels[w].regular_roots <=> there /\ r \in InitDirs(F) /\ free
            /\ r \in wheels[w].namespace_dirs <=> there /\ r \notin InitDirs(F) /\ free
            /\ Len(r) >= 2
<1> DEFINE F == wheels[w].files
           inits == InitDirs(F)
           below == {d \in Dirs(F) : SubSeq(d, 1, 1) \in NamespaceTopLevels(F)}
           there == \E f \in F : IsStrictPrefix(r, f)
           free == \A a \in Paths : IsStrictPrefix(a, r) => a \notin inits
<1>1. /\ F \subseteq Paths /\ tl \in NamespaceTopLevels(F)
      /\ r \in wheels[w].regular_roots <=>
                 r \in below /\ r \in inits /\ Ancestors(r) \cap inits = {}
      /\ r \in wheels[w].namespace_dirs <=>
                 r \in below /\ Len(r) >= 2 /\ r \notin inits /\ Ancestors(r) \cap inits = {}
  BY RecordSays
<1>2. SubSeq(r, 1, 1) = tl
  BY TopLevelOf DEF IsStrictPrefix
<1>3. Len(r) >= 2
  BY PrefixAbove, AboveParts DEF IsStrictPrefix, Paths
<1>4. r \in Dirs(F) <=> there
  BY <1>1, AncestorsAre DEF Dirs, IsStrictPrefix
<1>5. r \in below <=> there
  BY <1>1, <1>2, <1>4
<1>6. Ancestors(r) \cap inits = {} <=> free
  BY AncestorsAre DEF IsStrictPrefix
<1> HIDE DEF F, inits, below, there, free
<1>7. /\ r \in wheels[w].regular_roots <=> there /\ r \in inits /\ free
      /\ r \in wheels[w].namespace_dirs <=> there /\ r \notin inits /\ free
  BY <1>1, <1>3, <1>5, <1>6
<1> QED
  BY <1>3, <1>7 DEF F, inits, there, free

\* Every file below a namespace has its entry, at or above the first regular
\* package above it.
LEMMA EntryFor ==
  ASSUME wheels \in WheelSets, NEW w \in Wheel, Described(w),
         NEW tl \in Paths, Len(tl) = 1, IsNs(w, tl),
         NEW f \in wheels[w].files, IsPrefix(tl, f)
  PROVE  /\ f \in Paths /\ IsStrictPrefix(tl, f)
         /\ \E e \in Entries(w, tl) :
              /\ e \in Paths /\ IsPrefix(e, f)
              /\ \A d \in InitDirs(wheels[w].files) : d \in Paths /\ IsStrictPrefix(tl, d) /\ IsStrictPrefix(d, f) =>
                   IsPrefix(e, d)
<1> DEFINE F == wheels[w].files
           inits == InitDirs(F)
           depths == {n \in 2 .. Len(f) : n = Len(f) \/ SubSeq(f, 1, n) \in inits}
           m == CHOOSE n \in depths : \A o \in depths : n <= o
           e == SubSeq(f, 1, m)
<1>1. /\ F \subseteq Paths /\ tl \in NamespaceTopLevels(F) /\ wheels[w].namespace_entries = NamespaceEntries(F)
  BY RecordSays
<1>2. f \in Paths /\ Len(f) \in Nat \ {0} /\ SubSeq(f, 1, 1) = tl
  BY <1>1, TopLevelOf DEF Paths
<1>3. Len(f) >= 2 /\ Len(f) # 1
  <2>1. Len(f) # 1
    BY <1>1, <1>2, Zenon DEF NamespaceTopLevels, RegularTopLevels
  <2>2. Len(f) \in Nat \ {0}
    BY <1>2
  <2> HIDE DEF depths, m, e, inits, F
  <2> QED
    BY <2>1, <2>2
<1>4. Len(f) \in depths /\ depths \in SUBSET (2 .. Len(f))
  BY <1>2, <1>3
<1>5. m \in depths /\ \A o \in depths : m <= o
  BY <1>2, <1>4, LeastDepth
<1>6. e \in NamespaceEntries(F)
  BY <1>1, <1>2, <1>3, Zenon DEF NamespaceEntries
<1>7. m \in 1 .. Len(f)
  BY <1>2, <1>5
<1> HIDE DEF m
<1>8. e \in Paths /\ Len(e) = m /\ IsPrefix(e, f)
  BY <1>2, <1>7, CutOff
<1>9. \A d \in Paths : d \in inits /\ Len(d) \in 2 .. Len(f) /\ d = SubSeq(f, 1, Len(d)) => m <= Len(d)
  BY <1>5
<1> HIDE DEF e, depths, inits, F
<1>10. IsPrefix(tl, e)
  BY <1>2, <1>8, PrefixOrder
<1>11. e \in Entries(w, tl)
  BY <1>1, <1>6, <1>10 DEF Entries
<1>12. ASSUME NEW d \in inits, d \in Paths, IsStrictPrefix(tl, d), IsStrictPrefix(d, f)
       PROVE  IsPrefix(e, d)
  <2>1. IsPrefix(d, f) /\ d \in Paths
    BY <1>12 DEF IsStrictPrefix
  <2>2. Len(d) \in 1 .. Len(f) /\ d = SubSeq(f, 1, Len(d))
    BY <1>2, <2>1, AboveIsCut
  <2>3. Len(d) > 1
    BY <1>12, PrefixAbove, AboveParts DEF IsStrictPrefix
  <2>4. m <= Len(d)
    BY <1>2, <1>9, <1>12, <2>2, <2>3
  <2>5. IsPrefix(e, d) \/ IsPrefix(d, e)
    BY <1>2, <1>8, <2>1, PrefixOrder
  <2>6. CASE IsPrefix(d, e) /\ d # e
    <3>1. Len(d) < Len(e)
      BY <1>8, <2>1, <2>6, PrefixAbove, AboveParts
    <3> QED
      BY <1>7, <1>8, <2>2, <2>4, <3>1
  <2> QED
    BY <1>8, <2>5, <2>6, PrefixOrder
<1>13. IsStrictPrefix(tl, f)
  <2>2. tl # f
    BY <1>3, Zenon
  <2> QED
    BY <2>2 DEF IsStrictPrefix
<1> QED
  BY <1>2, <1>8, <1>11, <1>12, <1>13 DEF inits, F

\* What lies in a directory: its path without the last segment.
LEMMA FrontIs ==
  ASSUME NEW g \in Paths, Len(g) >= 2
  PROVE  /\ Front(g) \in Paths /\ Len(Front(g)) = Len(g) - 1 /\ IsStrictPrefix(Front(g), g)
         /\ \A d \in Paths : IsStrictPrefix(d, g) => IsPrefix(d, Front(g))
<1>1. Len(g) \in Nat \ {0} /\ Len(g) - 1 \in 1 .. Len(g) /\ Len(g) - 1 < Len(g)
  BY DEF Paths
<1>2. Front(g) \in Paths /\ Len(Front(g)) = Len(g) - 1 /\ IsPrefix(Front(g), g)
  BY <1>1, CutOff DEF Front
<1>3. Front(g) # g
  <2>1. Len(Front(g)) # Len(g)
    BY <1>1, <1>2
  <2> QED
    BY <2>1, Zenon
<1>4. ASSUME NEW d \in Paths, IsStrictPrefix(d, g) PROVE IsPrefix(d, Front(g))
  <2>1. Len(d) < Len(g) /\ Len(d) \in Nat
    BY <1>4, PrefixAbove, AboveParts DEF IsStrictPrefix, Paths
  <2>2. IsPrefix(d, Front(g)) \/ IsPrefix(Front(g), d)
    BY <1>2, <1>4, PrefixOrder DEF IsStrictPrefix
  <2>3. CASE IsPrefix(Front(g), d) /\ Front(g) # d
    <3>1. Len(Front(g)) < Len(d)
      BY <1>2, <2>3, PrefixAbove, AboveParts
    <3> QED
      BY <1>1, <1>2, <2>1, <3>1
  <2> QED
    BY <1>2, <2>2, <2>3, PrefixOrder
<1> QED
  BY <1>2, <1>3, <1>4 DEF IsStrictPrefix

\* A regular package has its file.
LEMMA InitFile ==
  ASSUME NEW F \in SUBSET Paths, NEW d \in Paths
  PROVE  /\ d \in InitDirs(F) <=> Append(d, InitPy) \in F
         /\ Append(d, InitPy) \in F => IsStrictPrefix(d, Append(d, InitPy))
<1> DEFINE T == STRING \cup {InitPy}
           g == Append(d, InitPy)
<1>0. STRING \subseteq T /\ InitPy \in T
  OBVIOUS
<1> HIDE DEF T
<1>1. /\ d \in Seq(STRING) /\ d \in Seq(T) /\ Len(d) \in Nat \ {0}
      /\ \A h \in Seq(STRING) : h \in Seq(T)
  <2>1. d \in Seq(STRING) /\ Len(d) \in Nat \ {0}
    BY DEF Paths
  <2> QED
    BY <1>0, <2>1, SeqMonotonic
<1>3. /\ g \in Seq(T) /\ Len(g) = Len(d) + 1
      /\ \A i \in 1 .. Len(d) : g[i] = d[i]
      /\ g[Len(d) + 1] = InitPy
  BY <1>0, <1>1, AppendProperties
<1> HIDE DEF g
<1>4. ASSUME g \in F PROVE d \in InitDirs(F) /\ IsStrictPrefix(d, g)
  <2>1. g \in Paths /\ Len(g) >= 2 /\ Last(g) = InitPy
    BY <1>1, <1>3, <1>4 DEF Last
  <2>2. Len(g) - 1 = Len(d) /\ Len(d) \in 1 .. Len(g)
    BY <1>1, <1>3
  <2>3. Front(g) \in Paths /\ Len(Front(g)) = Len(d) /\ IsStrictPrefix(Front(g), g)
    BY <2>1, <2>2, FrontIs
  <2>4. \A i \in 1 .. Len(d) : Front(g)[i] = g[i]
    BY <2>1, <2>3, PrefixAbove, AboveParts DEF IsStrictPrefix
  <2>5. Front(g) = d
    BY <1>1, <1>3, <2>3, <2>4, SeqEqual DEF Paths
  <2> QED
    BY <1>4, <2>1, <2>3, <2>5 DEF InitDirs
<1>5. ASSUME d \in InitDirs(F) PROVE g \in F
  <2>1. PICK h \in F : Len(h) >= 2 /\ Last(h) = InitPy /\ d = Front(h)
    BY <1>5 DEF InitDirs
  <2>2. h \in Paths /\ h \in Seq(STRING) /\ Len(h) \in Nat
    BY <2>1 DEF Paths
  <2>3. Len(d) = Len(h) - 1 /\ IsStrictPrefix(d, h)
    BY <2>1, <2>2, FrontIs
  <2>4. \A i \in 1 .. Len(d) : d[i] = h[i]
    BY <2>2, <2>3, PrefixAbove, AboveParts DEF IsStrictPrefix
  <2>5. h[Len(d) + 1] = InitPy /\ Len(h) = Len(d) + 1
    <3>1. Len(h) = Len(d) + 1
      BY <1>1, <2>2, <2>3
    <3> QED
      BY <2>1, <3>1 DEF Last
  <2>6. \A i \in 1 .. Len(d) + 1 : i \in 1 .. Len(d) \/ i = Len(d) + 1
    BY <1>1
  <2>7. \A i \in 1 .. Len(g) : g[i] = h[i]
    BY <1>3, <2>4, <2>5, <2>6
  <2>8. g = h
    BY <1>1, <1>3, <2>2, <2>5, <2>7, SeqEqual
  <2> QED
    BY <2>8
<1> QED
  BY <1>4, <1>5 DEF g

\* Every regular package of a namespace is at or below one of the regular roots.
LEMMA InitAbove ==
  ASSUME wheels \in WheelSets, NEW w \in Wheel, Described(w),
         NEW tl \in Paths, Len(tl) = 1, IsNs(w, tl),
         NEW d \in Paths, d \in InitDirs(wheels[w].files), IsStrictPrefix(tl, d)
  PROVE  \E q \in wheels[w].regular_roots : q \in Paths /\ IsPrefix(q, d) /\ IsStrictPrefix(tl, q)
<1> DEFINE F == wheels[w].files
           X == {a \in Paths : IsStrictPrefix(tl, a) /\ a \in InitDirs(F)}
<1>1. F \subseteq Paths /\ tl \notin InitDirs(F)
  BY RecordSays
<1>2. X \in SUBSET Paths /\ d \in X
  OBVIOUS
<1> HIDE DEF X
<1>3. PICK s \in Shallowest(X) : IsPrefix(s, d)
  BY <1>2, CoverReaches
<1>4. s \in Paths /\ IsStrictPrefix(tl, s) /\ s \in InitDirs(F) /\ \A q \in X : ~IsStrictPrefix(q, s)
  BY DEF Shallowest, X
<1>5. \E f \in F : IsStrictPrefix(s, f)
  BY <1>1, <1>4, InitFile
<1>6. ASSUME NEW a \in Paths, IsStrictPrefix(a, s), a \in InitDirs(F) PROVE FALSE
  <2>1. IsPrefix(a, tl) \/ IsPrefix(tl, a)
    BY <1>4, <1>6, PrefixOrder DEF IsStrictPrefix
  <2>2. a # tl
    BY <1>1, <1>6
  <2>3. IsStrictPrefix(tl, a)
    BY <2>1, <2>2, PrefixOrder DEF IsStrictPrefix
  <2>4. a \in X
    BY <1>6, <2>3 DEF X
  <2> QED
    BY <1>4, <1>6, <2>4
<1>7. s \in wheels[w].regular_roots
  BY <1>4, <1>5, <1>6, SkeletonIs
<1> QED
  BY <1>3, <1>4, <1>7

Skeleton(w) == wheels[w].namespace_dirs \cup wheels[w].regular_roots

\* A directory of the wheel is on the skeleton, or inside a regular root.
LEMMA OnSkeleton ==
  ASSUME wheels \in WheelSets, NEW w \in Wheel, Described(w),
         NEW tl \in Paths, Len(tl) = 1, IsNs(w, tl),
         NEW r \in Paths, IsStrictPrefix(tl, r)
  PROVE  /\ \A f \in wheels[w].files : IsStrictPrefix(r, f) =>
              \/ r \in Skeleton(w)
              \/ \E q \in wheels[w].regular_roots : q \in Paths /\ IsStrictPrefix(q, r) /\ IsStrictPrefix(tl, q)
         /\ r \in Skeleton(w) =>
              /\ r \in Dirs(wheels[w].files) /\ \E f \in wheels[w].files : IsStrictPrefix(r, f)
              /\ \A d \in Paths : IsStrictPrefix(tl, d) /\ IsStrictPrefix(d, r) =>
                   d \in wheels[w].namespace_dirs /\ d \notin wheels[w].regular_roots
<1> DEFINE F == wheels[w].files
           inits == InitDirs(F)
<1>0. F \subseteq Paths /\ tl \notin inits
  BY RecordSays
<1>1. \A x \in Paths : IsStrictPrefix(tl, x) =>
        LET there == \E f \in F : IsStrictPrefix(x, f)
            free == \A a \in Paths : IsStrictPrefix(a, x) => a \notin inits
        IN /\ x \in wheels[w].regular_roots <=> there /\ x \in inits /\ free
           /\ x \in wheels[w].namespace_dirs <=> there /\ x \notin inits /\ free
  BY SkeletonIs
<1> HIDE DEF inits
<1>2. ASSUME NEW f \in F, IsStrictPrefix(r, f), r \notin Skeleton(w)
      PROVE  \E q \in wheels[w].regular_roots : q \in Paths /\ IsStrictPrefix(q, r) /\ IsStrictPrefix(tl, q)
  <2>1. PICK a \in Paths : IsStrictPrefix(a, r) /\ a \in inits
    BY <1>1, <1>2 DEF Skeleton
  <2>2. IsStrictPrefix(tl, a)
    <3>1. IsPrefix(a, tl) \/ IsPrefix(tl, a)
      BY <2>1, PrefixOrder DEF IsStrictPrefix
    <3>2. a # tl
      BY <1>0, <2>1
    <3> QED
      BY <3>1, <3>2, PrefixOrder DEF IsStrictPrefix
  <2>3. PICK q \in wheels[w].regular_roots : q \in Paths /\ IsPrefix(q, a) /\ IsStrictPrefix(tl, q)
    BY <2>1, <2>2, InitAbove DEF inits
  <2>4. IsStrictPrefix(q, r)
    BY <2>1, <2>3, PrefixOrder DEF IsStrictPrefix
  <2> QED
    BY <2>3, <2>4
<1>3. ASSUME r \in Skeleton(w)
      PROVE  r \in Dirs(F) /\ \E f \in F : IsStrictPrefix(r, f)
  <2>1. PICK f \in F : IsStrictPrefix(r, f)
    BY <1>1, <1>3 DEF Skeleton
  <2>2. r \in Ancestors(f)
    BY <1>0, <2>1, AncestorsAre DEF IsStrictPrefix
  <2> QED
    BY <2>1, <2>2 DEF Dirs
<1>4. ASSUME r \in Skeleton(w), NEW d \in Paths, IsStrictPrefix(tl, d), IsStrictPrefix(d, r)
      PROVE  d \in wheels[w].namespace_dirs /\ d \notin wheels[w].regular_roots
  <2>1. PICK f \in F : IsStrictPrefix(r, f)
    BY <1>3, <1>4
  <2>2. IsStrictPrefix(d, f)
    BY <1>0, <1>4, <2>1, PrefixOrder DEF IsStrictPrefix
  <2>3. \A a \in Paths : IsStrictPrefix(a, r) => a \notin inits
    BY <1>1, <1>4 DEF Skeleton
  <2>4. \A a \in Paths : IsStrictPrefix(a, d) => IsStrictPrefix(a, r)
    BY <1>4, PrefixOrder DEF IsStrictPrefix
  <2> QED
    BY <1>1, <1>4, <2>2, <2>3, <2>4
<1> QED
  BY <1>2, <1>3, <1>4

\* The directories that hold a native library.
LEMMA NativeRootsAre ==
  ASSUME wheels \in WheelSets, NEW w \in Wheel, Described(w),
         NEW tl \in Paths, Len(tl) = 1, IsNs(w, tl),
         NEW r \in Paths, IsStrictPrefix(tl, r)
  PROVE  r \in wheels[w].native_roots <=>
           r \in Skeleton(w) /\ \E f \in wheels[w].files : Last(f) \in NativeLib /\ IsStrictPrefix(r, f)
<1> DEFINE F == wheels[w].files
           candidates == Roots(F).regular \cup Roots(F).namespace
           natives == {g \in F : Len(g) >= 2 /\ Last(g) \in NativeLib}
           above(f) == {SubSeq(f, 1, 1)} \cup {c \in candidates : IsStrictPrefix(c, f)}
<1>1. F \subseteq Paths /\ wheels[w].native_roots = NativeRoots(F) /\ candidates = Skeleton(w)
  BY RecordSays DEF Skeleton
<1>2. NativeRoots(F) = UNION {above(f) : f \in natives}
  BY Zenon DEF NativeRoots
<1>3. r \in NativeRoots(F) <=> \E f \in natives : r \in above(f)
  BY <1>2
<1>4. Len(r) >= 2 /\ Len(r) # 1
  <2>1. Len(r) >= 2 /\ Len(r) \in Nat
    BY SkeletonIs DEF Paths
  <2> HIDE DEF F, candidates, natives, above
  <2>2. ASSUME Len(r) = 1 PROVE FALSE
    BY <2>1, <2>2
  <2> QED
    BY <2>1, <2>2, Zenon
<1>5. \A f \in F : r # SubSeq(f, 1, 1)
  <2>1. \A f \in F : Len(SubSeq(f, 1, 1)) = 1
    BY <1>1, TopLevelOf
  <2> QED
    BY <1>4, <2>1, Zenon
<1>6. \A f \in F : IsStrictPrefix(r, f) => Len(f) >= 2
  <2> SUFFICES ASSUME NEW f \in F, IsStrictPrefix(r, f) PROVE Len(f) >= 2
    OBVIOUS
  <2>1. Len(r) < Len(f) /\ Len(r) \in Nat /\ Len(f) \in Nat
    BY <1>1, PrefixAbove, AboveParts DEF IsStrictPrefix, Paths
  <2> HIDE DEF F, candidates, natives, above
  <2> QED
    BY <1>4, <2>1
<1>7. \A f \in F : r \in above(f) <=> r \in Skeleton(w) /\ IsStrictPrefix(r, f)
  BY <1>1, <1>5
<1> HIDE DEF above, candidates
<1> QED
  BY <1>1, <1>3, <1>6, <1>7

Sound == Inspected /\ Compatible

\* The regular packages that span the wheels of a top level, and those of them
\* that must not be copied.
Spanned(tl) == ConflictedRoots(tl, Claimants(tl))
HeldRoots(tl) == {r \in Spanned(tl) : \E w \in Claimants(tl) : r \in wheels[w].native_roots}
AllNs(tl) == \A w \in Claimants(tl) : IsNs(w, tl)

LEMMA SpanFrame ==
  ASSUME wheels \in WheelSets, Sound, NEW tl \in PlainPaths
  PROVE  /\ tl \in Paths /\ Claimants(tl) \subseteq Wheel
         /\ \A v, w \in Wheel : Described(w) /\ Dirs(wheels[v].files) \cap wheels[w].files = {}
         /\ \A w \in Wheel : wheels[w].files \subseteq Paths
         /\ Spanned(tl) \subseteq PlainPaths /\ Spanned(tl) \in SUBSET Paths
         /\ \A r \in Spanned(tl) :
              /\ IsStrictPrefix(tl, r)
              /\ \E v, w \in Claimants(tl) : v # w /\ r \in wheels[v].regular_roots /\ r \in Skeleton(w)
         /\ \A r : \A v, w \in Claimants(tl) :
              IsStrictPrefix(tl, r) /\ v # w /\ r \in wheels[v].regular_roots /\ r \in Skeleton(w)
                => r \in Spanned(tl)
<1>1. tl \in Paths /\ Claimants(tl) \subseteq Wheel
  BY DEF PlainPaths, Claimants
<1>2. \A v, w \in Wheel : Described(w) /\ Dirs(wheels[v].files) \cap wheels[w].files = {}
  BY DEF Sound, Inspected, Compatible, Described
<1>3. \A w \in Wheel : wheels[w].files \subseteq Paths
  BY TopLevelsAssumption DEF Wheel, Paths
<1>4. \A r : r \in Spanned(tl) <=>
        /\ \E w \in Claimants(tl) : r \in wheels[w].regular_roots
        /\ IsStrictPrefix(tl, r)
        /\ \E v, w \in Claimants(tl) : /\ v # w
                        /\ r \in wheels[v].regular_roots
                        /\ r \in wheels[w].namespace_dirs \cup wheels[w].regular_roots
  BY DEF Spanned, ConflictedRoots
<1>5. \A r \in Spanned(tl) :
              /\ IsStrictPrefix(tl, r)
              /\ \E v, w \in Claimants(tl) : v # w /\ r \in wheels[v].regular_roots /\ r \in Skeleton(w)
  BY <1>4, Zenon DEF Skeleton
<1>6. \A r : \A v, w \in Claimants(tl) :
              IsStrictPrefix(tl, r) /\ v # w /\ r \in wheels[v].regular_roots /\ r \in Skeleton(w)
                => r \in Spanned(tl)
  BY <1>4, Zenon DEF Skeleton
<1>7. Spanned(tl) \subseteq PlainPaths
  BY <1>1, <1>5, SaidIsPlain
<1>8. Spanned(tl) \in SUBSET Paths
  BY <1>7 DEF PlainPaths
<1> QED
  BY <1>1, <1>2, <1>3, <1>5, <1>6, <1>7, <1>8

\* Outside of the roots that span wheels, whoever installs into an entry has that
\* entry, and every regular package above a file is at or below its entry.
LEMMA EntryCase ==
  ASSUME wheels \in WheelSets, Sound, NEW tl \in PlainPaths, Len(tl) = 1, AllNs(tl),
         NEW w \in Claimants(tl), NEW f \in wheels[w].files, IsPrefix(tl, f),
         ~Within(f, Spanned(tl))
  PROVE  \E e \in Entries(w, tl) :
           /\ e \in Paths /\ IsPrefix(e, f) /\ ~Within(e, Spanned(tl))
           /\ \A v \in Claimants(tl) : \A g \in wheels[v].files : IsPrefix(e, g) => e \in Entries(v, tl)
           /\ \A v \in Claimants(tl) : \A x \in InitDirs(wheels[v].files) :
                x \in Paths /\ IsStrictPrefix(tl, x) /\ IsStrictPrefix(x, f) => IsPrefix(e, x)
<1> DEFINE S == Claimants(tl)
           roots == Spanned(tl)
           E == DOMAIN EntryOwner(S, tl, roots)
<1>1. /\ tl \in Paths /\ S \subseteq Wheel /\ roots \subseteq Paths
      /\ \A v \in S : Described(v) /\ IsNs(v, tl) /\ wheels[v].files \subseteq Paths
      /\ \A u, v \in S : Described(v) /\ Dirs(wheels[u].files) \cap wheels[v].files = {}
  BY SpanFrame DEF AllNs
<1>2. E \subseteq PlainPaths /\ Antichain(E) /\ Apart(E, roots)
  BY <1>1, EntriesApart DEF AllNs, Spanned
<1>3. \A x : x \in E <=> (\E v \in S : x \in Entries(v, tl)) /\ ~Within(x, roots)
  BY DEF EntryOwner
<1> HIDE DEF E, S, roots
<1>4. \A v \in S : \A g \in wheels[v].files : IsPrefix(tl, g) =>
        \E e \in Entries(v, tl) :
          /\ e \in Paths /\ IsPrefix(e, g)
          /\ \A d \in InitDirs(wheels[v].files) : d \in Paths /\ IsStrictPrefix(tl, d) /\ IsStrictPrefix(d, g) =>
               IsPrefix(e, d)
  BY <1>1, EntryFor
<1>5. w \in S /\ f \in Paths
  BY <1>1 DEF S
<1>6. PICK e \in Entries(w, tl) : e \in Paths /\ IsPrefix(e, f)
  BY <1>4, <1>5
<1>7. \A x, y \in Paths : IsPrefix(x, y) /\ Within(x, roots) => Within(y, roots)
  BY <1>1, PrefixOrder DEF Within
<1>8. e \in E /\ ~Within(e, roots)
  BY <1>3, <1>5, <1>6, <1>7 DEF roots
<1>9. ASSUME NEW v \in S, NEW g \in wheels[v].files, IsPrefix(e, g)
      PROVE  e \in Entries(v, tl)
  <2>1. g \in Paths /\ IsPrefix(tl, e)
    BY <1>1, <1>6 DEF Entries
  <2>2. PICK y \in Entries(v, tl) : y \in Paths /\ IsPrefix(y, g)
    BY <1>1, <1>4, <1>6, <1>9, <2>1, PrefixOrder
  <2>3. ~Within(y, roots)
    <3> SUFFICES ASSUME NEW r \in roots, IsPrefix(r, y) PROVE FALSE
      BY DEF Within
    <3>1. r \in Paths /\ IsPrefix(r, g)
      BY <1>1, <2>1, <2>2, PrefixOrder
    <3>2. IsPrefix(r, e) \/ IsPrefix(e, r)
      BY <1>6, <1>9, <2>1, <3>1, PrefixOrder
    <3> QED
      BY <1>2, <1>8, <3>2 DEF Apart
  <2>4. y \in E
    BY <1>3, <2>2, <2>3
  <2>5. IsPrefix(y, e) \/ IsPrefix(e, y)
    BY <1>6, <1>9, <2>1, <2>2, PrefixOrder
  <2> QED
    BY <1>2, <1>8, <2>2, <2>4, <2>5 DEF Antichain
<1>10. ASSUME NEW v \in S, NEW x \in InitDirs(wheels[v].files),
              x \in Paths, IsStrictPrefix(tl, x), IsStrictPrefix(x, f)
       PROVE  IsPrefix(e, x)
  <2> DEFINE g == Append(x, InitPy)
  <2>1. g \in wheels[v].files /\ IsStrictPrefix(x, g) /\ g \in Paths
    BY <1>1, <1>10, InitFile
  <2>2. IsPrefix(tl, g)
    BY <1>1, <1>10, <2>1, PrefixOrder DEF IsStrictPrefix
  <2>3. PICK y \in Entries(v, tl) : y \in Paths /\ IsPrefix(y, x)
    BY <1>4, <1>10, <2>1, <2>2
  <2>4. IsPrefix(y, f)
    BY <1>5, <1>10, <2>3, PrefixOrder DEF IsStrictPrefix
  <2>5. y \in E
    BY <1>3, <1>5, <1>7, <2>3, <2>4 DEF roots
  <2>6. IsPrefix(y, e) \/ IsPrefix(e, y)
    BY <1>5, <1>6, <2>3, <2>4, PrefixOrder
  <2>7. y = e
    BY <1>2, <1>8, <2>5, <2>6 DEF Antichain
  <2> QED
    BY <2>3, <2>7
<1> QED
  BY <1>6, <1>8, <1>9, <1>10 DEF S, roots

\* Above the uppermost roots that span wheels there is no regular package, and
\* whoever installs below such a root has it on its skeleton.
LEMMA RootTop ==
  ASSUME wheels \in WheelSets, Sound, NEW tl \in PlainPaths, Len(tl) = 1, AllNs(tl),
         NEW s \in Shallowest(Spanned(tl)), NEW w \in Claimants(tl)
  PROVE  /\ \A x \in InitDirs(wheels[w].files) :
              ~ (x \in Paths /\ IsStrictPrefix(tl, x) /\ IsStrictPrefix(x, s))
         /\ \A f \in wheels[w].files : IsPrefix(s, f) => IsStrictPrefix(s, f) /\ s \in Skeleton(w)
<1>1. /\ tl \in Paths /\ Claimants(tl) \subseteq Wheel
      /\ s \in Spanned(tl) /\ s \in Paths /\ IsStrictPrefix(tl, s)
      /\ \A q \in Spanned(tl) : ~IsStrictPrefix(q, s)
  BY SpanFrame DEF Shallowest
<1>2. \A v \in Claimants(tl) : Described(v) /\ IsNs(v, tl) /\ wheels[v].files \subseteq Paths /\ v \in Wheel
  BY <1>1, SpanFrame DEF AllNs
<1>3. PICK v \in Claimants(tl) : s \in wheels[v].regular_roots
  BY <1>1, SpanFrame
<1>4. s \in Skeleton(v)
  BY <1>3 DEF Skeleton
<1>5. ASSUME NEW q \in wheels[w].regular_roots, q \in Paths, IsStrictPrefix(q, s), IsStrictPrefix(tl, q)
      PROVE  FALSE
  <2>1. q \in wheels[v].namespace_dirs /\ q \notin wheels[v].regular_roots
    BY <1>1, <1>2, <1>4, <1>5, OnSkeleton
  <2>2. v # w /\ q \in Skeleton(v)
    BY <1>5, <2>1 DEF Skeleton
  <2>3. q \in Spanned(tl)
    BY <1>5, <2>2, SpanFrame
  <2> QED
    BY <1>1, <1>5, <2>3
<1>6. ASSUME NEW x \in InitDirs(wheels[w].files), x \in Paths, IsStrictPrefix(tl, x), IsStrictPrefix(x, s)
      PROVE  FALSE
  <2>1. PICK q \in wheels[w].regular_roots : q \in Paths /\ IsPrefix(q, x) /\ IsStrictPrefix(tl, q)
    BY <1>1, <1>2, <1>6, InitAbove
  <2>2. IsStrictPrefix(q, s)
    BY <1>1, <1>6, <2>1, PrefixOrder DEF IsStrictPrefix
  <2> QED
    BY <1>5, <2>1, <2>2
<1>7. ASSUME NEW f \in wheels[w].files, IsPrefix(s, f)
      PROVE  IsStrictPrefix(s, f) /\ s \in Skeleton(w)
  <2>1. s \in Dirs(wheels[v].files)
    BY <1>1, <1>2, <1>4, OnSkeleton
  <2>2. s # f
    BY <1>2, <2>1, SpanFrame
  <2>3. IsStrictPrefix(s, f)
    BY <1>7, <2>2 DEF IsStrictPrefix
  <2> QED
    BY <1>1, <1>2, <1>5, <2>3, OnSkeleton
<1> QED
  BY <1>6, <1>7

\* Such a root is bound to one wheel exactly where one has a native library below it.
LEMMA RootHeld ==
  ASSUME wheels \in WheelSets, Sound, NEW tl \in PlainPaths, Len(tl) = 1, AllNs(tl),
         NEW s \in Shallowest(Spanned(tl))
  PROVE  /\ Holds(s, HeldRoots(tl)) =>
              \E u, v, x \in Claimants(tl) :
                /\ u # v /\ s \in wheels[u].regular_roots /\ Holds(s, wheels[v].files)
                /\ s \in wheels[x].native_roots
         /\ \A w \in Claimants(tl) : \A f \in wheels[w].files :
              IsPrefix(s, f) /\ Last(f) \in NativeLib => Holds(s, HeldRoots(tl))
<1>1. /\ tl \in Paths /\ Claimants(tl) \subseteq Wheel /\ Spanned(tl) \in SUBSET Paths
      /\ s \in Spanned(tl) /\ s \in Paths /\ IsStrictPrefix(tl, s)
  BY SpanFrame DEF Shallowest
<1>2. \A v \in Claimants(tl) : Described(v) /\ IsNs(v, tl) /\ wheels[v].files \subseteq Paths /\ v \in Wheel
  BY <1>1, SpanFrame DEF AllNs
<1>3. \A w \in Claimants(tl) : s \in wheels[w].native_roots <=>
        s \in Skeleton(w) /\ \E f \in wheels[w].files : Last(f) \in NativeLib /\ IsStrictPrefix(s, f)
  BY <1>1, <1>2, NativeRootsAre
<1>4. \A w \in Claimants(tl) : \A f \in wheels[w].files : IsPrefix(s, f) => IsStrictPrefix(s, f) /\ s \in Skeleton(w)
  BY RootTop
<1>5. ASSUME NEW w \in Claimants(tl), NEW f \in wheels[w].files, IsPrefix(s, f), Last(f) \in NativeLib
      PROVE  s \in wheels[w].native_roots
  BY <1>3, <1>4, <1>5
<1>6. ASSUME NEW w \in Claimants(tl), NEW f \in wheels[w].files, IsPrefix(s, f), Last(f) \in NativeLib
      PROVE  Holds(s, HeldRoots(tl))
  <2>1. s \in HeldRoots(tl)
    BY <1>1, <1>5, <1>6 DEF HeldRoots
  <2> QED
    BY <1>1, <2>1, PrefixOrder DEF Holds
<1>7. ASSUME Holds(s, HeldRoots(tl))
      PROVE  \E u, v, x \in Claimants(tl) :
                /\ u # v /\ s \in wheels[u].regular_roots /\ Holds(s, wheels[v].files)
                /\ s \in wheels[x].native_roots
  <2>1. PICK h \in HeldRoots(tl) : IsPrefix(s, h)
    BY <1>7 DEF Holds
  <2>2. PICK u \in Claimants(tl) : h \in wheels[u].native_roots
    BY <2>1 DEF HeldRoots
  <2>3. h \in Paths /\ IsStrictPrefix(tl, h)
    BY <1>1, <2>1, SpanFrame DEF HeldRoots
  <2>4. PICK f \in wheels[u].files : Last(f) \in NativeLib /\ IsStrictPrefix(h, f)
    BY <1>1, <1>2, <2>2, <2>3, NativeRootsAre
  <2>5. f \in Paths /\ IsPrefix(s, f)
    BY <1>1, <1>2, <2>1, <2>3, <2>4, PrefixOrder DEF IsStrictPrefix
  <2>6. s \in wheels[u].native_roots
    BY <1>5, <2>4, <2>5
  <2>7. PICK a \in Claimants(tl) : \E b \in Claimants(tl) : a # b /\ s \in wheels[a].regular_roots /\ s \in Skeleton(b)
    BY <1>1, SpanFrame
  <2>8. PICK b \in Claimants(tl) : a # b /\ s \in wheels[a].regular_roots /\ s \in Skeleton(b)
    BY <2>7
  <2>9. Holds(s, wheels[b].files)
    <3>1. \E g \in wheels[b].files : IsStrictPrefix(s, g)
      BY <1>1, <1>2, <2>8, OnSkeleton
    <3> QED
      BY <3>1 DEF Holds, IsStrictPrefix
  <2> QED
    BY <2>6, <2>8, <2>9
<1> QED
  BY <1>6, <1>7

-----------------------------------------------------------------------------
(* What each pass leaves behind.                                           *)

Told(p) == \E c \in collisions : c[1] = p

\* Where two wheels claim a path, it is reported.
LEMMA ChainTells ==
  ASSUME wheels \in WheelSets, NEW S \in SUBSET Wheel, NEW x \in S, NEW y \in S, x # y, NEW name
  PROVE  \E c \in Chain(name, S) : c[1] = name
<1>1. S \subseteq Nat
  BY WheelsFinite
<1>2. PICK a \in S : \E b \in S : a < b
  BY <1>1
<1> DEFINE B == {v \in S : a < v}
<1>3. B \in SUBSET Nat /\ B # {}
  BY <1>1, <1>2
<1> HIDE DEF B
<1>4. PICK m \in B : \A v \in B : m <= v
  BY <1>3, LeastOf, Zenon
<1>5. m \in S /\ a < m /\ \A u \in S : a < u => m <= u
  BY <1>4 DEF B
<1>6. ~ \E u \in S : a < u /\ u < m
  BY <1>1, <1>5
<1> DEFINE pairs == {q \in S \X S : q[1] < q[2] /\ ~ \E u \in S : q[1] < u /\ u < q[2]}
           c == <<name, a, m>>
<1>7. <<a, m>> \in pairs
  BY <1>2, <1>5, <1>6
<1>8. Chain(name, S) = {<<name, p[1], p[2]>> : p \in pairs}
  BY Zenon DEF Chain
<1> HIDE DEF pairs
<1>9. <<name, <<a, m>>[1], <<a, m>>[2]>> \in Chain(name, S)
  BY <1>7, <1>8
<1>10. c \in Chain(name, S) /\ c[1] = name
  BY <1>9
<1> QED
  BY <1>10

\* What is bound whole is above what it stands for.
LEMMA CollapseBinds ==
  ASSUME wheels \in WheelSets, NEW S \in SUBSET Wheel, NEW tl, NEW exclude,
         NEW owner, DOMAIN owner \subseteq Paths, Antichain(DOMAIN owner), NEW e \in DOMAIN owner
  PROVE  LET result == Collapse(owner, S, tl, exclude)
         IN \E p \in DOMAIN result :
              \/ p = e /\ result[p] = owner[e]
              \/ /\ IsStrictPrefix(p, e) /\ result[p] \in S
                 /\ \A w \in S : p \in NsDirs(w, tl) <=> w = result[p]
<1> DEFINE owners(d) == {w \in S : d \in NsDirs(w, tl)}
           sole == {d \in UNION {NsDirs(w, tl) : w \in S} :
                      /\ Cardinality(owners(d)) = 1
                      /\ \E x \in DOMAIN owner : IsStrictPrefix(d, x)
                      /\ ~Holds(d, exclude)}
           roots == Shallowest(sole)
           outside == {x \in DOMAIN owner : ~Within(x, roots)}
           result == Collapse(owner, S, tl, exclude)
<1>1. result = [p \in outside \cup roots |->
                  IF p \in roots THEN CHOOSE w \in owners(p) : TRUE ELSE owner[p]]
  BY Zenon DEF Collapse
<1>2. \A d \in roots : d \notin DOMAIN owner
  <2>1. \A d \in roots : \E x \in DOMAIN owner : IsStrictPrefix(d, x)
    BY DEF Shallowest
  <2> QED
    BY <2>1 DEF Antichain, IsStrictPrefix
<1>3. DOMAIN result = outside \cup roots
  BY <1>1
<1>4. \A p \in DOMAIN result :
              \/ p \in DOMAIN owner /\ result[p] = owner[p]
              \/ result[p] \in S /\ \A w \in S : p \in NsDirs(w, tl) <=> w = result[p]
  BY CollapseIs
<1>5. CASE e \in outside
  <2>1. e \notin roots
    BY <1>2
  <2> HIDE DEF owners, roots, outside
  <2>2. result[e] = owner[e] /\ e \in DOMAIN result
    BY <1>1, <1>5, <2>1
  <2> QED
    BY <2>2
<1>6. CASE e \notin outside
  <2>1. PICK p \in roots : IsPrefix(p, e)
    BY <1>6 DEF Within
  <2>2. p \notin DOMAIN owner
    BY <1>2
  <2>3. IsStrictPrefix(p, e)
    BY <2>1, <2>2 DEF IsStrictPrefix
  <2> HIDE DEF result, roots, outside, owners
  <2> QED
    BY <1>3, <1>4, <2>1, <2>2, <2>3 DEF result
<1> QED
  BY <1>5, <1>6

\* An entry outside of the roots that span wheels is reported, or its only wheel has
\* it or a directory above it.
LEMMA EntrySettled ==
  ASSUME wheels \in WheelSets, Sound, NEW tl \in PlainPaths, Len(tl) = 1, AllNs(tl),
         NEW owner, owner = EntryOwner(Claimants(tl), tl, Spanned(tl)),
         NEW w \in Claimants(tl), NEW e \in Entries(w, tl), ~Within(e, Spanned(tl))
  PROVE  LET result == Collapse(owner, Claimants(tl), tl, Spanned(tl))
         IN \/ \E c \in EntryReports(owner, Claimants(tl), tl) : c[1] = e
            \/ /\ \A v \in Claimants(tl) : e \in Entries(v, tl) => v = w
               /\ \E p \in DOMAIN result : IsPrefix(tl, p) /\ IsPrefix(p, e) /\ result[p] = w
<1> DEFINE S == Claimants(tl)
           result == Collapse(owner, S, tl, Spanned(tl))
<1>1. /\ tl \in Paths /\ S \subseteq Wheel
      /\ \A u, v \in S : Described(u) /\ IsNs(u, tl) /\ Dirs(wheels[u].files) \cap wheels[v].files = {}
  BY SpanFrame DEF AllNs
<1>2. DOMAIN owner \subseteq PlainPaths /\ Antichain(DOMAIN owner) /\ \A x \in DOMAIN owner : IsPrefix(tl, x)
  BY <1>1, EntriesApart DEF AllNs, Spanned
<1>3. e \in DOMAIN owner
  BY DEF EntryOwner
<1>4. w \in EntryClaimants(e, S, tl) /\ EntryClaimants(e, S, tl) \subseteq S
  BY DEF EntryClaimants
<1>5. CASE \E v \in EntryClaimants(e, S, tl) : v # w
  <2>1. PICK c \in Chain(e, EntryClaimants(e, S, tl)) : c[1] = e
    BY <1>1, <1>4, <1>5, ChainTells
  <2>2. c \in EntryReports(owner, S, tl)
    BY <1>3, <2>1 DEF EntryReports
  <2> QED
    BY <2>1, <2>2
<1>6. CASE \A v \in EntryClaimants(e, S, tl) : v = w
  <2>1. \A v \in S : e \in Entries(v, tl) => v = w
    BY <1>6 DEF EntryClaimants
  <2>2. owner[e] = w
    BY <1>1, <1>3, <1>6, OwnerRange
  <2>3. e \in Paths /\ DOMAIN owner \subseteq Paths
    BY <1>2, <1>3 DEF PlainPaths
  <2>4. PICK p \in DOMAIN result :
              \/ p = e /\ result[p] = owner[e]
              \/ /\ IsStrictPrefix(p, e) /\ result[p] \in S
                 /\ \A v \in S : p \in NsDirs(v, tl) <=> v = result[p]
    BY <1>1, <1>2, <1>3, <2>3, CollapseBinds
  <2> HIDE DEF result
  <2>5. CASE p = e /\ result[p] = owner[e]
    <3>1. IsPrefix(tl, p) /\ IsPrefix(p, e)
      BY <1>2, <1>3, <2>3, <2>5, PrefixOrder
    <3> QED
      BY <2>1, <2>2, <2>5, <3>1 DEF result
  <2>6. CASE /\ IsStrictPrefix(p, e) /\ result[p] \in S
             /\ \A v \in S : p \in NsDirs(v, tl) <=> v = result[p]
    <3>1. p \in NsDirs(result[p], tl) /\ result[p] \in Wheel
      BY <1>1, <2>6
    <3>2. p \in Paths /\ IsPrefix(tl, p)
      BY <3>1, SaidIsPlain DEF NsDirs, PlainPaths
    <3>3. p # tl
      <4>1. Len(p) >= 2
        BY <1>1, <2>6, <3>1, RecordSays DEF NsDirs
      <4> QED
        BY <4>1
    <3>4. IsStrictPrefix(tl, p)
      BY <3>2, <3>3 DEF IsStrictPrefix
    <3>5. p \in wheels[w].namespace_dirs
      BY <1>1, <2>6, <3>2, <3>4, DescribedSkeleton
    <3>6. p \in NsDirs(w, tl)
      BY <3>2, <3>5 DEF NsDirs
    <3>7. result[p] = w
      BY <2>6, <3>6
    <3> QED
      BY <2>1, <2>6, <3>2, <3>7 DEF result, IsStrictPrefix
  <2> QED
    BY <2>4, <2>5, <2>6
<1> QED
  BY <1>5, <1>6

\* An entry's wheel has it in site-packages, or a directory above it.
Bound(tl, w, e) ==
  \E p \in DOMAIN projected : IsPrefix(tl, p) /\ IsPrefix(p, e) /\ projected[p] = w

\* A namespace of several wheels: the uppermost roots that span them go to one
\* wheel or wait for a merge, and every other entry is bound or reported.
Spread(tl) ==
  /\ AllNs(tl) /\ Claimants(tl) \subseteq nsClaimants
  /\ \A s \in Shallowest(Spanned(tl)) :
       /\ Holds(s, HeldRoots(tl)) =>
            s \in DOMAIN projected /\ \E w \in Claimants(tl) : s \in wheels[w].regular_roots /\ projected[s] = w
       /\ ~Holds(s, HeldRoots(tl)) => s \in conflicted
  /\ \A w \in Claimants(tl) : \A e \in Entries(w, tl) :
       \/ Within(e, Spanned(tl)) \/ Told(e)
       \/ (\A v \in Claimants(tl) : e \in Entries(v, tl) => v = w) /\ Bound(tl, w, e)

Settled(tl) ==
  \/ \E w : Claimants(tl) = {w} /\ tl \in DOMAIN projected /\ projected[tl] = w
  \/ Told(tl)
  \/ Spread(tl)

Tops == UNION {wheels[w].top_levels : w \in Wheel}

\* What each pass leaves behind.
FoundInv ==
  /\ Sound => \A tl \in Tops \cap PlainPaths : tl \in pending \/ Settled(tl)
  /\ \A r \in conflicted : \E tl \in Tops \cap PlainPaths : AllNs(tl) /\ r \in Spanned(tl)
  /\ stage # "resolve" =>
       /\ pending = {}
       /\ \A r \in Shallowest(conflicted) : Cardinality(Contributors(r)) >= 2 =>
            r \in DOMAIN mergeGroups /\ mergeGroups[r] = InOrder(Contributors(r))
  /\ stage = "done" => \A tl \in Names : (\E w : Claimants(tl) = {w}) \/ Told(tl)

LEMMA LayoutStays ==
  ASSUME UNCHANGED wheels
  PROVE  /\ Sound' = Sound /\ Tops' = Tops /\ Names' = Names
         /\ \A tl : /\ Claimants(tl)' = Claimants(tl) /\ Spanned(tl)' = Spanned(tl)
                    /\ HeldRoots(tl)' = HeldRoots(tl) /\ AllNs(tl)' = AllNs(tl)
         /\ \A w, tl : Entries(w, tl)' = Entries(w, tl)
<1>1. Wheel' = Wheel
  BY DEF Wheel
<1>2. Sound' = Sound
  BY <1>1 DEF Sound, Inspected, Compatible
<1>3. Tops' = Tops /\ Names' = Names
  BY <1>1 DEF Tops, Names, IsMetadata
<1>4. \A tl : Claimants(tl)' = Claimants(tl)
  BY <1>1 DEF Claimants
<1>5. \A tl : Spanned(tl)' = Spanned(tl)
  BY <1>4 DEF Spanned, ConflictedRoots
<1>6. \A tl : HeldRoots(tl)' = HeldRoots(tl) /\ AllNs(tl)' = AllNs(tl)
  BY <1>4, <1>5 DEF HeldRoots, AllNs, IsNs
<1>7. \A w, tl : Entries(w, tl)' = Entries(w, tl)
  BY DEF Entries
<1> QED
  BY <1>2, <1>3, <1>4, <1>5, <1>6, <1>7

\* What is settled stays so while nothing below the top level is taken away.
LEMMA SettledStays ==
  ASSUME UNCHANGED wheels, NEW tl \in Paths, Settled(tl),
         nsClaimants \subseteq nsClaimants', conflicted \subseteq conflicted',
         collisions \subseteq collisions',
         \A p \in DOMAIN projected : IsPrefix(tl, p) => p \in DOMAIN projected' /\ projected'[p] = projected[p]
  PROVE  Settled(tl)'
<1>0. IsPrefix(tl, tl)
  BY PrefixOrder
<1>1. /\ Claimants(tl)' = Claimants(tl) /\ Spanned(tl)' = Spanned(tl)
      /\ HeldRoots(tl)' = HeldRoots(tl) /\ AllNs(tl)' = AllNs(tl)
      /\ \A w : Entries(w, tl)' = Entries(w, tl)
  BY LayoutStays
<1>2. \A p : Told(p) => Told(p)'
  BY DEF Told
<1>3. CASE \E w : Claimants(tl) = {w} /\ tl \in DOMAIN projected /\ projected[tl] = w
  BY <1>0, <1>1, <1>3 DEF Settled
<1>4. CASE Told(tl)
  BY <1>2, <1>4 DEF Settled
<1>5. CASE Spread(tl)
  <2>1. AllNs(tl)' /\ (Claimants(tl) \subseteq nsClaimants)'
    BY <1>1, <1>5 DEF Spread
  <2>2. \A s \in Shallowest(Spanned(tl)) : IsPrefix(tl, s)
    BY DEF Shallowest, Spanned, ConflictedRoots, IsStrictPrefix
  <2>3. (\A s \in Shallowest(Spanned(tl)) :
          /\ Holds(s, HeldRoots(tl)) =>
               s \in DOMAIN projected /\ \E w \in Claimants(tl) : s \in wheels[w].regular_roots /\ projected[s] = w
          /\ ~Holds(s, HeldRoots(tl)) => s \in conflicted)'
    BY <1>1, <1>5, <2>2 DEF Spread
  <2>4. \A w, e : Bound(tl, w, e) => Bound(tl, w, e)'
    BY DEF Bound
  <2>5. (\A w \in Claimants(tl) : \A e \in Entries(w, tl) :
           \/ Within(e, Spanned(tl)) \/ Told(e)
           \/ (\A v \in Claimants(tl) : e \in Entries(v, tl) => v = w) /\ Bound(tl, w, e))'
    BY <1>1, <1>2, <1>5, <2>4 DEF Spread
  <2>6. Spread(tl)'
    BY <2>1, <2>3, <2>5 DEF Spread
  <2> QED
    BY <2>6 DEF Settled
<1> QED
  BY <1>3, <1>4, <1>5 DEF Settled

\* Resolving a top level changes nothing outside of it.
LEMMA ResolveKeeps ==
  ASSUME TopInv, RangeInv, NEW tl \in pending, ResolveTopLevel(tl)
  PROVE  /\ UNCHANGED wheels /\ nsClaimants \subseteq nsClaimants' /\ collisions \subseteq collisions'
         /\ conflicted \subseteq conflicted'
         /\ \A r \in conflicted' : r \in conflicted \/ (AllNs(tl) /\ r \in Spanned(tl))
         /\ \A p \in DOMAIN projected : ~IsPrefix(tl, p) => p \in DOMAIN projected' /\ projected'[p] = projected[p]
<1> DEFINE S == Claimants(tl)
           below(new) == \A p \in DOMAIN new : IsPrefix(tl, p)
           beside == \A p \in DOMAIN projected : ~IsPrefix(tl, p) => p \in DOMAIN projected' /\ projected'[p] = projected[p]
<1>1. wheels' = wheels
  BY DEF ResolveTopLevel
<1>2. wheels \in WheelSets /\ S \subseteq Wheel /\ tl \in PlainPaths /\ tl \in Paths
  BY DEF TopInv, PlainPaths, Claimants
<1>3. IsPrefix(tl, tl)
  BY <1>2, PrefixOrder
<1>4. ASSUME NEW d, NEW new, below(new)
      PROVE  \A p \in DOMAIN d : ~IsPrefix(tl, p) => p \in DOMAIN Updated(d, new) /\ Updated(d, new)[p] = d[p]
  BY <1>4 DEF Updated
<1>5. ASSUME NEW w PROVE below([p \in {tl} |-> w])
  BY <1>3
<1>6. ASSUME NEW with \in SUBSET Wheel, NEW exclude, NEW owner, below(owner)
      PROVE  below(Collapse(owner, with, tl, exclude))
  <2> TAKE p \in DOMAIN Collapse(owner, with, tl, exclude)
  <2> DEFINE result == Collapse(owner, with, tl, exclude)
  <2>0. \/ p \in DOMAIN owner /\ result[p] = owner[p]
        \/ result[p] \in with /\ \A w \in with : p \in NsDirs(w, tl) <=> w = result[p]
    BY <1>2, CollapseIs
  <2> HIDE DEF result
  <2>1. p \in DOMAIN owner \/ \E w \in with : p \in NsDirs(w, tl)
    BY <2>0
  <2> QED
    BY <1>6, <2>1 DEF NsDirs
<1>7. \A X \in SUBSET Wheel : \A exclude : below(EntryOwner(X, tl, exclude))
  BY DEF EntryOwner, Entries
<1> DEFINE Goal == /\ nsClaimants \subseteq nsClaimants' /\ collisions \subseteq collisions'
                   /\ conflicted \subseteq conflicted'
                   /\ \A r \in conflicted' : r \in conflicted \/ (AllNs(tl) /\ r \in Spanned(tl))
                   /\ beside
<1>8. ASSUME /\ projected' = Updated(projected, [p \in {tl} |-> LastOf(S)])
           /\ UNCHANGED <<nsClaimants, conflicted>> /\ collisions \subseteq collisions'
      PROVE  Goal
  <2> DEFINE new == [p \in {tl} |-> LastOf(S)]
  <2>1. below(new)
    BY <1>5
  <2> HIDE DEF new, below
  <2>2. projected' = Updated(projected, new)
    BY <1>8 DEF new
  <2>3. beside
    BY <1>4, <2>1, <2>2
  <2> QED
    BY <1>8, <2>3
<1>9. ASSUME /\ ResolvePureNamespace(tl, S) /\ nsClaimants' = nsClaimants \cup S
      PROVE  Goal
  <2> DEFINE with == S \ {w \in S : Entries(w, tl) = {}}
             claimed == EntryOwner(with, tl, {})
             owner == [e \in DOMAIN claimed \ Nested(claimed) |-> claimed[e]]
             new == Collapse(owner, with, tl, {})
  <2>1. projected' = Updated(projected, new) /\ UNCHANGED conflicted /\ collisions \subseteq collisions'
    <3>1. projected' = Updated(projected, new)
      BY <1>9, Zenon DEF ResolvePureNamespace
    <3>2. UNCHANGED conflicted
      BY <1>9, Zenon DEF ResolvePureNamespace
    <3>3. collisions \subseteq collisions'
      BY <1>9, Zenon DEF ResolvePureNamespace
    <3> QED
      BY <3>1, <3>2, <3>3
  <2>2. with \subseteq Wheel
    BY <1>2
  <2> HIDE DEF with
  <2>3. below(owner)
    BY <1>7, <2>2
  <2> HIDE DEF owner, claimed
  <2>4. below(new)
    BY <1>6, <2>2, <2>3
  <2> HIDE DEF new, below
  <2>5. beside
    BY <1>4, <2>1, <2>4
  <2> QED
    BY <1>9, <2>1, <2>5
<1>10. ASSUME ResolveSpan(tl, S, ConflictedRoots(tl, S)) /\ nsClaimants' = nsClaimants \cup S /\ AllNs(tl)
      PROVE  Goal
  <2> DEFINE roots == ConflictedRoots(tl, S)
             native == NativeConflicted(roots, S)
             winner == [r \in native |-> LastOf({w \in S : r \in wheels[w].regular_roots})]
             with == S \ {w \in S : Entries(w, tl) = {}}
             owner == EntryOwner(with, tl, roots)
             new == Collapse(owner, with, tl, roots)
  <2>1. /\ projected' = Updated(Updated(projected, winner), new)
        /\ conflicted' = conflicted \cup {r \in roots : ~Within(r, native)}
        /\ collisions \subseteq collisions'
    <3>1. projected' = Updated(Updated(projected, winner), new)
      BY <1>10, Zenon DEF ResolveSpan
    <3>2. conflicted' = conflicted \cup {r \in roots : ~Within(r, native)}
      BY <1>10, Zenon DEF ResolveSpan
    <3>3. collisions \subseteq collisions'
      BY <1>10, Zenon DEF ResolveSpan
    <3> QED
      BY <3>1, <3>2, <3>3
  <2>2. with \subseteq Wheel
    BY <1>2
  <2>3. roots = Spanned(tl) /\ \A r \in roots : IsPrefix(tl, r)
    BY DEF Spanned, ConflictedRoots, IsStrictPrefix
  <2>4. native \subseteq roots
    BY DEF NativeConflicted, Shallowest
  <2>5. below(winner)
    BY <2>3, <2>4
  <2> HIDE DEF with, winner, native, roots
  <2>6. below(owner)
    BY <1>7, <2>2
  <2> HIDE DEF owner
  <2>7. below(new)
    BY <1>6, <2>2, <2>6
  <2> HIDE DEF new, below
  <2> DEFINE middle == Updated(projected, winner)
  <2>8. \A p \in DOMAIN projected : ~IsPrefix(tl, p) => p \in DOMAIN middle /\ middle[p] = projected[p]
    BY <1>4, <2>5
  <2>9. \A p \in DOMAIN middle : ~IsPrefix(tl, p) =>
          p \in DOMAIN Updated(middle, new) /\ Updated(middle, new)[p] = middle[p]
    BY <1>4, <2>7
  <2>10. projected' = Updated(middle, new)
    BY <2>1
  <2> HIDE DEF middle
  <2>11. beside
    BY <2>8, <2>9, <2>10
  <2> QED
    BY <1>10, <2>1, <2>3, <2>11
<1>11. ASSUME ResolveDirectories(tl, S)
      PROVE  Goal
  <2>1. UNCHANGED <<nsClaimants, conflicted>> /\ collisions \subseteq collisions'
    BY <1>11, Zenon DEF ResolveDirectories
  <2>2. UNCHANGED projected \/ \E w : projected' = Updated(projected, [p \in {tl} |-> w])
    BY <1>11, Zenon DEF ResolveDirectories
  <2>3. beside
    <3>1. CASE UNCHANGED projected
      BY <3>1
    <3>2. CASE \E w : projected' = Updated(projected, [p \in {tl} |-> w])
      <4>1. PICK w : projected' = Updated(projected, [p \in {tl} |-> w])
        BY <3>2
      <4> DEFINE new == [p \in {tl} |-> w]
      <4>2. below(new)
        BY <1>5
      <4> HIDE DEF new, below
      <4>3. projected' = Updated(projected, new)
        BY <4>1 DEF new
      <4> QED
        BY <1>4, <4>2, <4>3
    <3> QED
      BY <2>2, <3>1, <3>2
  <2> QED
    BY <2>1, <2>3
<1>12. \/ /\ projected' = Updated(projected, [p \in {tl} |-> LastOf(S)])
          /\ UNCHANGED <<nsClaimants, conflicted>> /\ collisions \subseteq collisions'
       \/ ResolvePureNamespace(tl, S) /\ nsClaimants' = nsClaimants \cup S
       \/ ResolveSpan(tl, S, ConflictedRoots(tl, S)) /\ nsClaimants' = nsClaimants \cup S /\ AllNs(tl)
       \/ ResolveDirectories(tl, S)
  BY DEF ResolveTopLevel, ResolveNamespace, ResolveModule, AllNs
<1> HIDE DEF beside, below, S
<1>13. Goal
  BY <1>8, <1>9, <1>10, <1>11, <1>12
<1> QED
  BY <1>1, <1>13 DEF beside

LEMMA SeveralClaim ==
  ASSUME wheels \in WheelSets, NEW S \in SUBSET Wheel, S # {}
  PROVE  \/ \E w : S = {w} /\ LastOf(S) = w
         \/ Cardinality(S) # 1 /\ \E x, y \in S : x # y
<1>1. IsFiniteSet(S) /\ LastOf(S) \in S
  BY WheelsFinite
<1>2. CASE \E x, y \in S : x # y
  <2>1. Cardinality(S) # 1
    BY <1>1, <1>2, FS_Singleton
  <2> QED
    BY <1>2, <2>1
<1>3. CASE ~ \E x, y \in S : x # y
  BY <1>1, <1>3
<1> QED
  BY <1>2, <1>3

\* With a RECORD, every wheel of a namespace has an entry in it.
LEMMA EntriesThere ==
  ASSUME wheels \in WheelSets, Sound, NEW tl \in PlainPaths, Len(tl) = 1, AllNs(tl)
  PROVE  {w \in Claimants(tl) : Entries(w, tl) = {}} = {}
<1> SUFFICES ASSUME NEW w \in Claimants(tl) PROVE Entries(w, tl) # {}
  OBVIOUS
<1>1. w \in Wheel /\ tl \in Paths /\ Described(w) /\ IsNs(w, tl)
  BY SpanFrame DEF AllNs
<1>2. PICK f \in wheels[w].files : IsPrefix(tl, f)
  BY <1>1, TopLevelsAre DEF Claimants
<1> QED
  BY <1>1, <1>2, EntryFor

\* What the pass over the entries leaves behind.
LEMMA EntriesSettle ==
  ASSUME wheels \in WheelSets, Sound, NEW tl \in PlainPaths, Len(tl) = 1, AllNs(tl), UNCHANGED wheels,
         NEW owner, owner = EntryOwner(Claimants(tl), tl, Spanned(tl)),
         NEW new, new = Collapse(owner, Claimants(tl), tl, Spanned(tl)),
         \A p \in DOMAIN new : p \in DOMAIN projected' /\ projected'[p] = new[p],
         EntryReports(owner, Claimants(tl), tl) \subseteq collisions'
  PROVE  \A w \in Claimants(tl) : \A e \in Entries(w, tl) :
           \/ Within(e, Spanned(tl)) \/ Told(e)'
           \/ (\A v \in Claimants(tl) : e \in Entries(v, tl) => v = w) /\ Bound(tl, w, e)'
<1> TAKE w \in Claimants(tl)
<1> TAKE e \in Entries(w, tl)
<1> SUFFICES ASSUME ~Within(e, Spanned(tl))
             PROVE  \/ Told(e)'
                    \/ (\A v \in Claimants(tl) : e \in Entries(v, tl) => v = w) /\ Bound(tl, w, e)'
  OBVIOUS
<1>1. \/ \E c \in EntryReports(owner, Claimants(tl), tl) : c[1] = e
      \/ /\ \A v \in Claimants(tl) : e \in Entries(v, tl) => v = w
         /\ \E p \in DOMAIN new : IsPrefix(tl, p) /\ IsPrefix(p, e) /\ new[p] = w
  BY EntrySettled
<1>2. CASE \E c \in EntryReports(owner, Claimants(tl), tl) : c[1] = e
  BY <1>2 DEF Told
<1>3. CASE /\ \A v \in Claimants(tl) : e \in Entries(v, tl) => v = w
           /\ \E p \in DOMAIN new : IsPrefix(tl, p) /\ IsPrefix(p, e) /\ new[p] = w
  BY <1>3 DEF Bound
<1> QED
  BY <1>1, <1>2, <1>3

LEMMA SpanSettles ==
  ASSUME wheels \in WheelSets, Sound, NEW tl \in PlainPaths, Len(tl) = 1, AllNs(tl),
         UNCHANGED wheels, nsClaimants' = nsClaimants \cup Claimants(tl),
         ResolveSpan(tl, Claimants(tl), Spanned(tl))
  PROVE  Spread(tl)'
<1> DEFINE S == Claimants(tl)
           roots == Spanned(tl)
           held == HeldRoots(tl)
           native == NativeConflicted(roots, S)
           having(r) == {w \in S : r \in wheels[w].regular_roots}
           winner == [r \in native |-> LastOf(having(r))]
           owner == EntryOwner(S, tl, roots)
           new == Collapse(owner, S, tl, roots)
<1>1. /\ tl \in Paths /\ S \subseteq Wheel /\ roots \subseteq Paths /\ roots \in SUBSET Paths
      /\ \A u, v \in S : Described(u) /\ Dirs(wheels[v].files) \cap wheels[u].files = {}
      /\ \A r \in roots : \E v \in S : r \in wheels[v].regular_roots
  BY SpanFrame
<1>2. S \ {w \in S : Entries(w, tl) = {}} = S
  BY EntriesThere
<1>3. /\ conflicted' = conflicted \cup {r \in roots : ~Within(r, native)}
      /\ projected' = Updated(Updated(projected, winner), new)
      /\ EntryReports(owner, S, tl) \subseteq collisions'
  <2> DEFINE with == S \ {w \in S : Entries(w, tl) = {}}
             owned == EntryOwner(with, tl, roots)
  <2>1. conflicted' = conflicted \cup {r \in roots : ~Within(r, native)}
    BY Zenon DEF ResolveSpan
  <2>2. projected' = Updated(Updated(projected, winner), Collapse(owned, with, tl, roots))
    BY Zenon DEF ResolveSpan
  <2>3. EntryReports(owned, with, tl) \subseteq collisions'
    BY Zenon DEF ResolveSpan
  <2>4. with = S
    BY <1>2
  <2>5. owned = owner
    BY <2>4
  <2> HIDE DEF with, owned, owner, winner, native, roots, S
  <2> QED
    BY <2>1, <2>2, <2>3, <2>4, <2>5
<1>4. /\ DOMAIN owner \subseteq PlainPaths /\ Antichain(DOMAIN owner) /\ Apart(DOMAIN owner, roots)
      /\ \A e \in DOMAIN owner : IsPrefix(tl, e)
  BY <1>1, EntriesApart DEF AllNs, Spanned
<1>5. Apart(DOMAIN new, roots)
  BY <1>1, <1>4, CollapseApart
<1>6. native = Shallowest({r \in roots : Holds(r, held)})
  BY Zenon DEF NativeConflicted, HeldRoots
<1>7. \A s \in native : having(s) # {} /\ s \in roots
  BY <1>1, <1>6 DEF Shallowest
<1>8. \A s \in native : winner[s] \in S /\ s \in wheels[winner[s]].regular_roots
  <2> TAKE s \in native
  <2>1. having(s) \subseteq Wheel /\ having(s) # {}
    BY <1>1, <1>7
  <2>2. winner[s] = LastOf(having(s))
    OBVIOUS
  <2>3. LastOf(having(s)) \in having(s)
    <3> DEFINE X == having(s)
    <3>1. X \in SUBSET Wheel /\ X # {}
      BY <2>1
    <3> HIDE DEF X
    <3>2. LastOf(X) \in X
      BY <3>1, WheelsFinite
    <3> QED
      BY <3>2 DEF X
  <2> HIDE DEF winner
  <2> QED
    BY <2>2, <2>3
<1>9. DOMAIN winner = native
  OBVIOUS
<1>10. \A w \in S : \A e \in Entries(w, tl) :
           \/ Within(e, Spanned(tl)) \/ Told(e)'
           \/ (\A v \in S : e \in Entries(v, tl) => v = w) /\ Bound(tl, w, e)'
  <2>1. \A p \in DOMAIN new : p \in DOMAIN projected' /\ projected'[p] = new[p]
    <3> HIDE DEF new, winner
    <3> QED
      BY <1>3 DEF Updated
  <2> HIDE DEF new, owner
  <2> QED
    BY <1>3, <2>1, EntriesSettle DEF new, owner
<1> HIDE DEF winner, having, owner, new
<1>11. \A s \in native : s \in DOMAIN projected' /\ projected'[s] = winner[s]
  <2> TAKE s \in native
  <2>1. s \notin DOMAIN new
    BY <1>1, <1>5, <1>7, PrefixOrder DEF Apart
  <2> QED
    BY <1>3, <1>9, <2>1 DEF Updated
<1> HIDE DEF native
<1>12. ASSUME NEW s \in Shallowest(roots)
       PROVE  /\ Holds(s, held) => s \in DOMAIN projected' /\ \E w \in S : s \in wheels[w].regular_roots /\ projected'[s] = w
              /\ ~Holds(s, held) => s \in conflicted'
  <2>1. s \in roots /\ \A q \in roots : ~IsStrictPrefix(q, s)
    BY DEF Shallowest
  <2>2. CASE Holds(s, held)
    <3>1. s \in native
      BY <1>6, <2>1, <2>2 DEF Shallowest
    <3> QED
      BY <1>8, <1>11, <2>2, <3>1
  <2>3. CASE ~Holds(s, held)
    <3>1. ~Within(s, native)
      <4> SUFFICES ASSUME NEW r \in native, IsPrefix(r, s) PROVE FALSE
        BY DEF Within
      <4>1. r \in roots /\ Holds(r, held)
        BY <1>6 DEF Shallowest
      <4>2. r = s
        BY <2>1, <4>1 DEF IsStrictPrefix
      <4> QED
        BY <2>3, <4>1, <4>2
    <3> QED
      BY <1>3, <2>1, <2>3, <3>1
  <2> QED
    BY <2>2, <2>3
<1>13. /\ Claimants(tl)' = S /\ Spanned(tl)' = roots /\ HeldRoots(tl)' = held /\ AllNs(tl)' = AllNs(tl)
       /\ \A w : Entries(w, tl)' = Entries(w, tl)
  BY LayoutStays
<1>14. (\A s \in Shallowest(Spanned(tl)) :
          /\ Holds(s, HeldRoots(tl)) =>
               s \in DOMAIN projected /\ \E w \in Claimants(tl) : s \in wheels[w].regular_roots /\ projected[s] = w
          /\ ~Holds(s, HeldRoots(tl)) => s \in conflicted)'
  BY <1>12, <1>13
<1>15. (\A w \in Claimants(tl) : \A e \in Entries(w, tl) :
           \/ Within(e, Spanned(tl)) \/ Told(e)
           \/ (\A v \in Claimants(tl) : e \in Entries(v, tl) => v = w) /\ Bound(tl, w, e))'
  BY <1>10, <1>13
<1>16. (AllNs(tl) /\ Claimants(tl) \subseteq nsClaimants)'
  BY <1>13
<1> QED
  BY <1>14, <1>15, <1>16 DEF Spread

LEMMA PureSettles ==
  ASSUME wheels \in WheelSets, Sound, NEW tl \in PlainPaths, Len(tl) = 1, AllNs(tl), Spanned(tl) = {},
         UNCHANGED wheels, nsClaimants' = nsClaimants \cup Claimants(tl),
         ResolvePureNamespace(tl, Claimants(tl))
  PROVE  Spread(tl)'
<1> DEFINE S == Claimants(tl)
           owner == EntryOwner(S, tl, {})
           new == Collapse(owner, S, tl, {})
<1>1. /\ tl \in Paths /\ S \subseteq Wheel
      /\ \A u, v \in S : Described(u) /\ Dirs(wheels[v].files) \cap wheels[u].files = {}
  BY SpanFrame
<1>2. S \ {w \in S : Entries(w, tl) = {}} = S
  BY EntriesThere
<1>3. Antichain(DOMAIN owner)
  BY <1>1, EntriesApart DEF AllNs, Spanned
<1>4. Nested(owner) = {}
  BY <1>3 DEF Nested, Shallowest, Antichain, IsStrictPrefix
<1>5. projected' = Updated(projected, new) /\ EntryReports(owner, S, tl) \subseteq collisions'
  <2> DEFINE with == S \ {w \in S : Entries(w, tl) = {}}
             claimed == EntryOwner(with, tl, {})
             owned == [e \in DOMAIN claimed \ Nested(claimed) |-> claimed[e]]
  <2>1. projected' = Updated(projected, Collapse(owned, with, tl, {}))
    BY Zenon DEF ResolvePureNamespace
  <2>2. EntryReports(claimed, with, tl) \subseteq collisions'
    BY Zenon DEF ResolvePureNamespace
  <2>3. with = S
    BY <1>2
  <2>4. claimed = owner
    BY <2>3
  <2>5. owner = [e \in DOMAIN owner |-> owner[e]]
    BY DEF EntryOwner
  <2> HIDE DEF with, claimed, owner, S
  <2>6. DOMAIN owner \ Nested(owner) = DOMAIN owner
    BY <1>4
  <2>7. owned = owner
    BY <2>4, <2>5, <2>6
  <2> HIDE DEF owned
  <2> QED
    BY <2>1, <2>2, <2>3, <2>4, <2>7
<1>6. \A w \in S : \A e \in Entries(w, tl) :
           \/ Within(e, Spanned(tl)) \/ Told(e)'
           \/ (\A v \in S : e \in Entries(v, tl) => v = w) /\ Bound(tl, w, e)'
  <2> HIDE DEF new
  <2>1. \A p \in DOMAIN new : p \in DOMAIN projected' /\ projected'[p] = new[p]
    BY <1>5 DEF Updated
  <2> HIDE DEF owner
  <2>2. owner = EntryOwner(S, tl, Spanned(tl)) /\ new = Collapse(owner, S, tl, Spanned(tl))
    BY DEF new, owner
  <2> QED
    BY <1>5, <2>1, <2>2, EntriesSettle
<1>7. /\ Claimants(tl)' = S /\ Spanned(tl)' = {} /\ AllNs(tl)' = AllNs(tl)
      /\ \A w : Entries(w, tl)' = Entries(w, tl)
  BY LayoutStays
<1>8. (\A s \in Shallowest(Spanned(tl)) :
          /\ Holds(s, HeldRoots(tl)) =>
               s \in DOMAIN projected /\ \E w \in Claimants(tl) : s \in wheels[w].regular_roots /\ projected[s] = w
          /\ ~Holds(s, HeldRoots(tl)) => s \in conflicted)'
  BY <1>7 DEF Shallowest
<1>9. (\A w \in Claimants(tl) : \A e \in Entries(w, tl) :
           \/ Within(e, Spanned(tl)) \/ Told(e)
           \/ (\A v \in Claimants(tl) : e \in Entries(v, tl) => v = w) /\ Bound(tl, w, e))'
  BY <1>6, <1>7
<1>10. (AllNs(tl) /\ Claimants(tl) \subseteq nsClaimants)'
  BY <1>7
<1> QED
  BY <1>8, <1>9, <1>10 DEF Spread

\* A top level that was resolved is settled.
LEMMA ResolveSettles ==
  ASSUME TopInv, RangeInv, Sound, NEW tl \in pending, ResolveTopLevel(tl)
  PROVE  Settled(tl)'
<1> DEFINE S == Claimants(tl)
<1>1. /\ wheels \in WheelSets /\ UNCHANGED wheels /\ S \in SUBSET Wheel /\ S # {}
      /\ tl \in PlainPaths /\ Len(tl) = 1 /\ Spanned(tl) = ConflictedRoots(tl, S)
  <2>1. wheels \in WheelSets /\ UNCHANGED wheels /\ S \in SUBSET Wheel /\ S # {} /\ tl \in PlainPaths
    BY DEF TopInv, RangeInv, Claimants, ResolveTopLevel
  <2> QED
    BY <2>1, TopLevelsAre DEF Claimants, Spanned
<1>2. Claimants(tl)' = S
  BY <1>1, LayoutStays
<1>3. CASE Cardinality(S) = 1
  <2>1. projected' = Updated(projected, [p \in {tl} |-> LastOf(S)])
    BY <1>3, Zenon DEF ResolveTopLevel
  <2>2. PICK w : S = {w} /\ LastOf(S) = w
    BY <1>1, <1>3, SeveralClaim
  <2>3. tl \in DOMAIN projected' /\ projected'[tl] = w
    BY <2>1, <2>2 DEF Updated
  <2> QED
    BY <1>2, <2>2, <2>3 DEF Settled
<1>4. CASE Cardinality(S) # 1
  <2>1. PICK x \in S : \E y \in S : x # y
    BY <1>1, <1>4, SeveralClaim, FS_Singleton
  <2>2. PICK y \in S : x # y
    BY <2>1
  <2>3. \/ ResolveNamespace(tl, S)
        \/ ResolveDirectories(tl, S) \/ ResolveModule(tl, S)
    BY <1>4, Zenon DEF ResolveTopLevel
  <2>4. CASE ResolveDirectories(tl, S) \/ ResolveModule(tl, S)
    <3>1. collisions' = collisions \cup Chain(tl, S)
      BY <2>4, Zenon DEF ResolveDirectories, ResolveModule
    <3>2. \E c \in Chain(tl, S) : c[1] = tl
      BY <1>1, <2>1, <2>2, ChainTells
    <3>3. Told(tl)'
      BY <3>1, <3>2 DEF Told
    <3> QED
      BY <3>3 DEF Settled
  <2>5. CASE ResolveNamespace(tl, S)
    <3>1. AllNs(tl) /\ nsClaimants' = nsClaimants \cup S
      BY <2>5, Zenon DEF ResolveNamespace, AllNs
    <3>2. IF Spanned(tl) = {} THEN ResolvePureNamespace(tl, S) ELSE ResolveSpan(tl, S, Spanned(tl))
      BY <2>5, Zenon DEF ResolveNamespace, Spanned
    <3>3. Spread(tl)'
      BY <1>1, <3>1, <3>2, PureSettles, SpanSettles
    <3> QED
      BY <3>3 DEF Settled
  <2> QED
    BY <2>3, <2>4, <2>5
<1> QED
  BY <1>3, <1>4

LEMMA FoundInvInit == VenvInit => FoundInv
<1> SUFFICES ASSUME VenvInit PROVE FoundInv
  OBVIOUS
<1>1. /\ stage = "resolve" /\ conflicted = {}
      /\ pending = {tl \in UNION {wheels[w].top_levels : w \in Wheel} : ~IsMetadata(tl)}
  BY DEF VenvInit, Init
<1>2. \A tl \in Tops \cap PlainPaths : tl \in pending
  BY <1>1 DEF Tops, PlainPaths, IsMetadata
<1> QED
  BY <1>1, <1>2 DEF FoundInv

LEMMA ResolveTopLevelFound ==
  ASSUME TopInv, RangeInv, FoundInv, NEW tl \in pending, ResolveTopLevel(tl)
  PROVE  FoundInv'
<1>1. /\ UNCHANGED <<wheels, stage>> /\ stage = "resolve" /\ pending' = pending \ {tl}
      /\ wheels \in WheelSets /\ tl \in PlainPaths /\ tl \in Tops
      /\ DOMAIN projected \subseteq Paths
  BY DEF ResolveTopLevel, TopInv, RangeInv, PlainPaths, Tops
<1>2. /\ nsClaimants \subseteq nsClaimants' /\ collisions \subseteq collisions'
      /\ conflicted \subseteq conflicted'
      /\ \A r \in conflicted' : r \in conflicted \/ (AllNs(tl) /\ r \in Spanned(tl))
      /\ \A p \in DOMAIN projected : ~IsPrefix(tl, p) => p \in DOMAIN projected' /\ projected'[p] = projected[p]
  BY ResolveKeeps
<1>3. /\ Sound' = Sound /\ Tops' = Tops /\ Names' = Names
      /\ \A t : /\ Claimants(t)' = Claimants(t) /\ Spanned(t)' = Spanned(t)
                    /\ HeldRoots(t)' = HeldRoots(t) /\ AllNs(t)' = AllNs(t)
  BY <1>1, LayoutStays
<1>4. \A t \in Tops \cap PlainPaths : t \in Paths /\ Len(t) = 1
  BY <1>1, TopLevelsAre DEF Tops
<1>5. ASSUME Sound, NEW t \in Tops \cap PlainPaths, t \notin pending'
      PROVE  Settled(t)'
  <2>1. CASE t = tl
    BY <1>5, <2>1, ResolveSettles
  <2>2. CASE t # tl
    <3>1. Settled(t)
      BY <1>1, <1>5, <2>2 DEF FoundInv
    <3>2. \A p \in DOMAIN projected : IsPrefix(t, p) => ~IsPrefix(tl, p)
      BY <1>1, <1>4, <2>2, TopLevelOf
    <3> QED
      BY <1>1, <1>2, <1>4, <3>1, <3>2, SettledStays
  <2> QED
    BY <2>1, <2>2
<1>6. (\A r \in conflicted : \E t \in Tops \cap PlainPaths : AllNs(t) /\ r \in Spanned(t))'
  <2>1. \A r \in conflicted' : \E t \in Tops \cap PlainPaths : AllNs(t) /\ r \in Spanned(t)
    BY <1>1, <1>2 DEF FoundInv
  <2> QED
    BY <1>3, <2>1
<1>7. (Sound => \A t \in Tops \cap PlainPaths : t \in pending \/ Settled(t))'
  BY <1>3, <1>5
<1>8. stage' = "resolve"
  BY <1>1
<1> QED
  BY <1>6, <1>7, <1>8 DEF FoundInv

LEMMA FoldMergeGroupsFound ==
  ASSUME TopInv, RangeInv, FoundInv, FoldMergeGroups
  PROVE  FoundInv'
<1> DEFINE roots == {r \in Shallowest(conflicted) : Cardinality(Contributors(r)) >= 2}
<1>1. /\ UNCHANGED <<wheels, pending, projected, conflicted, nsClaimants, collisions>>
      /\ pending = {} /\ stage' = "metadata"
      /\ mergeGroups' = Updated(mergeGroups, [r \in roots |-> InOrder(Contributors(r))])
  BY DEF FoldMergeGroups
<1>2. /\ Sound' = Sound /\ Tops' = Tops
      /\ \A t : AllNs(t)' = AllNs(t) /\ Spanned(t)' = Spanned(t)
  BY <1>1, LayoutStays
<1>3. \A r : Contributors(r)' = Contributors(r) /\ InOrder(Contributors(r))' = InOrder(Contributors(r))
  BY <1>1 DEF Contributors, InOrder
<1>4. \A r \in roots : r \in DOMAIN mergeGroups' /\ mergeGroups'[r] = InOrder(Contributors(r))
  BY <1>1 DEF Updated
<1>5. (\A r \in Shallowest(conflicted) : Cardinality(Contributors(r)) >= 2 =>
            r \in DOMAIN mergeGroups /\ mergeGroups[r] = InOrder(Contributors(r)))'
  <2>1. Shallowest(conflicted)' = Shallowest(conflicted)
    BY <1>1
  <2> QED
    BY <1>3, <1>4, <2>1
<1>6. \A t \in Tops \cap PlainPaths : Settled(t) => Settled(t)'
  <2> TAKE t \in Tops \cap PlainPaths
  <2>1. t \in Paths
    BY DEF PlainPaths
  <2> QED
    BY <1>1, <2>1, SettledStays
<1>7. (Sound => \A t \in Tops \cap PlainPaths : t \in pending \/ Settled(t))'
  BY <1>1, <1>2, <1>6 DEF FoundInv
<1>8. (\A r \in conflicted : \E t \in Tops \cap PlainPaths : AllNs(t) /\ r \in Spanned(t))'
  BY <1>1, <1>2 DEF FoundInv
<1>9. stage' # "done"
  BY <1>1
<1> QED
  BY <1>1, <1>5, <1>7, <1>8, <1>9 DEF FoundInv

LEMMA ResolveMetadataFound ==
  ASSUME TopInv, RangeInv, FoundInv, ResolveMetadata
  PROVE  FoundInv'
<1> DEFINE bound == [t \in Won |-> LastOf(Claimants(t))]
<1>1. /\ UNCHANGED <<wheels, pending, conflicted, nsClaimants, mergeGroups>>
      /\ stage = "metadata"
      /\ UNCHANGED projected \/ projected' = Updated(projected, bound)
      /\ collisions \subseteq collisions'
      /\ stage' = "done" => UNION {Chain(t, Claimants(t)) : t \in Names} \subseteq collisions'
  <2>1. UNCHANGED <<wheels, pending, conflicted, nsClaimants, mergeGroups>> /\ stage = "metadata"
    BY DEF ResolveMetadata
  <2>2. UNCHANGED projected \/ projected' = Updated(projected, bound)
    BY Zenon DEF ResolveMetadata, Names, Won
  <2>3. \/ stage' = "failed" /\ UNCHANGED collisions
        \/ stage' = "done" /\ collisions' = collisions \cup UNION {Chain(t, Claimants(t)) : t \in Names}
    BY Zenon DEF ResolveMetadata, Names
  <2> HIDE DEF bound
  <2> QED
    BY <2>1, <2>2, <2>3
<1>2. /\ Sound' = Sound /\ Tops' = Tops /\ Names' = Names
      /\ \A t : /\ Claimants(t)' = Claimants(t) /\ Spanned(t)' = Spanned(t)
                /\ AllNs(t)' = AllNs(t)
  BY <1>1, LayoutStays
<1>3. \A p \in DOMAIN projected : p \in DOMAIN projected' /\ projected'[p] = projected[p]
  <2>1. \A p \in DOMAIN projected : p \notin Won
    BY <1>1 DEF TopInv, PlainPaths, Won, Names, IsMetadata
  <2>2. DOMAIN bound = Won
    OBVIOUS
  <2> HIDE DEF bound
  <2> QED
    BY <1>1, <2>1, <2>2 DEF Updated
<1>4. \A t \in Tops \cap PlainPaths : Settled(t) => Settled(t)'
  <2> TAKE t \in Tops \cap PlainPaths
  <2>1. t \in Paths
    BY DEF PlainPaths
  <2> HIDE DEF bound
  <2> QED
    BY <1>1, <1>3, <2>1, SettledStays
<1>5. (Sound => \A t \in Tops \cap PlainPaths : t \in pending \/ Settled(t))'
  BY <1>1, <1>2, <1>4 DEF FoundInv
<1>6. (\A r \in conflicted : \E t \in Tops \cap PlainPaths : AllNs(t) /\ r \in Spanned(t))'
  BY <1>1, <1>2 DEF FoundInv
<1>7. (/\ pending = {}
       /\ \A r \in Shallowest(conflicted) : Cardinality(Contributors(r)) >= 2 =>
            r \in DOMAIN mergeGroups /\ mergeGroups[r] = InOrder(Contributors(r)))'
  <2>1. \A r : Contributors(r)' = Contributors(r) /\ InOrder(Contributors(r))' = InOrder(Contributors(r))
    BY <1>1 DEF Contributors, InOrder
  <2>2. Shallowest(conflicted)' = Shallowest(conflicted)
    BY <1>1
  <2>3. /\ pending = {}
        /\ \A r \in Shallowest(conflicted) : Cardinality(Contributors(r)) >= 2 =>
            r \in DOMAIN mergeGroups /\ mergeGroups[r] = InOrder(Contributors(r))
    BY <1>1 DEF FoundInv
  <2> HIDE DEF bound
  <2> QED
    BY <1>1, <2>1, <2>2, <2>3
<1>8. (stage = "done" => \A t \in Names : (\E w : Claimants(t) = {w}) \/ Told(t))'
  <2> SUFFICES ASSUME stage' = "done", NEW t \in Names
               PROVE  (\E w : Claimants(t) = {w}) \/ Told(t)'
    BY <1>2
  <2> DEFINE S == Claimants(t)
  <2>1. wheels \in WheelSets /\ S \in SUBSET Wheel /\ S # {}
    BY DEF TopInv, Names, Claimants
  <2> HIDE DEF S
  <2>2. CASE \E w : S = {w}
    BY <2>2 DEF S
  <2>3. CASE \E x, y \in S : x # y
    <3>1. PICK c \in Chain(t, S) : c[1] = t
      BY <2>1, <2>3, ChainTells
    <3>2. c \in collisions'
      BY <1>1, <3>1 DEF S
    <3> QED
      BY <3>1, <3>2 DEF Told
  <2> QED
    BY <2>1, <2>2, <2>3, SeveralClaim
<1> QED
  BY <1>5, <1>6, <1>7, <1>8 DEF FoundInv

LEMMA FoundInvariance == VenvSpec => [](TopInv /\ RangeInv /\ OutputsInv /\ FoundInv)
<1>1. ASSUME TopInv, FoundInv, UNCHANGED vars PROVE FoundInv'
  <2>0. UNCHANGED <<wheels, pending, stage, projected, conflicted, nsClaimants, mergeGroups, collisions>>
    BY <1>1 DEF vars
  <2>1. /\ Sound' = Sound /\ Tops' = Tops /\ Names' = Names
        /\ \A t : /\ Claimants(t)' = Claimants(t) /\ Spanned(t)' = Spanned(t)
                  /\ AllNs(t)' = AllNs(t)
    BY <2>0, LayoutStays
  <2>2. \A t \in Tops \cap PlainPaths : Settled(t) => Settled(t)'
    <3> TAKE t \in Tops \cap PlainPaths
    <3>1. t \in Paths
      BY DEF PlainPaths
    <3> QED
      BY <2>0, <3>1, SettledStays
  <2>3. \A r : Contributors(r)' = Contributors(r) /\ InOrder(Contributors(r))' = InOrder(Contributors(r))
    BY <2>0 DEF Contributors, InOrder
  <2>4. Shallowest(conflicted)' = Shallowest(conflicted) /\ \A t : Told(t)' = Told(t)
    BY <2>0 DEF Told
  <2>5. (Sound => \A t \in Tops \cap PlainPaths : t \in pending \/ Settled(t))'
    BY <1>1, <2>0, <2>1, <2>2 DEF FoundInv
  <2>6. (\A r \in conflicted : \E t \in Tops \cap PlainPaths : AllNs(t) /\ r \in Spanned(t))'
    BY <1>1, <2>0, <2>1 DEF FoundInv
  <2>7. (stage # "resolve" =>
           /\ pending = {}
           /\ \A r \in Shallowest(conflicted) : Cardinality(Contributors(r)) >= 2 =>
                r \in DOMAIN mergeGroups /\ mergeGroups[r] = InOrder(Contributors(r)))'
    BY <1>1, <2>0, <2>3, <2>4 DEF FoundInv
  <2>8. (stage = "done" => \A t \in Names : (\E w : Claimants(t) = {w}) \/ Told(t))'
    BY <1>1, <2>0, <2>1, <2>4 DEF FoundInv
  <2> QED
    BY <2>5, <2>6, <2>7, <2>8 DEF FoundInv
<1>2. TopInv /\ RangeInv /\ FoundInv /\ [VenvNext \/ Terminating]_<<vars, dataVars>> => FoundInv'
  <2> SUFFICES ASSUME TopInv, RangeInv, FoundInv, [VenvNext \/ Terminating]_<<vars, dataVars>> PROVE FoundInv'
    OBVIOUS
  <2>1. CASE UNCHANGED vars
    BY <1>1, <2>1
  <2> QED
    BY <2>1, ResolveTopLevelFound, FoldMergeGroupsFound, ResolveMetadataFound DEF VenvNext, Terminating
<1> QED
  BY <1>2, FoundInvInit, OutputsInvariance, RangeInvariance, PTL DEF VenvSpec

-----------------------------------------------------------------------------
(* What is found.                                                          *)

\* An entry of sys.path stays in the search while it has the directory and no
\* earlier one has a regular package there.
LEMMA LookKeeps ==
  ASSUME wheels \in WheelSets, NEW d, Len(d) \in Nat, NEW look,
         look[0] = SysPath,
         \A n \in 1 .. Len(d) : look[n] = NextLook(SubSeq(d, 1, n), look[n - 1]),
         NEW N \in 0 .. Len(d), NEW k \in SysPath,
         \A n \in 1 .. N : HasDir(k, SubSeq(d, 1, n)),
         \A n \in 1 .. N : \A j \in SysPath :
           Provides(j, Append(SubSeq(d, 1, n), InitPy)) =>
             Provides(k, Append(SubSeq(d, 1, n), InitPy)) /\ k <= j
  PROVE  k \in look[N] /\ look[N] \subseteq SysPath
<1>1. SysPath \subseteq Nat
  BY WheelsFinite DEF SysPath
<1> DEFINE D == {n \in 0 .. N : ~ (k \in look[n] /\ look[n] \subseteq SysPath)}
<1>2. ASSUME D # {} PROVE FALSE
  <2>1. D \subseteq Nat
    OBVIOUS
  <2> HIDE DEF D
  <2>2. PICK n \in D : \A m \in D : ~ (<<m, n>> \in OpToRel(<, Nat))
    BY <1>2, <2>1, WFMin, NatLessThanWellFounded, Zenon
  <2>3. \A m \in D : ~ (m < n)
    BY <2>1, <2>2 DEF OpToRel
  <2>4. n \in 0 .. N /\ ~ (k \in look[n] /\ look[n] \subseteq SysPath)
    BY <2>2 DEF D
  <2>5. n # 0
    BY <2>4
  <2>6. n \in 1 .. N /\ n \in 1 .. Len(d) /\ n - 1 \in 0 .. N /\ n - 1 < n
    BY <2>4, <2>5
  <2> DEFINE L == look[n - 1]
             dir == SubSeq(d, 1, n)
             regular == {j \in L : Provides(j, Append(dir, InitPy))}
  <2>7. k \in L /\ L \subseteq SysPath /\ L \in SUBSET Nat
    BY <1>1, <2>3, <2>6 DEF D
  <2>8. look[n] = NextLook(dir, L)
    BY <2>6
  <2>9. /\ HasDir(k, dir)
        /\ \A j \in SysPath : Provides(j, Append(dir, InitPy)) => Provides(k, Append(dir, InitPy)) /\ k <= j
    BY <2>6
  <2> HIDE DEF L, dir
  <2>10. NextLook(dir, L) \subseteq L
    BY <2>7, NextLookIs
  <2>11. CASE regular = {}
    <3>1. NextLook(dir, L) = {j \in L : HasDir(j, dir)}
      BY <2>7, <2>11, NextLookIs
    <3> QED
      BY <2>4, <2>7, <2>8, <2>9, <2>10, <3>1
  <2>12. CASE regular # {}
    <3>1. PICK j \in regular : NextLook(dir, L) = {j} /\ \A i \in regular : j <= i
      BY <2>7, <2>12, NextLookIs
    <3>2. k \in regular /\ k <= j
      BY <2>7, <2>9, <3>1
    <3>3. j <= k /\ j \in Nat /\ k \in Nat
      BY <2>7, <3>1, <3>2
    <3>4. j = k
      BY <3>2, <3>3
    <3> QED
      BY <2>4, <2>7, <2>8, <2>10, <3>1, <3>4
  <2> QED
    BY <2>11, <2>12
<1>3. N \in 0 .. N
  OBVIOUS
<1> QED
  BY <1>2, <1>3

\* The directories above a file are those above what it lies in.
LEMMA CutFront ==
  ASSUME NEW f \in Paths
  PROVE  /\ Front(f) \in Seq(STRING) /\ Len(Front(f)) = Len(f) - 1 /\ Len(Front(f)) \in Nat
         /\ \A n \in 1 .. Len(f) - 1 :
              /\ SubSeq(Front(f), 1, n) = SubSeq(f, 1, n)
              /\ SubSeq(f, 1, n) \in Paths /\ Len(SubSeq(f, 1, n)) = n /\ IsStrictPrefix(SubSeq(f, 1, n), f)
<1>1. Len(f) \in Nat \ {0} /\ f \in Seq(STRING) /\ \A i \in 1 .. Len(f) - 1 : f[i] \in STRING
  BY DEF Paths
<1>2. 1 \in Int /\ Len(f) - 1 \in Int
  BY <1>1
<1>3. /\ Front(f) \in Seq(STRING)
      /\ Len(Front(f)) = IF 1 <= Len(f) - 1 THEN Len(f) - 1 - 1 + 1 ELSE 0
  BY <1>1, <1>2, SubSeqProperties DEF Front
<1>4. Len(Front(f)) = Len(f) - 1 /\ Len(Front(f)) \in Nat
  <2>1. \A n \in Nat \ {0} : (IF 1 <= n - 1 THEN n - 1 - 1 + 1 ELSE 0) = n - 1 /\ n - 1 \in Nat
    OBVIOUS
  <2> QED
    BY <1>1, <1>3, <2>1, Zenon
<1>5. ASSUME NEW n \in 1 .. Len(f) - 1
      PROVE  /\ SubSeq(Front(f), 1, n) = SubSeq(f, 1, n)
             /\ SubSeq(f, 1, n) \in Paths /\ Len(SubSeq(f, 1, n)) = n /\ IsStrictPrefix(SubSeq(f, 1, n), f)
  <2>1. n \in 1 .. Len(f) /\ n \in 1 .. Len(Front(f)) /\ Len(f) >= 2
    BY <1>1, <1>4
  <2>2. Front(f) \in Paths /\ IsPrefix(Front(f), f)
    BY <2>1, FrontIs DEF IsStrictPrefix
  <2> DEFINE x == SubSeq(Front(f), 1, n)
             y == SubSeq(f, 1, n)
  <2>3. x \in Paths /\ Len(x) = n /\ IsPrefix(x, Front(f))
    BY <2>1, <2>2, CutOff
  <2>4. y \in Paths /\ Len(y) = n /\ IsPrefix(y, f)
    BY <2>1, CutOff
  <2> HIDE DEF x, y
  <2>5. IsPrefix(x, f)
    BY <2>2, <2>3, PrefixOrder
  <2>6. x = y
    <3>1. x = SubSeq(f, 1, Len(x))
      BY <2>3, <2>5, AboveIsCut
    <3> QED
      BY <2>3, <3>1 DEF y
  <2>7. y # f
    <3>1. Len(y) # Len(f)
      BY <1>1, <2>4
    <3> QED
      BY <3>1, Zenon
  <2> QED
    BY <2>4, <2>6, <2>7 DEF x, y, IsStrictPrefix
<1> QED
  BY <1>3, <1>4, <1>5

\* A file is found in the first entry of sys.path that has it, if no other one
\* has an earlier regular package above it.
LEMMA FoundAt ==
  ASSUME wheels \in WheelSets, NEW f \in Paths, f \in AllFiles,
         NEW k \in SysPath, Provides(k, f), \A j \in SysPath : Provides(j, f) => k <= j,
         \A n \in 1 .. Len(f) - 1 : \A j \in SysPath :
           Provides(j, Append(SubSeq(f, 1, n), InitPy)) =>
             Provides(k, Append(SubSeq(f, 1, n), InitPy)) /\ k <= j
  PROVE  Found(f) = IF k = 0 THEN SiteFiles(f) ELSE {k}
<1>1. SysPath \subseteq Nat
  <2>1. Len(f) \in Nat
    BY DEF Paths
  <2> QED
    BY <2>1, SearchedIsOnPath
<1> DEFINE d == Front(f)
           at == {j \in SearchPath(d) : Provides(j, f)}
           first == CHOOSE j \in at : \A i \in at : j <= i
<1>2. /\ Len(d) \in Nat /\ Len(d) = Len(f) - 1
      /\ \A n \in 1 .. Len(f) - 1 : SubSeq(d, 1, n) = SubSeq(f, 1, n) /\ IsStrictPrefix(SubSeq(f, 1, n), f)
  BY CutFront
<1> HIDE DEF d, at, first
<1>3. PICK look : /\ SearchPath(d) = look[Len(d)]
                  /\ look[0] = SysPath
                  /\ \A n \in 1 .. Len(d) : look[n] = NextLook(SubSeq(d, 1, n), look[n - 1])
  BY <1>2, SearchPathIs
<1>4. \A n \in 1 .. Len(d) : HasDir(k, SubSeq(d, 1, n))
  BY <1>2 DEF HasDir
<1>5. \A n \in 1 .. Len(d) : \A j \in SysPath :
           Provides(j, Append(SubSeq(d, 1, n), InitPy)) =>
             Provides(k, Append(SubSeq(d, 1, n), InitPy)) /\ k <= j
  BY <1>2
<1>6. Len(d) \in 0 .. Len(d)
  BY <1>2
<1>7. k \in SearchPath(d) /\ SearchPath(d) \subseteq SysPath
  <2>1. k \in look[Len(d)] /\ look[Len(d)] \subseteq SysPath
    BY <1>2, <1>3, <1>4, <1>5, <1>6, LookKeeps, Zenon
  <2> QED
    BY <1>3, <2>1
<1>8. k \in at /\ at \in SUBSET Nat /\ \A j \in at : k <= j
  BY <1>1, <1>7 DEF at
<1>9. first \in at /\ first <= k
  <2>1. first \in at /\ \A j \in at : first <= j
    BY <1>8, LeastOf, Zenon DEF first
  <2> QED
    BY <1>8, <2>1
<1>10. first = k
  <2>1. first \in Nat /\ k \in Nat /\ k <= first
    BY <1>8, <1>9
  <2> QED
    BY <1>9, <2>1
<1>11. Found(f) = IF at = {} THEN {} ELSE (IF first = 0 THEN SiteFiles(f) ELSE {first})
  BY Zenon DEF Found, at, first, d
<1> QED
  BY <1>8, <1>10, <1>11

\* Below a regular package of site-packages Python looks nowhere else, if no
\* regular package is above it.
LEMMA SiteOnly ==
  ASSUME wheels \in WheelSets, NEW d \in Paths, NEW q \in Paths, IsPrefix(q, d),
         Append(q, InitPy) \in AllFiles, SiteFiles(Append(q, InitPy)) # {},
         IsStrictPrefix(q, Append(q, InitPy)), Append(q, InitPy) \in Paths,
         \A x \in Paths : IsStrictPrefix(x, q) => \A j \in SysPath : ~Provides(j, Append(x, InitPy))
  PROVE  SearchPath(d) \subseteq {0}
<1> DEFINE g == Append(q, InitPy)
           N == Len(q) - 1
<1>1. SysPath \subseteq Nat /\ 0 \in SysPath /\ Provides(0, g)
  BY WheelsFinite DEF SysPath, Provides
<1>2. Len(d) \in Nat \ {0} /\ Len(q) \in 1 .. Len(d) /\ q = SubSeq(d, 1, Len(q))
  BY AboveIsCut DEF Paths
<1>3. \A n \in 1 .. N : /\ SubSeq(d, 1, n) \in Paths /\ IsStrictPrefix(SubSeq(d, 1, n), q)
                        /\ IsStrictPrefix(SubSeq(d, 1, n), g)
  <2> TAKE n \in 1 .. N
  <2> DEFINE x == SubSeq(d, 1, n)
  <2>1. n \in 1 .. Len(d) /\ n < Len(q) /\ n \in Nat /\ n # Len(q)
    <3>1. \A a, b \in Nat : \A m \in 1 .. a - 1 : a \in 1 .. b => m \in 1 .. b /\ m < a /\ m \in Nat /\ m # a
      OBVIOUS
    <3>2. Len(q) \in Nat /\ Len(d) \in Nat
      BY <1>2
    <3> QED
      BY <1>2, <3>1, <3>2, Zenon
  <2>2. x \in Paths /\ Len(x) = n /\ IsPrefix(x, d)
    BY <2>1, CutOff
  <2> HIDE DEF x, g
  <2>3. IsPrefix(x, q) \/ IsPrefix(q, x)
    BY <2>2, PrefixOrder
  <2>4. x # q
    <3>1. Len(x) # Len(q)
      BY <2>1, <2>2, Zenon
    <3> QED
      BY <3>1, Zenon
  <2>5. ~IsPrefix(q, x)
    <3> SUFFICES ASSUME IsPrefix(q, x) PROVE FALSE
      OBVIOUS
    <3>1. Len(q) < Len(x)
      BY <2>2, <2>4, PrefixAbove, AboveParts
    <3> QED
      <4>1. \A a, b \in Nat : ~ (a < b /\ b < a)
        OBVIOUS
      <4>2. Len(q) \in Nat
        BY <1>2
      <4> QED
        BY <2>1, <2>2, <3>1, <4>1, <4>2, Zenon
  <2>6. IsStrictPrefix(x, q)
    BY <2>3, <2>4, <2>5 DEF IsStrictPrefix
  <2>7. IsPrefix(x, g) /\ x # g
    BY <2>2, <2>6, PrefixOrder DEF IsStrictPrefix, g
  <2> QED
    BY <2>2, <2>6, <2>7 DEF x, g, IsStrictPrefix
<1>4. PICK look : /\ SearchPath(d) = look[Len(d)]
                  /\ look[0] = SysPath
                  /\ \A n \in 1 .. Len(d) : look[n] = NextLook(SubSeq(d, 1, n), look[n - 1])
  BY <1>2, SearchPathIs
<1>5. \A n \in 1 .. N : HasDir(0, SubSeq(d, 1, n))
  BY <1>1, <1>3 DEF HasDir
<1>6. \A n \in 1 .. N : \A j \in SysPath :
           Provides(j, Append(SubSeq(d, 1, n), InitPy)) =>
             Provides(0, Append(SubSeq(d, 1, n), InitPy)) /\ 0 <= j
  BY <1>3
<1>7. N \in 0 .. Len(d) /\ Len(d) \in Nat
  BY <1>2
<1> HIDE DEF N
<1>8. 0 \in look[N] /\ look[N] \subseteq SysPath
  BY <1>1, <1>4, <1>5, <1>6, <1>7, LookKeeps
<1> DEFINE D == {n \in Len(q) .. Len(d) : ~ (look[n] \subseteq {0})}
<1>9. ASSUME D # {} PROVE FALSE
  <2>1. D \subseteq Nat
    BY <1>2
  <2> HIDE DEF D
  <2>2. PICK n \in D : \A m \in D : ~ (<<m, n>> \in OpToRel(<, Nat))
    BY <1>9, <2>1, WFMin, NatLessThanWellFounded, Zenon
  <2>3. \A m \in D : ~ (m < n)
    BY <2>1, <2>2 DEF OpToRel
  <2>4. n \in Len(q) .. Len(d) /\ ~ (look[n] \subseteq {0}) /\ n \in Nat
    BY <2>1, <2>2 DEF D
  <2>5. CASE n = Len(q)
    <3>1. n - 1 = N /\ n \in 1 .. Len(d) /\ SubSeq(d, 1, n) = q
      BY <1>2, <2>5 DEF N
    <3>2. look[n] = NextLook(q, look[N])
      BY <1>4, <3>1
    <3> DEFINE L == look[N]
               regular == {j \in L : Provides(j, Append(q, InitPy))}
    <3>3. L \in SUBSET Nat /\ 0 \in L
      BY <1>1, <1>8
    <3> HIDE DEF L
    <3>4. 0 \in regular
      BY <1>1, <3>3
    <3>5. PICK j \in regular : NextLook(q, L) = {j} /\ \A i \in regular : j <= i
      BY <3>3, <3>4, NextLookIs
    <3>6. j = 0
      <4>1. j \in Nat /\ j <= 0
        BY <3>3, <3>4, <3>5
      <4> QED
        BY <4>1
    <3> QED
      BY <2>4, <3>2, <3>5, <3>6 DEF L
  <2>6. CASE n # Len(q)
    <3>1. n - 1 \in Len(q) .. Len(d) /\ n \in 1 .. Len(d) /\ n - 1 < n
      <4>1. \A a, b, c \in Nat : a # 0 /\ c \in a .. b /\ c # a => c - 1 \in a .. b /\ c \in 1 .. b /\ c - 1 < c
        OBVIOUS
      <4>2. Len(q) \in Nat /\ Len(q) # 0 /\ Len(d) \in Nat
        BY <1>2
      <4> QED
        BY <2>4, <2>6, <4>1, <4>2, Zenon
    <3>2. look[n - 1] \subseteq {0}
      BY <2>3, <3>1 DEF D
    <3>3. look[n - 1] \in SUBSET Nat
      BY <3>2
    <3>4. NextLook(SubSeq(d, 1, n), look[n - 1]) \subseteq look[n - 1]
      BY <3>3, NextLookIs
    <3> QED
      BY <1>4, <2>4, <3>1, <3>2, <3>4
  <2> QED
    BY <2>5, <2>6
<1>10. Len(d) \in Len(q) .. Len(d)
  BY <1>2
<1> QED
  BY <1>4, <1>9, <1>10

\* What lies in an output comes from that output alone.
LEMMA OneOutput ==
  ASSUME TopInv, RangeInv, Antichain(Outputs), DOMAIN projected \cap DOMAIN mergeGroups = {},
         NEW f \in Paths, NEW s, IsPrefix(s, f)
  PROVE  /\ s \in DOMAIN projected => SiteFiles(f) \subseteq {projected[s]}
         /\ s \in DOMAIN projected /\ f \in wheels[projected[s]].files => SiteFiles(f) = {projected[s]}
         /\ \A C \in SUBSET Wheel :
              s \in DOMAIN mergeGroups /\ mergeGroups[s] = InOrder(C) /\ (\E w \in C : f \in wheels[w].files) =>
                SiteFiles(f) = {LastOf({w \in C : f \in wheels[w].files})}
<1> DEFINE bound == {q \in DOMAIN projected : IsPrefix(q, f) /\ f \in wheels[projected[q]].files}
           at(r) == {i \in DOMAIN mergeGroups[r] : f \in wheels[mergeGroups[r][i]].files}
           shown(r) == IF at(r) = {} THEN {} ELSE {mergeGroups[r][LastOf(at(r))]}
           merged == {q \in DOMAIN mergeGroups : IsPrefix(q, f)}
<1>1. SiteFiles(f) = {projected[p] : p \in bound} \cup UNION {shown(r) : r \in merged}
  BY Zenon DEF SiteFiles
<1>2. Outputs \subseteq Paths \cup Won /\ \A tl \in Won : tl \in Paths
  <2>1. \A tl \in Won : tl \in Paths
    BY LastClaims DEF Won, TopInv
  <2> QED
    BY <2>1 DEF TopInv, Outputs, PlainPaths
<1>3. \A p, q \in Outputs : IsPrefix(p, f) /\ IsPrefix(q, f) => p = q
  <2> TAKE p, q \in Outputs
  <2>1. p \in Paths /\ q \in Paths
    BY <1>2
  <2> QED
    BY <2>1, PrefixOrder DEF Antichain
<1>4. bound \subseteq Outputs /\ merged \subseteq Outputs /\ \A p \in bound \cup merged : IsPrefix(p, f)
  BY DEF Outputs
<1> HIDE DEF shown
<1>5. CASE s \in DOMAIN projected
  <2>1. s \in Outputs
    BY <1>5 DEF Outputs
  <2>2. merged = {} /\ bound \subseteq {s}
    BY <1>3, <1>4, <1>5, <2>1
  <2>3. SiteFiles(f) \subseteq {projected[s]}
    BY <1>1, <2>2
  <2>4. f \in wheels[projected[s]].files => s \in bound
    BY <1>5
  <2> HIDE DEF bound, merged
  <2>5. f \in wheels[projected[s]].files => projected[s] \in SiteFiles(f)
    BY <1>1, <2>4
  <2> QED
    BY <1>5, <2>3, <2>5
<1>6. ASSUME NEW C \in SUBSET Wheel, s \in DOMAIN mergeGroups, mergeGroups[s] = InOrder(C),
             \E w \in C : f \in wheels[w].files
      PROVE  SiteFiles(f) = {LastOf({w \in C : f \in wheels[w].files})}
  <2>1. s \in Outputs
    BY <1>6 DEF Outputs
  <2>2. bound = {} /\ merged = {s}
    BY <1>3, <1>4, <1>6, <2>1
  <2>3. SiteFiles(f) = shown(s)
    <3> HIDE DEF bound, merged
    <3> QED
      BY <1>1, <2>2
  <2> DEFINE here == {i \in DOMAIN InOrder(C) : f \in wheels[InOrder(C)[i]].files}
             having == {w \in C : f \in wheels[w].files}
  <2>4. at(s) = here
    BY <1>6
  <2>5. /\ here = {} <=> having = {}
        /\ here # {} => InOrder(C)[LastOf(here)] = LastOf(having)
    <3>1. wheels \in WheelSets
      BY DEF TopInv
    <3> QED
      BY <3>1, MergeShows
  <2>6. having # {}
    BY <1>6
  <2> HIDE DEF here, having, at
  <2>7. shown(s) = {LastOf(having)}
    BY <1>6, <2>4, <2>5, <2>6 DEF shown
  <2> QED
    BY <2>3, <2>7 DEF having
<1>7. s \in DOMAIN projected =>
         /\ SiteFiles(f) \subseteq {projected[s]}
         /\ f \in wheels[projected[s]].files => SiteFiles(f) = {projected[s]}
  BY <1>5
<1> QED
  BY <1>6, <1>7

\* Where Python sees a regular package, a wheel has one.
LEMMA InitProvided ==
  ASSUME TopInv, RangeInv, NEW x \in Paths, NEW j \in SysPath, Provides(j, Append(x, InitPy))
  PROVE  /\ \E v \in Wheel : Append(x, InitPy) \in wheels[v].files /\ x \in InitDirs(wheels[v].files)
         /\ Append(x, InitPy) \in Paths /\ Append(x, InitPy) \in AllFiles
         /\ IsStrictPrefix(x, Append(x, InitPy))
<1> DEFINE g == Append(x, InitPy)
<1>1. \E v \in Wheel : g \in wheels[v].files
  <2>1. CASE j = 0
    <3>1. PICK v \in SiteFiles(g) : TRUE
      BY <2>1 DEF Provides
    <3> QED
      BY <3>1, SiteIn
  <2>2. CASE j # 0
    BY <2>2 DEF Provides, SysPath
  <2> QED
    BY <2>1, <2>2
<1>2. PICK v \in Wheel : g \in wheels[v].files
  BY <1>1
<1>3. wheels[v].files \in SUBSET Paths
  BY TopLevelsAssumption DEF Wheel, Paths, TopInv
<1> QED
  BY <1>2, <1>3, InitFile DEF AllFiles

\* A file is found in site-packages if all below some directory above it is there
\* and no regular package is above that directory.
LEMMA SiteFirst ==
  ASSUME TopInv, RangeInv, NEW f \in Paths, NEW w \in Wheel, f \in wheels[w].files,
         NEW e \in Paths, IsPrefix(e, f),
         \A v \in Wheel : \A g \in wheels[v].files : IsPrefix(e, g) => SiteFiles(g) # {},
         \A v \in Wheel : \A x \in InitDirs(wheels[v].files) :
           x \in Paths /\ IsStrictPrefix(x, f) => IsPrefix(e, x)
  PROVE  Found(f) = SiteFiles(f)
<1>1. wheels \in WheelSets /\ 0 \in SysPath /\ SysPath \subseteq Nat /\ f \in AllFiles
  <2>1. Len(f) \in Nat /\ wheels \in WheelSets
    BY DEF Paths, TopInv
  <2> QED
    BY <2>1, SearchedIsOnPath DEF SysPath, AllFiles
<1>2. Provides(0, f)
  BY DEF Provides
<1>3. ASSUME NEW n \in 1 .. Len(f) - 1, NEW j \in SysPath,
             Provides(j, Append(SubSeq(f, 1, n), InitPy))
      PROVE  Provides(0, Append(SubSeq(f, 1, n), InitPy)) /\ 0 <= j
  <2> DEFINE x == SubSeq(f, 1, n)
             g == Append(x, InitPy)
  <2>1. x \in Paths /\ IsStrictPrefix(x, f)
    BY CutFront
  <2> HIDE DEF x
  <2>2. /\ \E v \in Wheel : g \in wheels[v].files /\ x \in InitDirs(wheels[v].files)
        /\ g \in Paths /\ IsStrictPrefix(x, g)
    BY <1>3, <2>1, InitProvided DEF x
  <2> HIDE DEF g
  <2>3. PICK v \in Wheel : g \in wheels[v].files /\ x \in InitDirs(wheels[v].files)
    BY <2>2
  <2>4. IsPrefix(e, g)
    BY <2>1, <2>2, <2>3, PrefixOrder DEF IsStrictPrefix
  <2>5. SiteFiles(g) # {}
    BY <2>3, <2>4
  <2> QED
    BY <1>1, <2>5 DEF Provides, g, x
<1>4. \A j \in SysPath : Provides(j, f) => 0 <= j
  BY <1>1
<1>5. Found(f) = IF 0 = 0 THEN SiteFiles(f) ELSE {0}
  BY <1>1, <1>2, <1>3, <1>4, FoundAt
<1> QED
  BY <1>5

\* What one wheel alone installs and has in site-packages is found there.
LEMMA SoleFound ==
  ASSUME TopInv, RangeInv, NEW f \in Paths, NEW w \in Wheel, f \in wheels[w].files,
         NEW e \in Paths, IsPrefix(e, f),
         NEW p \in DOMAIN projected, IsPrefix(p, e), p \in Paths, projected[p] = w,
         \A v \in Wheel : \A g \in wheels[v].files : IsPrefix(e, g) => v = w,
         \A v \in Wheel : \A x \in InitDirs(wheels[v].files) :
           x \in Paths /\ IsStrictPrefix(x, f) => IsPrefix(e, x)
  PROVE  Found(f) = {w}
<1>1. ASSUME NEW v \in Wheel, NEW g \in wheels[v].files, IsPrefix(e, g)
      PROVE  SiteFiles(g) = {w}
  <2>1. v = w
    BY <1>1
  <2>2. g \in Paths
    BY TopLevelsAssumption DEF Wheel, Paths, TopInv
  <2>3. IsPrefix(p, g)
    BY <1>1, <2>2, PrefixOrder
  <2>4. w \in SiteFiles(g)
    BY <1>1, <2>1, <2>3 DEF SiteFiles
  <2>5. \A u \in SiteFiles(g) : u = w
    BY <1>1, SiteIn
  <2> QED
    BY <2>4, <2>5
<1>2. \A v \in Wheel : \A g \in wheels[v].files : IsPrefix(e, g) => SiteFiles(g) # {}
  BY <1>1
<1>3. Found(f) = SiteFiles(f)
  BY <1>2, SiteFirst
<1> QED
  BY <1>1, <1>3

\* The only wheel with a distribution's metadata is the one it is found in.
LEMMA MetadataFound ==
  ASSUME TopInv, RangeInv, stage = "done", NEW tl \in Names, NEW w, Claimants(tl) = {w},
         NEW f \in Paths, f \in wheels[w].files, IsPrefix(tl, f)
  PROVE  Found(f) = {w}
<1>1. /\ wheels \in WheelSets /\ w \in Wheel /\ f \in AllFiles /\ tl \in Paths /\ Len(tl) = 1
      /\ LastOf(Claimants(tl)) = w
  <2>1. wheels \in WheelSets /\ w \in Wheel /\ LastOf(Claimants(tl)) \in Claimants(tl) /\ tl \in Paths /\ Len(tl) = 1
    BY LastClaims DEF TopInv, Claimants
  <2> QED
    BY <2>1 DEF AllFiles
<1>2. \A v \in Wheel : \A g \in wheels[v].files : g \in Paths /\ (IsPrefix(tl, g) => v = w)
  <2> TAKE v \in Wheel
  <2> TAKE g \in wheels[v].files
  <2>1. g \in Paths
    BY <1>1, TopLevelsAre DEF AllFiles
  <2>2. IsPrefix(tl, g) => v \in Claimants(tl)
    BY <1>1, TopLevelsAre DEF Claimants
  <2> QED
    BY <2>1, <2>2
<1>3. \A x \in Paths : IsStrictPrefix(x, f) => IsPrefix(tl, x)
  BY <1>1, PrefixOrder DEF IsStrictPrefix
<1>4. CASE tl \in Won
  <2>1. tl \in DOMAIN projected /\ projected[tl] = w
    BY <1>1, <1>4 DEF TopInv
  <2> QED
    BY <1>1, <1>2, <1>3, <2>1, SoleFound, PrefixOrder
<1>5. CASE tl \notin Won
  <2>1. \A v \in Wheel : \A g \in wheels[v].files : IsPrefix(tl, g) => SiteFiles(g) = {}
    <3> TAKE v \in Wheel
    <3> TAKE g \in wheels[v].files
    <3>1. g \in AllFiles
      BY DEF AllFiles
    <3> QED
      BY <1>5, <3>1, MetadataShown
  <2>2. w \in SysPath /\ w # 0 /\ SysPath \subseteq Nat
    <3>1. Len(f) \in Nat
      BY DEF Paths
    <3>2. SysPath \subseteq Nat
      BY <1>1, <3>1, SearchedIsOnPath
    <3>3. w \in SysPath
      BY <1>1, <1>5 DEF Won, SysPath
    <3>4. w # 0
      <4>1. Wheel \subseteq Nat \ {0}
        BY <1>1, WheelsFinite
      <4> QED
        BY <1>1, <4>1
    <3> QED
      BY <3>2, <3>3, <3>4
  <2>3. ASSUME NEW j \in SysPath, NEW g, NEW v \in Wheel, g \in wheels[v].files, IsPrefix(tl, g), Provides(j, g)
        PROVE  j = w
    <3>1. j # 0
      BY <2>1, <2>3 DEF Provides
    <3>2. j \in Wheel /\ g \in wheels[j].files
      BY <2>3, <3>1 DEF Provides, SysPath
    <3> QED
      BY <1>2, <2>3, <3>2
  <2>4. Provides(w, f)
    BY <2>2 DEF Provides
  <2>5. ASSUME NEW n \in 1 .. Len(f) - 1, NEW j \in SysPath,
               Provides(j, Append(SubSeq(f, 1, n), InitPy))
        PROVE  Provides(w, Append(SubSeq(f, 1, n), InitPy)) /\ w <= j
    <3> DEFINE x == SubSeq(f, 1, n)
               g == Append(x, InitPy)
    <3>1. x \in Paths /\ IsStrictPrefix(x, f)
      BY CutFront
    <3> HIDE DEF x
    <3>2. /\ \E v \in Wheel : g \in wheels[v].files /\ x \in InitDirs(wheels[v].files)
          /\ g \in Paths /\ IsStrictPrefix(x, g)
      BY <2>5, <3>1, InitProvided DEF x
    <3> HIDE DEF g
    <3>3. PICK v \in Wheel : g \in wheels[v].files
      BY <3>2
    <3>4. IsPrefix(tl, g)
      BY <1>1, <1>3, <3>1, <3>2, PrefixOrder DEF IsStrictPrefix
    <3>5. j = w
      BY <2>3, <2>5, <3>3, <3>4 DEF x, g
    <3>6. w <= j
      BY <2>2, <3>5
    <3> QED
      BY <2>5, <3>5, <3>6 DEF x, g
  <2>6. \A j \in SysPath : Provides(j, f) => w <= j
    <3> TAKE j \in SysPath
    <3>1. Provides(j, f) => j = w
      BY <1>1, <2>3
    <3> QED
      BY <2>2, <3>1
  <2>7. Found(f) = IF w = 0 THEN SiteFiles(f) ELSE {w}
    BY <1>1, <2>2, <2>4, <2>5, <2>6, FoundAt
  <2> QED
    BY <2>2, <2>7
<1> QED
  BY <1>4, <1>5

LEMMA SoundSpans == Sound => AllDescribed
<1> SUFFICES ASSUME Sound, NEW tl \in UNION {wheels[w].top_levels : w \in Wheel} PROVE SpanDescribed(tl)
  BY DEF AllDescribed
<1>1. Claimants(tl) \subseteq Wheel
  BY DEF Claimants
<1> QED
  BY <1>1 DEF Sound, Inspected, Compatible, SpanDescribed

\* A root left for a merge is one: all wheels of its namespace that have the
\* directory are merged there.
LEMMA MergedFound ==
  ASSUME TopInv, RangeInv, OutputsInv, FoundInv, stage = "done", Sound,
         NEW tl \in PlainPaths, Len(tl) = 1, AllNs(tl), Spread(tl),
         NEW s \in Shallowest(Spanned(tl)), ~Holds(s, HeldRoots(tl)),
         NEW w \in Wheel, NEW f \in wheels[w].files, IsPrefix(s, f)
  PROVE  Found(f) = {LastOf({v \in Wheel : f \in wheels[v].files})}
<1> DEFINE C == Contributors(s)
<1>1. /\ wheels \in WheelSets /\ tl \in Paths /\ Claimants(tl) \subseteq Wheel
      /\ s \in Spanned(tl) /\ s \in Paths /\ IsStrictPrefix(tl, s)
      /\ \A q \in Spanned(tl) : ~IsStrictPrefix(q, s)
      /\ \A v \in Wheel : wheels[v].files \subseteq Paths
  BY SpanFrame DEF Shallowest, TopInv
<1>2. s \in Shallowest(conflicted)
  <2>1. s \in conflicted
    BY DEF Spread
  <2>2. ASSUME NEW r \in conflicted, IsStrictPrefix(r, s) PROVE FALSE
    <3>1. PICK t \in Tops \cap PlainPaths : AllNs(t) /\ r \in Spanned(t)
      BY DEF FoundInv
    <3>2. t \in Paths /\ Len(t) = 1
      BY <1>1, <3>1, TopLevelsAre DEF Tops
    <3>3. r \in Paths /\ IsPrefix(t, r) /\ IsPrefix(r, s)
      BY <1>1, <2>2, <3>1, SpanFrame DEF IsStrictPrefix
    <3>4. IsPrefix(t, s) /\ IsPrefix(tl, s)
      BY <1>1, <3>2, <3>3, PrefixOrder DEF IsStrictPrefix
    <3>5. t = tl
      BY <1>1, <3>2, <3>4, TopLevelOf
    <3> QED
      BY <1>1, <2>2, <3>1, <3>5
  <2> QED
    BY <2>1, <2>2 DEF Shallowest
<1>3. C \subseteq Wheel /\ IsFiniteSet(C)
  <2>1. C \in SUBSET Wheel
    BY DEF RangeInv, Contributors
  <2> HIDE DEF C
  <2> QED
    BY <1>1, <2>1, WheelsFinite
<1>4. \A v \in Claimants(tl) : s \in Skeleton(v) => v \in C
  BY DEF Spread, Contributors, Skeleton
<1>5. Cardinality(C) >= 2
  <2>1. PICK u \in Claimants(tl) : \E v \in Claimants(tl) : u # v /\ s \in wheels[u].regular_roots /\ s \in Skeleton(v)
    BY <1>1, SpanFrame
  <2>2. PICK v \in Claimants(tl) : u # v /\ s \in wheels[u].regular_roots /\ s \in Skeleton(v)
    BY <2>1
  <2>3. u \in C /\ v \in C
    BY <1>4, <2>2 DEF Skeleton
  <2> HIDE DEF C
  <2>4. Cardinality(C) \in Nat /\ Cardinality(C) # 0 /\ Cardinality(C) # 1
    BY <1>3, <2>2, <2>3, FS_CardinalityType, FS_EmptySet, FS_Singleton
  <2> QED
    BY <2>4
<1>6. s \in DOMAIN mergeGroups /\ mergeGroups[s] = InOrder(C)
  BY <1>2, <1>5 DEF FoundInv
<1>7. Antichain(Outputs) /\ DOMAIN projected \cap DOMAIN mergeGroups = {}
  BY SoundSpans DEF OutputsInv
<1>8. ASSUME NEW v \in Wheel, NEW g \in wheels[v].files, IsPrefix(s, g)
      PROVE  v \in Claimants(tl) /\ v \in C /\ SiteFiles(g) = {LastOf({u \in Wheel : g \in wheels[u].files})}
  <2>1. g \in Paths /\ IsPrefix(tl, g)
    BY <1>1, <1>8, PrefixOrder DEF IsStrictPrefix
  <2>2. \A u \in Wheel : g \in wheels[u].files => u \in Claimants(tl)
    BY <1>1, <2>1, TopLevelsAre DEF Claimants
  <2>3. \A u \in Wheel : g \in wheels[u].files => u \in C
    BY <1>1, <1>4, <1>8, <2>2, RootTop
  <2> HIDE DEF C
  <2>4. {u \in C : g \in wheels[u].files} = {u \in Wheel : g \in wheels[u].files}
    BY <1>3, <2>3
  <2>5. SiteFiles(g) = {LastOf({u \in C : g \in wheels[u].files})}
    BY <1>3, <1>6, <1>7, <1>8, <2>1, <2>3, OneOutput
  <2> QED
    BY <1>8, <2>2, <2>3, <2>4, <2>5
<1>9. ASSUME NEW v \in Wheel, NEW x \in InitDirs(wheels[v].files), x \in Paths, IsStrictPrefix(x, f)
      PROVE  IsPrefix(s, x)
  <2>1. f \in Paths
    BY <1>1
  <2>2. IsPrefix(x, s) \/ IsPrefix(s, x)
    BY <1>1, <1>9, <2>1, PrefixOrder DEF IsStrictPrefix
  <2> SUFFICES ASSUME IsStrictPrefix(x, s) PROVE FALSE
    BY <1>1, <2>2, PrefixOrder DEF IsStrictPrefix
  <2>3. IsPrefix(tl, x)
    BY <1>1, <1>9, PrefixOrder DEF IsStrictPrefix
  <2>4. v \in Claimants(tl)
    <3> DEFINE g == Append(x, InitPy)
    <3>1. g \in wheels[v].files /\ g \in Paths /\ IsStrictPrefix(x, g)
      BY <1>1, <1>9, InitFile
    <3>2. IsPrefix(tl, g)
      BY <1>1, <1>9, <2>3, <3>1, PrefixOrder DEF IsStrictPrefix
    <3> QED
      BY <1>1, <3>1, <3>2, TopLevelsAre DEF Claimants
  <2>5. tl \notin InitDirs(wheels[v].files)
    <3>1. IsNs(v, tl) /\ Described(v)
      BY <1>1, <2>4, SpanFrame DEF AllNs
    <3> QED
      BY <1>1, <3>1, RecordSays
  <2>6. IsStrictPrefix(tl, x)
    BY <1>9, <2>3, <2>5 DEF IsStrictPrefix
  <2> QED
    BY <1>1, <1>9, <2>4, <2>6, RootTop
<1>10. \A v \in Wheel : \A g \in wheels[v].files : IsPrefix(s, g) => SiteFiles(g) # {}
  BY <1>8
<1>11. Found(f) = SiteFiles(f)
  BY <1>1, <1>9, <1>10, SiteFirst
<1> QED
  BY <1>8, <1>11

\* Every file is reported, or its wheel alone has it and it is found there, or
\* it is in a regular package that spans the wheels of a namespace.
LEMMA Outcome ==
  ASSUME TopInv, RangeInv, OutputsInv, FoundInv, stage = "done", Sound,
         NEW w \in Wheel, NEW f \in wheels[w].files
  PROVE  \/ Reported(f)
         \/ Found(f) = {w} /\ \A v \in Wheel : f \in wheels[v].files => v = w
         \/ \E tl \in PlainPaths :
              /\ Len(tl) = 1 /\ AllNs(tl) /\ Spread(tl)
              /\ \E s \in Shallowest(Spanned(tl)) : IsPrefix(s, f)
<1> DEFINE tl == SubSeq(f, 1, 1)
<1>1. wheels \in WheelSets /\ f \in Paths /\ \A v \in Wheel : wheels[v].files \subseteq Paths
  BY TopLevelsAssumption DEF TopInv, Wheel, Paths
<1>2. tl \in Paths /\ Len(tl) = 1 /\ IsPrefix(tl, f)
  BY <1>1, TopLevelOf
<1> HIDE DEF tl
<1>3. /\ w \in Claimants(tl) /\ tl \in Tops /\ Claimants(tl) \subseteq Wheel
      /\ \A v \in Wheel : \A g \in wheels[v].files : IsPrefix(tl, g) => v \in Claimants(tl)
  BY <1>1, <1>2, TopLevelsAre DEF Claimants, Tops
<1>4. Told(tl) => Reported(f)
  BY <1>2 DEF Told, Reported
<1>5. \A x \in Paths : IsStrictPrefix(x, f) => IsPrefix(tl, x)
  BY <1>1, <1>2, PrefixOrder DEF IsStrictPrefix
<1>6. CASE IsMetadata(tl)
  <2>1. tl \in Names
    BY <1>3, <1>6 DEF Names, Tops
  <2>2. (\E u : Claimants(tl) = {u}) \/ Told(tl)
    BY <2>1 DEF FoundInv
  <2>3. CASE \E u : Claimants(tl) = {u}
    <3>1. Claimants(tl) = {w}
      BY <1>3, <2>3
    <3>2. Found(f) = {w}
      BY <1>1, <1>2, <2>1, <3>1, MetadataFound
    <3> QED
      BY <1>2, <1>3, <3>1, <3>2
  <2> QED
    BY <1>4, <2>2, <2>3
<1>7. CASE ~IsMetadata(tl)
  <2>1. tl \in PlainPaths
    BY <1>2, <1>7 DEF PlainPaths, IsMetadata
  <2>2. Settled(tl)
    BY <1>3, <2>1 DEF FoundInv
  <2>3. CASE \E u : Claimants(tl) = {u} /\ tl \in DOMAIN projected /\ projected[tl] = u
    <3>1. Claimants(tl) = {w} /\ tl \in DOMAIN projected /\ projected[tl] = w
      BY <1>3, <2>3
    <3>2. Found(f) = {w}
      BY <1>1, <1>2, <1>3, <1>5, <3>1, SoleFound, PrefixOrder
    <3> QED
      BY <1>2, <1>3, <3>1, <3>2
  <2>4. CASE Spread(tl)
    <3>1. AllNs(tl)
      BY <2>4 DEF Spread
    <3>2. CASE Within(f, Spanned(tl))
      <4>1. PICK r \in Spanned(tl) : IsPrefix(r, f)
        BY <3>2 DEF Within
      <4>2. Spanned(tl) \in SUBSET Paths
        BY <1>1, <2>1, SpanFrame
      <4>3. PICK s \in Shallowest(Spanned(tl)) : IsPrefix(s, r)
        BY <4>1, <4>2, CoverReaches
      <4>4. IsPrefix(s, f)
        BY <1>1, <4>1, <4>2, <4>3, PrefixOrder DEF Shallowest
      <4> QED
        BY <1>2, <2>1, <2>4, <3>1, <4>4
    <3>3. CASE ~Within(f, Spanned(tl))
      <4>1. PICK e \in Entries(w, tl) :
           /\ e \in Paths /\ IsPrefix(e, f) /\ ~Within(e, Spanned(tl))
           /\ \A v \in Claimants(tl) : \A g \in wheels[v].files : IsPrefix(e, g) => e \in Entries(v, tl)
           /\ \A v \in Claimants(tl) : \A x \in InitDirs(wheels[v].files) :
                x \in Paths /\ IsStrictPrefix(tl, x) /\ IsStrictPrefix(x, f) => IsPrefix(e, x)
        BY <1>1, <1>2, <1>3, <2>1, <3>1, <3>3, EntryCase
      <4>2. \/ Told(e)
            \/ (\A v \in Claimants(tl) : e \in Entries(v, tl) => v = w) /\ Bound(tl, w, e)
        BY <1>3, <2>4, <4>1 DEF Spread
      <4>3. CASE Told(e)
        BY <4>1, <4>3 DEF Told, Reported
      <4>4. CASE (\A v \in Claimants(tl) : e \in Entries(v, tl) => v = w) /\ Bound(tl, w, e)
        <5>1. PICK p \in DOMAIN projected : IsPrefix(tl, p) /\ IsPrefix(p, e) /\ projected[p] = w
          BY <4>4 DEF Bound
        <5>2. p \in Paths
          <6>1. \A t \in Won : t \in Paths
            BY LastClaims DEF Won, TopInv
          <6> QED
            BY <6>1 DEF TopInv, PlainPaths
        <5>3. \A v \in Wheel : \A g \in wheels[v].files : IsPrefix(e, g) => v = w
          <6> TAKE v \in Wheel
          <6> TAKE g \in wheels[v].files
          <6>1. IsPrefix(tl, e)
            BY DEF Entries
          <6>2. IsPrefix(e, g) => v \in Claimants(tl)
            BY <1>1, <1>2, <1>3, <4>1, <6>1, PrefixOrder
          <6> QED
            BY <4>1, <4>4, <6>2
        <5>4. ASSUME NEW v \in Wheel, NEW x \in InitDirs(wheels[v].files), x \in Paths, IsStrictPrefix(x, f)
              PROVE  IsPrefix(e, x)
          <6>1. IsPrefix(tl, x)
            BY <1>5, <5>4
          <6>2. v \in Claimants(tl)
            <7> DEFINE g == Append(x, InitPy)
            <7>1. g \in wheels[v].files /\ g \in Paths /\ IsStrictPrefix(x, g)
              BY <1>1, <5>4, InitFile
            <7>2. IsPrefix(tl, g)
              BY <1>2, <5>4, <6>1, <7>1, PrefixOrder DEF IsStrictPrefix
            <7> QED
              BY <1>3, <7>1, <7>2
          <6>3. tl \notin InitDirs(wheels[v].files)
            <7>1. IsNs(v, tl) /\ Described(v)
              BY <1>1, <2>1, <3>1, <6>2, SpanFrame DEF AllNs
            <7> QED
              BY <1>1, <1>2, <7>1, RecordSays
          <6>4. IsStrictPrefix(tl, x)
            BY <5>4, <6>1, <6>3 DEF IsStrictPrefix
          <6> QED
            BY <4>1, <5>4, <6>2, <6>4
        <5>5. Found(f) = {w}
          BY <1>1, <4>1, <5>1, <5>2, <5>3, <5>4, SoleFound
        <5> QED
          BY <4>1, <5>3, <5>5
      <4> QED
        BY <4>2, <4>3, <4>4
    <3> QED
      BY <3>2, <3>3
  <2> QED
    BY <1>4, <2>2, <2>3, <2>4 DEF Settled
<1> QED
  BY <1>6, <1>7

\* Python finds every file as one flat installation would leave it, unless a
\* collision was reported above it or the file is of a regular package that
\* spans wheels and has a native library (virtuals_resolvers.bzl,
\* resolve_wheel_collisions).
THEOREM FoundAsInstalledCorrect == VenvSpec => []FoundAsInstalled
<1>1. ASSUME TopInv, RangeInv, OutputsInv, FoundInv PROVE FoundAsInstalled
  <2> SUFFICES ASSUME stage = "done", Sound, NEW f \in AllFiles
               PROVE  Reported(f) \/ NativeSpan(f) \/ Found(f) = {LastOf({w \in Wheel : f \in wheels[w].files})}
    BY DEF FoundAsInstalled, Sound
  <2> DEFINE having == {w \in Wheel : f \in wheels[w].files}
  <2>1. PICK w \in Wheel : f \in wheels[w].files
    BY DEF AllFiles
  <2>2. \/ Reported(f)
        \/ Found(f) = {w} /\ \A v \in Wheel : f \in wheels[v].files => v = w
        \/ \E tl \in PlainPaths :
             /\ Len(tl) = 1 /\ AllNs(tl) /\ Spread(tl)
             /\ \E s \in Shallowest(Spanned(tl)) : IsPrefix(s, f)
    BY <1>1, <2>1, Outcome
  <2>3. CASE Found(f) = {w} /\ \A v \in Wheel : f \in wheels[v].files => v = w
    <3>1. having = {w}
      BY <2>1, <2>3
    <3>2. LastOf({w}) = w
      <4>1. wheels \in WheelSets /\ {w} \in SUBSET Wheel
        BY <1>1, <2>1 DEF TopInv
      <4>2. LastOf({w}) \in {w}
        BY <4>1, WheelsFinite
      <4> QED
        BY <4>2
    <3> QED
      BY <2>3, <3>1, <3>2
  <2>4. ASSUME NEW tl \in PlainPaths, Len(tl) = 1, AllNs(tl), Spread(tl),
               NEW s \in Shallowest(Spanned(tl)), IsPrefix(s, f)
        PROVE  NativeSpan(f) \/ Found(f) = {LastOf(having)}
    <3>1. CASE ~Holds(s, HeldRoots(tl))
      BY <1>1, <2>1, <2>4, <3>1, MergedFound
    <3>2. CASE Holds(s, HeldRoots(tl))
      <4>1. \E u, v, x \in Claimants(tl) :
              /\ u # v /\ s \in wheels[u].regular_roots /\ Holds(s, wheels[v].files)
              /\ s \in wheels[x].native_roots
        BY <1>1, <2>4, <3>2, RootHeld DEF TopInv
      <4>2. Claimants(tl) \subseteq Wheel
        BY DEF Claimants
      <4> QED
        BY <2>4, <4>1, <4>2 DEF NativeSpan
    <3> QED
      BY <3>1, <3>2
  <2> HIDE DEF having
  <2> QED
    BY <2>2, <2>3, <2>4 DEF having
<1> QED
  BY <1>1, FoundInvariance, PTL

\* A native library that Python finds is found next to the files its wheel put
\* there: the package it is in goes to one wheel as a whole
\* (virtuals_resolvers.bzl, _resolve_native_span).
THEOREM NativeKeepsItsFilesCorrect == VenvSpec => []NativeKeepsItsFiles
<1>1. ASSUME TopInv, RangeInv, OutputsInv, FoundInv PROVE NativeKeepsItsFiles
  <2> SUFFICES ASSUME stage = "done", Sound, NEW w \in Wheel,
                      NEW f \in wheels[w].files, NEW g \in wheels[w].files,
                      Last(f) \in NativeLib, Found(f) = {w}, Front(f) = Front(g), ~Reported(g)
               PROVE  Found(g) = {w}
    BY DEF NativeKeepsItsFiles, Sound
  <2>1. wheels \in WheelSets /\ f \in Paths /\ g \in Paths /\ \A v \in Wheel : wheels[v].files \subseteq Paths
    BY <1>1, TopLevelsAssumption DEF TopInv, Wheel, Paths
  <2>2. \/ Found(g) = {w}
        \/ \E tl \in PlainPaths :
             /\ Len(tl) = 1 /\ AllNs(tl) /\ Spread(tl)
             /\ \E s \in Shallowest(Spanned(tl)) : IsPrefix(s, g)
    BY <1>1, Outcome
  <2>3. ASSUME NEW tl \in PlainPaths, Len(tl) = 1, AllNs(tl), Spread(tl),
               NEW s \in Shallowest(Spanned(tl)), IsPrefix(s, g)
        PROVE  Found(g) = {w}
    <3>1. /\ tl \in Paths /\ Claimants(tl) \subseteq Wheel /\ s \in Paths /\ IsStrictPrefix(tl, s)
      BY <2>1, SpanFrame DEF Shallowest
    <3>2. w \in Claimants(tl)
      <4>1. IsPrefix(tl, g)
        BY <2>1, <2>3, <3>1, PrefixOrder DEF IsStrictPrefix
      <4> QED
        BY <2>1, <2>3, <3>1, <4>1, TopLevelsAre DEF Claimants
    <3>3. IsStrictPrefix(s, g) /\ s \in Skeleton(w)
      BY <2>1, <2>3, <3>2, RootTop
    <3>4. Len(s) >= 1 /\ Len(s) < Len(g) /\ Len(s) \in Nat /\ Len(g) \in Nat /\ Len(f) \in Nat
      BY <2>1, <3>1, <3>3, PrefixAbove, AboveParts DEF IsStrictPrefix, Paths
    <3>5. Len(g) >= 2 /\ Len(f) = Len(g)
      <4>1. Len(Front(f)) = Len(f) - 1 /\ Len(Front(g)) = Len(g) - 1
        BY <2>1, CutFront
      <4>2. Len(f) - 1 = Len(g) - 1
        BY <4>1, Zenon
      <4> QED
        BY <3>4, <4>2
    <3>6. Front(g) \in Paths /\ IsPrefix(s, Front(g)) /\ IsPrefix(Front(g), f)
      <4>1. Front(g) \in Paths /\ IsPrefix(s, Front(g))
        BY <2>1, <3>1, <3>3, <3>5, FrontIs
      <4>2. Len(f) >= 2
        BY <3>5
      <4>3. IsStrictPrefix(Front(f), f)
        BY <2>1, <4>2, FrontIs
      <4> QED
        BY <4>1, <4>3 DEF IsStrictPrefix
    <3>7. IsPrefix(s, f)
      BY <2>1, <3>1, <3>6, PrefixOrder
    <3>8. Holds(s, HeldRoots(tl))
      BY <2>1, <2>3, <3>2, <3>7, RootHeld
    <3>9. PICK u \in Claimants(tl) : s \in wheels[u].regular_roots /\ projected[s] = u /\ s \in DOMAIN projected
      BY <2>3, <3>8 DEF Spread
    <3>10. u \in Wheel /\ Described(u) /\ IsNs(u, tl)
      BY <2>1, <2>3, <3>1, <3>9, SpanFrame DEF AllNs
    <3> DEFINE i == Append(s, InitPy)
    <3>11. /\ i \in wheels[u].files /\ IsStrictPrefix(s, i) /\ i \in Paths /\ i \in AllFiles
      <4>1. s \in InitDirs(wheels[u].files)
        BY <2>1, <2>3, <3>1, <3>9, <3>10, SkeletonIs
      <4> QED
        BY <2>1, <3>1, <3>10, <4>1, InitFile DEF AllFiles
    <3>12. SiteFiles(i) # {}
      BY <3>9, <3>11 DEF SiteFiles, IsStrictPrefix
    <3>13. ASSUME NEW x \in Paths, IsStrictPrefix(x, s), NEW j \in SysPath, Provides(j, Append(x, InitPy))
           PROVE  FALSE
      <4> DEFINE h == Append(x, InitPy)
      <4>1. /\ \E v \in Wheel : h \in wheels[v].files /\ x \in InitDirs(wheels[v].files)
            /\ h \in Paths /\ IsStrictPrefix(x, h)
        BY <1>1, <3>13, InitProvided
      <4> HIDE DEF h
      <4>2. PICK v \in Wheel : h \in wheels[v].files /\ x \in InitDirs(wheels[v].files)
        BY <4>1
      <4>3. IsPrefix(tl, x)
        BY <2>3, <3>1, <3>13, PrefixOrder DEF IsStrictPrefix
      <4>4. IsPrefix(tl, h)
        BY <3>1, <4>1, <4>3, PrefixOrder DEF IsStrictPrefix
      <4>5. v \in Claimants(tl)
        BY <2>1, <2>3, <3>1, <4>2, <4>4, TopLevelsAre DEF Claimants
      <4>6. tl \notin InitDirs(wheels[v].files)
        <5>1. IsNs(v, tl) /\ Described(v) /\ v \in Wheel
          BY <2>1, <2>3, <4>5, SpanFrame DEF AllNs
        <5> QED
          BY <2>1, <2>3, <3>1, <5>1, RecordSays
      <4>7. IsStrictPrefix(tl, x)
        BY <4>2, <4>3, <4>6 DEF IsStrictPrefix
      <4> QED
        BY <2>1, <2>3, <3>13, <4>2, <4>5, <4>7, RootTop
    <3>14. SearchPath(Front(g)) \subseteq {0}
      BY <2>1, <3>1, <3>6, <3>11, <3>12, <3>13, SiteOnly
    <3> HIDE DEF i
    <3>15. Antichain(Outputs) /\ DOMAIN projected \cap DOMAIN mergeGroups = {}
      BY <1>1, SoundSpans DEF OutputsInv
    <3>16. SiteFiles(f) \subseteq {u} /\ (u = w => SiteFiles(g) = {w})
      BY <1>1, <2>1, <2>3, <3>7, <3>9, <3>15, OneOutput
    <3>17. ASSUME NEW h, Front(h) = Front(g), SiteFiles(h) # {} => 0 \in SearchPath(Front(g))
           PROVE  Found(h) = SiteFiles(h)
      <4> DEFINE at == {k \in SearchPath(Front(h)) : Provides(k, h)}
                 first == CHOOSE k \in at : \A j \in at : k <= j
      <4>1. Found(h) = IF at = {} THEN {} ELSE (IF first = 0 THEN SiteFiles(h) ELSE {first})
        BY Zenon DEF Found
      <4>2. at \subseteq {0} /\ (0 \in at <=> SiteFiles(h) # {})
        BY <3>14, <3>17 DEF Provides
      <4>3. at # {} => first = 0
        <5>1. at \in SUBSET Nat
          BY <4>2
        <5> HIDE DEF at
        <5>2. at # {} => first \in at
          BY <5>1, LeastOf, Zenon
        <5> HIDE DEF first
        <5> QED
          BY <4>2, <5>2
      <4> HIDE DEF at, first
      <4> QED
        BY <4>1, <4>2, <4>3
    <3>18. 0 \in SearchPath(Front(g))
      <4> DEFINE at == {k \in SearchPath(Front(f)) : Provides(k, f)}
                 first == CHOOSE k \in at : \A j \in at : k <= j
      <4>1. Found(f) = IF at = {} THEN {} ELSE (IF first = 0 THEN SiteFiles(f) ELSE {first})
        BY Zenon DEF Found
      <4>2. at # {}
        BY <4>1
      <4> QED
        BY <3>14, <4>2
    <3>19. w \in SiteFiles(f)
      BY <3>17, <3>18
    <3>20. SiteFiles(g) = {w}
      BY <3>16, <3>19
    <3> QED
      BY <3>17, <3>18, <3>20
  <2> QED
    BY <2>2, <2>3
<1> QED
  BY <1>1, FoundInvariance, PTL
=============================================================================
