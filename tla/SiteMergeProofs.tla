-------------------------- MODULE SiteMergeProofs --------------------------
(***************************************************************************)
(* Proofs about SiteMerge for any wheels over any tree: the merge is the   *)
(* overlay of the wheels, reports where they differ, and drops bytecode    *)
(* with the source it was made of.                                         *)
(***************************************************************************)
EXTENDS SiteMerge, SequenceTheorems, TLAPS

Entries == {Missing, Dir} \cup File
Says == sources[src]  \* the wheel being merged
Module == Path \ Bytecode

-----------------------------------------------------------------------------
(* Facts about entries and paths.                                          *)

LEMMA EntryKinds ==
  /\ Missing \in Entries /\ Dir \in Entries /\ Missing # Dir
  /\ ~ IsFile(Missing) /\ ~ IsFile(Dir)
  /\ \A e \in Entries : e # Missing /\ e # Dir => IsFile(e)
BY DEF Entries, File, IsFile, Missing, Dir

\* The beginnings of a path.
LEMMA PathParts ==
  ASSUME NEW p \in Path
  PROVE  /\ p \in Seq(STRING) /\ Len(p) \in Nat \ {0}
         /\ \A k \in 0 .. Len(p) - 1 :
              /\ SubSeq(p, 1, k) \in Seq(STRING) /\ Len(SubSeq(p, 1, k)) = k
              /\ \A i \in 1 .. k : SubSeq(p, 1, k)[i] = p[i]
<1>1. p \in Seq(STRING) /\ Len(p) \in Nat \ {0} /\ \A i \in 1 .. Len(p) : p[i] \in STRING
  BY PathAssumption DEF Root
<1>2. ASSUME NEW k \in 0 .. Len(p) - 1
      PROVE  /\ SubSeq(p, 1, k) \in Seq(STRING) /\ Len(SubSeq(p, 1, k)) = k
             /\ \A i \in 1 .. k : SubSeq(p, 1, k)[i] = p[i]
  <2>1. k \in Int /\ 1 \in Int /\ \A i \in 1 .. k : p[i] \in STRING
    BY <1>1
  <2>2. /\ SubSeq(p, 1, k) \in Seq(STRING)
        /\ Len(SubSeq(p, 1, k)) = IF 1 <= k THEN k - 1 + 1 ELSE 0
        /\ \A i \in 1 .. k - 1 + 1 : SubSeq(p, 1, k)[i] = p[1 + i - 1]
    BY <2>1, SubSeqProperties
  <2>3. Len(SubSeq(p, 1, k)) = k
    BY <1>1, <2>1, <2>2
  <2> QED
    BY <2>1, <2>2, <2>3
<1> QED
  BY <1>1, <1>2

\* What is above a path is a beginning of it, at any depth.
LEMMA AboveParts ==
  ASSUME NEW p \in Path, NEW q
  PROVE  q \in Above(p) <=>
           q \in Path /\ Len(q) < Len(p) /\ \A i \in 1 .. Len(q) : q[i] = p[i]
<1>1. ASSUME q \in Above(p)
      PROVE  q \in Path /\ Len(q) < Len(p) /\ \A i \in 1 .. Len(q) : q[i] = p[i]
  <2>1. PICK k \in 1 .. Len(p) - 1 : q = SubSeq(p, 1, k)
    BY <1>1 DEF Above
  <2>2. k \in 0 .. Len(p) - 1 /\ k < Len(p)
    BY PathParts
  <2>3. q \in Path
    BY <1>1, PathAssumption
  <2> QED
    BY <2>1, <2>2, <2>3, PathParts
<1>2. ASSUME q \in Path, Len(q) < Len(p), \A i \in 1 .. Len(q) : q[i] = p[i]
      PROVE  q \in Above(p)
  <2>1. q \in Seq(STRING) /\ Len(q) \in 1 .. Len(p) - 1 /\ Len(q) \in 0 .. Len(p) - 1
    BY <1>2, PathParts
  <2> DEFINE r == SubSeq(p, 1, Len(q))
  <2>2. r \in Seq(STRING) /\ Len(r) = Len(q) /\ \A i \in 1 .. Len(r) : r[i] = q[i]
    BY <1>2, <2>1, PathParts
  <2>3. r = q
    BY <2>1, <2>2, SeqEqual
  <2> QED
    BY <2>1, <2>3 DEF Above
<1> QED
  BY <1>1, <1>2

\* A path is in one directory, and what is above it is that or above that.
LEMMA ParentProperties ==
  ASSUME NEW p \in Path
  PROVE  /\ Parent(p) \in Path \cup {Root} /\ Root \notin Path
         /\ \A q \in Path :
              q \in Above(p) <=> Parent(p) \in Path /\ (q = Parent(p) \/ q \in Above(Parent(p)))
         /\ Rank[p] \in Nat /\ Rank[Parent(p)] \in Nat /\ Rank[Parent(p)] < Rank[p]
<1> DEFINE d == Parent(p)
<1>1. Len(p) \in Nat \ {0} /\ Len(p) - 1 \in 0 .. Len(p) - 1
  BY PathParts
<1>2. d \in Seq(STRING) /\ Len(d) = Len(p) - 1 /\ \A i \in 1 .. Len(d) : d[i] = p[i]
  BY <1>1, PathParts DEF Parent, Front
<1>3. Root \notin Path
  BY PathAssumption
<1> HIDE DEF d
<1>4. d # Root => d \in Above(p)
  <2>1. ASSUME d # Root PROVE Len(d) \in 1 .. Len(p) - 1
    BY <1>1, <1>2, <2>1 DEF Root
  <2>2. ASSUME d # Root PROVE SubSeq(p, 1, Len(d)) = d
    BY <1>2 DEF d, Parent, Front
  <2> QED
    BY <2>1, <2>2 DEF Above
<1>5. d \in Path \cup {Root}
  BY <1>4, PathAssumption
<1>6. ASSUME NEW q \in Path
      PROVE  q \in Above(p) <=> d \in Path /\ (q = d \/ q \in Above(d))
  <2>1. q \in Seq(STRING) /\ Len(q) \in Nat \ {0}
    BY PathParts
  <2>2. ASSUME q \in Above(p) PROVE d \in Path /\ (q = d \/ q \in Above(d))
    <3>1. Len(q) < Len(p) /\ \A i \in 1 .. Len(q) : q[i] = p[i]
      BY <2>2, AboveParts
    <3>2. Len(q) <= Len(d) /\ \A i \in 1 .. Len(q) : q[i] = d[i]
      BY <1>1, <1>2, <2>1, <3>1
    <3>3. Len(d) # 0
      BY <1>1, <1>2, <2>1, <3>2
    <3>4. d \in Path
      BY <1>2, <1>5, <3>3 DEF Root
    <3>5. Len(q) = Len(d) => q = d
      BY <1>2, <2>1, <3>2, SeqEqual
    <3>6. Len(q) # Len(d) => q \in Above(d)
      BY <1>1, <1>2, <2>1, <3>2, <3>4, AboveParts
    <3> QED
      BY <3>4, <3>5, <3>6
  <2>3. ASSUME d \in Path, q = d PROVE q \in Above(p)
    BY <1>3, <1>4, <2>3
  <2>4. ASSUME d \in Path, q \in Above(d) PROVE q \in Above(p)
    <3>1. Len(q) < Len(d) /\ \A i \in 1 .. Len(q) : q[i] = d[i]
      BY <2>4, AboveParts
    <3>2. Len(q) < Len(p) /\ \A i \in 1 .. Len(q) : q[i] = p[i]
      BY <1>1, <1>2, <2>1, <3>1
    <3> QED
      BY <3>2, AboveParts
  <2> QED
    BY <2>2, <2>3, <2>4
<1>7. Rank[p] \in Nat /\ Rank[d] \in Nat /\ Rank[d] < Rank[p]
  BY <1>4, <1>5, RankAssumption
<1> QED
  BY <1>3, <1>5, <1>6, <1>7 DEF d

LEMMA AboveProperties ==
  ASSUME NEW p \in Path, NEW q \in Above(p)
  PROVE  /\ q \in Path /\ q # p /\ p \notin Above(q)
         /\ \A r \in Above(q) : r \in Above(p)
         /\ Rank[q] < Rank[p] /\ Rank[Parent(q)] < Rank[Parent(p)]
         /\ q \notin Bytecode
<1>1. q \in Path /\ Len(q) < Len(p) /\ \A i \in 1 .. Len(q) : q[i] = p[i]
  BY AboveParts
<1>2. Len(p) \in Nat /\ Len(q) \in Nat
  BY <1>1, PathParts
<1>3. Rank[q] < Rank[p]
  BY RankAssumption
<1>4. ASSUME NEW r \in Above(q) PROVE r \in Above(p) /\ r # p
  <2>1. r \in Path /\ Len(r) < Len(q) /\ \A i \in 1 .. Len(r) : r[i] = q[i]
    BY <1>1, AboveParts
  <2>2. Len(r) \in Nat
    BY <2>1, PathParts
  <2>3. Len(r) < Len(p) /\ \A i \in 1 .. Len(r) : r[i] = p[i]
    BY <1>1, <1>2, <2>1, <2>2
  <2> QED
    BY <1>2, <2>1, <2>2, <2>3, AboveParts
<1>5. Rank[Parent(q)] < Rank[Parent(p)]
  <2>1. Parent(p) \in Path /\ (q = Parent(p) \/ q \in Above(Parent(p)))
    BY <1>1, ParentProperties
  <2>2. Rank[q] = Rank[Parent(p)] \/ Rank[q] < Rank[Parent(p)]
    BY <2>1, RankAssumption
  <2>3. /\ Rank[Parent(q)] < Rank[q]
        /\ Rank[q] \in Nat /\ Rank[Parent(q)] \in Nat /\ Rank[Parent(p)] \in Nat
    BY <1>1, ParentProperties
  <2> QED
    BY <2>2, <2>3
<1>6. q \notin Bytecode
  BY <1>1, SourceAssumption DEF Bytecode, Below
<1> QED
  BY <1>1, <1>2, <1>3, <1>4, <1>5, <1>6

-----------------------------------------------------------------------------
(* The overlay, wheel by wheel.                                            *)

\* Where a path has providers among the first k wheels it has a last one.
HasLast(p, k) ==
  Providers(p, k) # {} => \E w \in Providers(p, k) : \A u \in Providers(p, k) : u <= w

LEMMA OverlayOfNone ==
  ASSUME NEW p \in Path
  PROVE  Overlay(p, 0) = Missing /\ HasLast(p, 0)
<1>1. Providers(p, 0) = {}
  BY DEF Providers
<1> QED
  BY <1>1 DEF Overlay, HasLast

LEMMA OverlayStep ==
  ASSUME sources \in Merges, NEW k \in DOMAIN sources, NEW p \in Path, HasLast(p, k - 1)
  PROVE  /\ HasLast(p, k)
         /\ sources[k][p] # Missing => LastProvider(p, k) = k /\ Overlay(p, k) = sources[k][p]
         /\ sources[k][p] = Missing =>
              /\ LastProvider(p, k) = LastProvider(p, k - 1)
              /\ Overlay(p, k) = IF \E q \in Above(p) : IsFile(sources[k][q]) THEN Missing
                                 ELSE Overlay(p, k - 1)
<1>1. k \in Nat /\ k >= 1 /\ WellFormed(sources[k])
  BY MergesAssumption
<1>2. CASE sources[k][p] # Missing
  <2>1. k \in Providers(p, k) /\ \A u \in Providers(p, k) : u \in Nat /\ u <= k
    BY <1>1, <1>2 DEF Providers
  <2>2. LastProvider(p, k) = k
    BY <1>1, <2>1 DEF LastProvider
  <2>3. \A u \in k .. k : u = k
    BY <1>1
  <2>4. \A q \in Above(p) : ~ IsFile(sources[k][q])
    BY <1>1, <1>2, EntryKinds DEF WellFormed
  <2> QED
    BY <1>2, <2>1, <2>2, <2>3, <2>4 DEF Overlay, HasLast
<1>3. CASE sources[k][p] = Missing
  <2>1. Providers(p, k) = Providers(p, k - 1)
    BY <1>1, <1>3 DEF Providers
  <2>2. LastProvider(p, k) = LastProvider(p, k - 1) /\ HasLast(p, k)
    BY <2>1 DEF LastProvider, HasLast
  <2>3. CASE Providers(p, k - 1) = {}
    BY <1>3, <2>1, <2>2, <2>3 DEF Overlay
  <2>4. CASE Providers(p, k - 1) # {}
    <3> DEFINE l == LastProvider(p, k - 1)
    <3>1. l \in Providers(p, k - 1)
      BY <2>4 DEF HasLast, LastProvider
    <3>2. l \in Nat /\ l <= k - 1
      BY <1>1, <3>1 DEF Providers
    <3>3. sources[k][p] # sources[l][p]
      BY <1>3, <3>1 DEF Providers
    <3> HIDE DEF l
    <3>4. \A u : u \in l .. k <=> u = k \/ u \in l .. k - 1
      BY <1>1, <3>2
    <3>5. Overlay(p, k - 1) = IF \E u \in l .. k - 1 : \E q \in Above(p) : IsFile(sources[u][q])
                              THEN Missing ELSE sources[l][p]
      BY <2>4 DEF Overlay, l
    <3>6. Overlay(p, k) = IF \E u \in l .. k : \E q \in Above(p) : IsFile(sources[u][q])
                          THEN Missing ELSE sources[l][p]
      BY <2>1, <2>2, <2>4 DEF Overlay, l
    <3>7. CASE \E q \in Above(p) : IsFile(sources[k][q])
      BY <1>3, <2>2, <3>4, <3>6, <3>7
    <3>8. CASE ~ \E q \in Above(p) : IsFile(sources[k][q])
      <4>1. (\E u \in l .. k : \E q \in Above(p) : IsFile(sources[u][q]))
              <=> \E u \in l .. k - 1 : \E q \in Above(p) : IsFile(sources[u][q])
        BY <3>4, <3>8
      <4> QED
        BY <1>3, <2>2, <3>5, <3>6, <3>8, <4>1
    <3> QED
      BY <3>7, <3>8
  <2> QED
    BY <2>3, <2>4
<1> QED
  BY <1>2, <1>3

-----------------------------------------------------------------------------
(* The inductive invariant, in parts.                                      *)

TypeOK ==
  /\ sources \in Merges
  /\ src \in DOMAIN sources
  /\ walk \subseteq Walk(Says)
  /\ into \in Tree
  /\ owners \in [Path -> Nat]
  /\ caches \in [Path -> Seq(Path)]
  /\ pc \in {"merging", "raised", "done", "refused"}

HasLasts == \A p \in Path : HasLast(p, src - 1)

\* The wheel was merged at p; a file of it was merged above p.
Said(p) == Says[p] # Missing /\ p \notin walk
GaveWay(p) == \E q \in Above(p) : q \notin walk /\ IsFile(Says[q])

\* The output between two entries: the new wheel where it was merged, the
\* overlay of those before it elsewhere, but for what gave way to a file.
IsMixed ==
  pc = "merging" => \A p \in Module :
    into[p] = IF Said(p) THEN Says[p] ELSE IF GaveWay(p) THEN Missing ELSE Overlay(p, src - 1)

\* What is in the output is in directories.
InDirs == \A p \in Module : into[p] # Missing => \A q \in Above(p) : into[q] = Dir

\* The owner is the wheel that provided the path last.
IsOwned ==
  pc = "merging" => \A p \in Module : into[p] # Missing =>
    owners[p] = IF Said(p) THEN src ELSE LastProvider(p, src - 1)

\* Every dispute met so far was reported, and nothing else.
Met(p, w) == w \in 1 .. src /\ Disputes(p, w) /\ (w = src => p \notin walk)
Report(p, w) == [path |-> p, previous |-> LastProvider(p, w - 1), current |-> w]
IsReported ==
  pc = "merging" => \A c :
    c \in conflicts /\ c.path \notin Bytecode <=>
      \E p \in Module : \E w \in 1 .. src : Met(p, w) /\ c = Report(p, w)

\* The end of a merge.
IsMerged ==
  Merged =>
    /\ \A p \in Module : into[p] = Overlay(p, n)
    /\ \A c : c \in conflicts /\ c.path \notin Bytecode <=>
                \E p \in Module : \E w \in DOMAIN sources : Disputes(p, w) /\ c = Report(p, w)

\* Bytecode is noted under its source, and what is in the output is a wheel's.
IsNoted == \A p \in Path : \A i \in DOMAIN caches[p] : Source[caches[p][i]] = p
Comes == \A p \in Path : into[p] # Missing => \E v \in DOMAIN sources : sources[v][p] = into[p]

\* Where the wheels agree, what is noted is there and is noted once.
Removable ==
  Agreeing =>
    /\ pc # "raised"
    /\ \A p \in Path : \A i \in DOMAIN caches[p] :
         /\ into[caches[p][i]] # Missing
         /\ \A j \in DOMAIN caches[p] : caches[p][i] = caches[p][j] => i = j

IInv ==
  /\ TypeOK /\ HasLasts /\ IsMixed /\ InDirs /\ IsOwned /\ IsReported /\ IsMerged
  /\ IsNoted /\ Comes /\ Removable

LEMMA TreeTypes ==
  ASSUME TypeOK
  PROVE  /\ \A w \in DOMAIN sources : WellFormed(sources[w]) /\ sources[w] \in [Path -> Entries]
         /\ DOMAIN sources = 1 .. Len(sources) /\ Len(sources) \in Nat
         /\ src \in Nat /\ src >= 1 /\ src <= Len(sources)
         /\ Says \in [Path -> Entries] /\ WellFormed(Says) /\ into \in [Path -> Entries]
         /\ \A p : p \in walk => p \in Path /\ Says[p] # Missing
BY MergesAssumption DEF TypeOK, Tree, Entries, Says, Walk

LEMMA InitIInv == Init => IInv
<1> SUFFICES ASSUME Init PROVE IInv
  OBVIOUS
<1>1. /\ sources \in Seq(Tree) /\ sources # << >> /\ src = 1
      /\ \A p \in Path : into[p] = Missing /\ caches[p] = << >>
      /\ conflicts = {} /\ pc = "merging"
  BY MergesAssumption DEF Init
<1>2. TypeOK
  BY <1>1, EntryKinds DEF Init, TypeOK, Says, Tree
<1>3. /\ \A p \in Path : HasLast(p, src - 1) /\ Overlay(p, src - 1) = Missing
  BY <1>1, OverlayOfNone
<1>4. \A p \in Path : ~ Said(p)
  BY <1>1 DEF Init, Said, Says, Walk
<1>5. IsMixed
  BY <1>1, <1>3, <1>4 DEF IsMixed, Module
<1>6. \A p \in Path, w \in 1 .. 1 : ~ Met(p, w)
  BY <1>1, <1>3 DEF Met, Disputes
<1>7. IsReported
  BY <1>1, <1>6 DEF IsReported, Module
<1>8. InDirs /\ IsOwned /\ IsNoted /\ Comes /\ Removable /\ HasLasts /\ IsMerged
  BY <1>1, <1>3 DEF InDirs, IsOwned, IsNoted, Comes, Removable, HasLasts, IsMerged, Merged, Module
<1> QED
  BY <1>2, <1>5, <1>7, <1>8 DEF IInv

-----------------------------------------------------------------------------
(* One entry.                                                              *)

\* Directories come before what they hold, so an entry finds those above it
\* merged, and the overlay of the earlier wheels in its own place.
LEMMA EntryFinds ==
  ASSUME IInv, NEW p \in Path, Entry(p)
  PROVE  /\ pc = "merging" /\ p \in walk /\ Says[p] # Missing
         /\ \A q \in Above(p) : q \notin walk /\ Says[q] = Dir /\ into[q] = Dir
         /\ p \in Module => /\ into[p] = Overlay(p, src - 1)
                            /\ into[p] # Missing => owners[p] = LastProvider(p, src - 1)
<1>1. pc = "merging" /\ p \in walk /\ Says[p] # Missing
  BY TreeTypes DEF Entry, IInv
<1>2. ASSUME NEW q \in Above(p) PROVE q \notin walk /\ Says[q] = Dir /\ q \in Module
  <2>1. Says[q] = Dir
    BY <1>1, TreeTypes DEF IInv, WellFormed
  <2>2. q \in Path /\ q # p /\ q \notin Bytecode
    BY AboveProperties
  <2>3. ASSUME q \in walk PROVE FALSE
    <3>1. Before(sources[src], p, q)
      BY <2>2, <2>3 DEF Entry
    <3>4. Rank[Parent(q)] < Rank[Parent(p)]
      BY AboveProperties
    <3>5. Rank[Parent(p)] \in Nat /\ Rank[Parent(q)] \in Nat /\ Parent(p) # Parent(q)
      BY <2>2, <3>4, ParentProperties
    <3>6. Rank[Parent(p)] < Rank[Parent(q)]
      BY <3>1, <3>5 DEF Before
    <3> QED
      BY <3>4, <3>5, <3>6
  <2> QED
    BY <2>1, <2>2, <2>3 DEF Module
<1>3. \A q \in Above(p) : into[q] = Dir
  BY <1>1, <1>2, EntryKinds DEF IInv, IsMixed, Said
<1>4. ~ Said(p) /\ ~ GaveWay(p)
  BY <1>1, <1>2, EntryKinds DEF Said, GaveWay
<1>5. p \in Module => /\ into[p] = Overlay(p, src - 1)
                      /\ into[p] # Missing => owners[p] = LastProvider(p, src - 1)
  BY <1>1, <1>4 DEF IInv, IsMixed, IsOwned
<1> QED
  BY <1>1, <1>2, <1>3, <1>5

\* What the three ways to merge an entry have in common.
Placed(p) ==
  /\ sources' = sources /\ src' = src /\ pc' = pc
  /\ walk' = walk \ {p}
  /\ owners' = [owners EXCEPT ![p] = src]
  /\ into' \in Tree /\ into'[p] = Says[p]
  /\ \A q \in Path : q # p => into'[q] \in {Missing, into[q]}
  /\ \A q \in Module : q # p =>
       into'[q] = IF p \in Above(q) /\ IsFile(Says[p]) THEN Missing ELSE into[q]
  /\ conflicts' = IF into[p] # Missing /\ into[p] # Says[p] THEN conflicts \cup {Conflict(p)}
                  ELSE conflicts

LEMMA OverlayStays ==
  ASSUME sources' = sources
  PROVE  /\ \A p, k : Overlay(p, k)' = Overlay(p, k) /\ LastProvider(p, k)' = LastProvider(p, k)
         /\ \A p, k : HasLast(p, k)' <=> HasLast(p, k)
         /\ \A p, k : Disputes(p, k)' <=> Disputes(p, k)
         /\ n' = n
<1>1. \A p, k : Providers(p, k)' = Providers(p, k)
  BY DEF Providers
<1>2. \A p, k : LastProvider(p, k)' = LastProvider(p, k) /\ (HasLast(p, k)' <=> HasLast(p, k))
  BY <1>1 DEF LastProvider, HasLast
<1>3. \A p, k : Overlay(p, k)' = Overlay(p, k)
  BY <1>1, <1>2 DEF Overlay
<1>4. \A p, k : Disputes(p, k)' <=> Disputes(p, k)
  BY <1>3 DEF Disputes
<1> QED
  BY <1>2, <1>3, <1>4 DEF n

LEMMA PlacedKeeps ==
  ASSUME IInv, NEW p \in Path, Entry(p), Placed(p)
  PROVE  HasLasts' /\ IsMixed' /\ InDirs' /\ IsOwned' /\ IsReported' /\ IsMerged'
<1> USE DEF Placed
<1>1. /\ pc = "merging" /\ p \in walk /\ Says[p] # Missing
      /\ \A q \in Above(p) : q \notin walk /\ Says[q] = Dir /\ into[q] = Dir
      /\ p \in Module => /\ into[p] = Overlay(p, src - 1)
                         /\ into[p] # Missing => owners[p] = LastProvider(p, src - 1)
  BY EntryFinds
<1>2. Says' = Says /\ src' = src
  BY DEF Says
<1>3. Says \in [Path -> Entries] /\ WellFormed(Says) /\ into \in [Path -> Entries]
      /\ src \in Nat /\ src >= 1
  BY TreeTypes DEF IInv
<1>4. \A q \in Path : q # p => (Said(q)' <=> Said(q))
  BY <1>2 DEF Said
<1>5. Said(p)' /\ ~ Said(p)
  BY <1>1, <1>2 DEF Said
<1>6. \A q \in Module : GaveWay(q)' <=> GaveWay(q) \/ (p \in Above(q) /\ IsFile(Says[p]))
  BY <1>1, <1>2 DEF GaveWay
<1>7. \A q \in Module : Said(q) => ~ GaveWay(q)
  BY <1>3, EntryKinds DEF Said, GaveWay, WellFormed, Module
<1>8. \A q \in Module : p \in Above(q) /\ IsFile(Says[p]) => ~ Said(q) /\ q # p
  BY <1>3, EntryKinds, AboveProperties DEF Said, WellFormed, Module
<1>9. Overlay(p, src - 1)' = Overlay(p, src - 1) /\ HasLasts'
  BY OverlayStays DEF IInv, HasLasts
<1>10. IsMixed'
  <2>1. ASSUME NEW q \in Module, q # p
        PROVE  into'[q] = IF Said(q)' THEN Says'[q] ELSE IF GaveWay(q)' THEN Missing
                          ELSE Overlay(q, src - 1)'
    <3>1. into[q] = IF Said(q) THEN Says[q] ELSE IF GaveWay(q) THEN Missing ELSE Overlay(q, src - 1)
      BY <1>1 DEF IInv, IsMixed
    <3>2. Overlay(q, src - 1)' = Overlay(q, src - 1)
      BY OverlayStays
    <3>3. q \in Path
      BY DEF Module
    <3>4. CASE p \in Above(q) /\ IsFile(Says[p])
      BY <1>4, <1>6, <1>8, <2>1, <3>3, <3>4
    <3>5. CASE ~ (p \in Above(q) /\ IsFile(Says[p]))
      <4>1. GaveWay(q)' <=> GaveWay(q)
        BY <1>6, <3>5
      <4>2. Said(q)' <=> Said(q)
        BY <1>4, <2>1, <3>3
      <4>3. into'[q] = into[q]
        BY <2>1, <3>5
      <4> QED
        BY <1>2, <3>1, <3>2, <4>1, <4>2, <4>3
    <3> QED
      BY <3>4, <3>5
  <2> QED
    BY <1>2, <1>5, <2>1 DEF IsMixed
<1>11. InDirs'
  <2>1. ASSUME NEW q \in Module, into'[q] # Missing, NEW r \in Above(q)
        PROVE  into'[r] = Dir
    <3>1. r \in Module /\ r # q /\ q \in Path /\ q \notin Above(r)
      BY AboveProperties DEF Module
    <3>2. CASE q = p
      <4>1. into'[r] = into[r]
        BY <3>1, <3>2
      <4> QED
        BY <1>1, <2>1, <3>2, <4>1
    <3>3. CASE q # p
      <4>1. into[q] # Missing /\ ~ (p \in Above(q) /\ IsFile(Says[p]))
        BY <2>1, <3>3
      <4>2. into[r] = Dir
        BY <4>1, <2>1 DEF IInv, InDirs
      <4>3. CASE r = p
        BY <1>1, <1>3, <2>1, <4>1, <4>3, EntryKinds
      <4>4. CASE r # p
        <5>1. p \in Above(r) => p \in Above(q)
          BY <2>1, <3>1, AboveProperties
        <5> QED
          BY <3>1, <4>1, <4>2, <4>4, <5>1
      <4> QED
        BY <4>3, <4>4
    <3> QED
      BY <3>2, <3>3
  <2> QED
    BY <2>1 DEF InDirs
<1>12. IsOwned'
  <2>1. ASSUME NEW q \in Module, into'[q] # Missing
        PROVE  owners'[q] = IF Said(q)' THEN src ELSE LastProvider(q, src - 1)'
    <3>1. q \in Path /\ owners \in [Path -> Nat]
      BY DEF Module, IInv, TypeOK
    <3>2. CASE q = p
      BY <1>5, <3>1, <3>2
    <3>3. CASE q # p
      <4>1. into[q] # Missing /\ owners'[q] = owners[q]
        BY <2>1, <3>1, <3>3
      <4>2. LastProvider(q, src - 1)' = LastProvider(q, src - 1)
        BY OverlayStays
      <4> QED
        BY <1>1, <1>4, <3>1, <3>3, <4>1, <4>2 DEF IInv, IsOwned
    <3> QED
      BY <3>2, <3>3
  <2> QED
    BY <2>1 DEF IsOwned
<1>13. IsReported'
  <2>1. \A q, w : Report(q, w)' = Report(q, w)
    BY OverlayStays DEF Report
  <2>2. \A q, w : (Met(q, w))' <=> Met(q, w) \/ (q = p /\ w = src /\ Disputes(p, src))
    <3>1. \A q, w : Disputes(q, w)' <=> Disputes(q, w)
      BY OverlayStays
    <3> QED
      BY <1>1, <1>3, <3>1 DEF Met
  <2>3. p \in Module => /\ Disputes(p, src) <=> into[p] # Missing /\ into[p] # Says[p]
                        /\ into[p] # Missing => Conflict(p) = Report(p, src)
    BY <1>1 DEF Disputes, Conflict, Report, Says
  <2>4. Conflict(p).path = p
    BY DEF Conflict
  <2>5. \A c : c \in conflicts /\ c.path \notin Bytecode <=>
          \E q \in Module : \E w \in 1 .. src : Met(q, w) /\ c = Report(q, w)
    BY <1>1 DEF IInv, IsReported
  <2>6. ASSUME NEW c
        PROVE  c \in conflicts' /\ c.path \notin Bytecode <=>
                 \E q \in Module : \E w \in 1 .. src : (Met(q, w))' /\ c = Report(q, w)
    <3>1. CASE p \in Module
      <4>1. c \in conflicts' /\ c.path \notin Bytecode <=>
              \/ c \in conflicts /\ c.path \notin Bytecode
              \/ Disputes(p, src) /\ c = Report(p, src)
        BY <2>3, <2>4, <3>1 DEF Module
      <4>2. src \in 1 .. src
        BY <1>3
      <4> QED
        BY <2>2, <2>5, <3>1, <4>1, <4>2
    <3>2. CASE p \notin Module
      <4>1. c \in conflicts' /\ c.path \notin Bytecode <=> c \in conflicts /\ c.path \notin Bytecode
        BY <2>4, <3>2 DEF Module
      <4> QED
        BY <2>2, <2>5, <3>2, <4>1
    <3> QED
      BY <3>1, <3>2
  <2> QED
    BY <2>1, <2>6 DEF IsReported
<1>14. IsMerged'
  BY <1>1 DEF IsMerged, Merged
<1> QED
  BY <1>9, <1>10, <1>11, <1>12, <1>13, <1>14

\* Bytecode holds nothing, so only bytecode is dropped with a source.
LEMMA StaleIsBytecode ==
  ASSUME IInv, NEW p \in Path
  PROVE  /\ \A c \in StaleCaches(p) : c \in Path /\ Source[c] = p /\ c \in Bytecode /\ c # p
         /\ \A q \in Path : ({q} \cup Above(q)) \cap StaleCaches(p) # {} => q \in StaleCaches(p)
<1>1. ASSUME NEW c \in StaleCaches(p)
      PROVE  c \in Path /\ Source[c] = p /\ c \in Bytecode /\ c # p
  <2>1. caches[p] \in Seq(Path)
    BY DEF IInv, TypeOK
  <2>2. PICK i \in DOMAIN caches[p] : caches[p][i] = c
    BY <2>1 DEF StaleCaches, ToSet
  <2>3. c \in Path /\ Source[c] = p
    BY <2>1, <2>2 DEF IInv, IsNoted
  <2> QED
    BY <2>3, SourceAssumption DEF Bytecode
<1>2. ASSUME NEW q \in Path, ({q} \cup Above(q)) \cap StaleCaches(p) # {}
      PROVE  q \in StaleCaches(p)
  BY <1>1, <1>2, AboveProperties
<1> QED
  BY <1>1, <1>2

LEMMA MergeDirPlaces ==
  ASSUME IInv, NEW p \in Path, MergeDir(p)
  PROVE  Placed(p) /\ \A q \in Path : q # p => into'[q] = into[q]
<1>1. into \in [Path -> Entries] /\ into[p] \in Entries /\ Says[p] = Dir
  BY TreeTypes DEF IInv, MergeDir, Says
<1>2. into' = [into EXCEPT ![p] = Dir] /\ ~ IsFile(Says[p])
  BY <1>1, EntryKinds DEF MergeDir
<1>3. into' \in Tree
  BY <1>1, <1>2, EntryKinds DEF Tree, Entries
<1>4. IsFile(into[p]) <=> into[p] # Missing /\ into[p] # Says[p]
  BY <1>1, EntryKinds
<1>5. \A q \in Path : q # p => into'[q] = into[q]
  BY <1>1, <1>2
<1>6. into'[p] = Says[p]
  BY <1>1, <1>2
<1> QED
  BY <1>2, <1>3, <1>4, <1>5, <1>6 DEF Placed, MergeDir, Module

LEMMA MergeSameFilePlaces ==
  ASSUME IInv, NEW p \in Path, MergeSameFile(p)
  PROVE  Placed(p) /\ \A q \in Path : q # p => into'[q] = into[q]
<1>1. into \in [Path -> Entries] /\ Says \in [Path -> Entries] /\ IsFile(into[p])
  BY TreeTypes DEF IInv, MergeSameFile
<1>2. into' = [into EXCEPT ![p] = Says[p]]
  BY DEF MergeSameFile, Says
<1>3. into' \in Tree
  BY <1>1, <1>2 DEF Tree, Entries
<1>4. into[p] # Missing /\ into[p] # Dir
  BY <1>1, EntryKinds
<1>5. \A q \in Path : q # p => into'[q] = into[q]
  BY <1>1, <1>2
<1>6. \A q \in Module : p \in Above(q) => into[q] = Missing
  BY <1>4 DEF IInv, InDirs
<1>7. into'[p] = Says[p]
  BY <1>1, <1>2
<1>8. conflicts' = IF into[p] # Missing /\ into[p] # Says[p] THEN conflicts \cup {Conflict(p)}
                   ELSE conflicts
  BY <1>4 DEF MergeSameFile, Says
<1> QED
  BY <1>3, <1>5, <1>6, <1>7, <1>8 DEF Placed, MergeSameFile, Module

\* The two ways MergeFile ends.
FilePlaced(p) == MergeFile(p) /\ ~ RemovalRaises(_remove(into, p), p)
FileRaises(p) == MergeFile(p) /\ RemovalRaises(_remove(into, p), p)

LEMMA MergeFilePlaces ==
  ASSUME IInv, NEW p \in Path, FilePlaced(p)
  PROVE  Placed(p)
<1>1. /\ into \in [Path -> Entries] /\ Says \in [Path -> Entries] /\ IsFile(Says[p])
      /\ into[p] # Says[p]
  BY TreeTypes DEF IInv, FilePlaced, MergeFile, Says
<1>2. into' = [q \in Path |->
                 IF q = p THEN Says[p]
                 ELSE IF ({q} \cup Above(q)) \cap StaleCaches(p) # {} THEN Missing
                 ELSE _remove(into, p)[q]]
  BY DEF FilePlaced, MergeFile, Says
<1>3. \A q \in Path : q # p =>
        into'[q] = IF ({q} \cup Above(q)) \cap StaleCaches(p) # {} \/ p \in Above(q) THEN Missing
                   ELSE into[q]
  BY <1>2 DEF _remove
<1>4. into'[p] = Says[p]
  BY <1>2
<1>5. into' \in Tree
  <2>1. \A q \in Path : into'[q] \in Entries
    BY <1>1, <1>3, <1>4, EntryKinds
  <2> QED
    BY <1>2, <2>1 DEF Tree, Entries
<1>6. \A q \in Module : ({q} \cup Above(q)) \cap StaleCaches(p) = {}
  BY StaleIsBytecode DEF Module
<1>7. conflicts' = IF into[p] # Missing /\ into[p] # Says[p] THEN conflicts \cup {Conflict(p)}
                   ELSE conflicts
  BY <1>1 DEF FilePlaced, MergeFile
<1>8. /\ sources' = sources /\ src' = src /\ pc' = pc /\ walk' = walk \ {p}
      /\ owners' = [owners EXCEPT ![p] = src]
  BY DEF FilePlaced, MergeFile
<1> QED
  BY <1>1, <1>3, <1>4, <1>5, <1>6, <1>7, <1>8 DEF Placed, Module

\* A placed entry keeps the types, and what is there is a wheel's.
LEMMA PlacedTypes ==
  ASSUME IInv, NEW p \in Path, Entry(p), Placed(p), caches' \in [Path -> Seq(Path)]
  PROVE  TypeOK' /\ Comes'
<1>1. Says' = Says /\ src \in Nat /\ src \in DOMAIN sources /\ owners \in [Path -> Nat]
  BY TreeTypes DEF IInv, TypeOK, Says, Placed
<1>2. walk \subseteq Walk(Says)
  BY DEF IInv, TypeOK
<1>3. walk' \subseteq Walk(Says)
  BY <1>2 DEF Placed
<1>4. Walk(Says)' = Walk(Says)
  BY <1>1 DEF Walk
<1>5. owners' \in [Path -> Nat]
  BY <1>1 DEF Placed
<1>6. TypeOK'
  BY <1>1, <1>3, <1>4, <1>5 DEF IInv, TypeOK, Placed
<1>7. ASSUME NEW q \in Path, into'[q] # Missing
      PROVE  \E v \in DOMAIN sources : sources[v][q] = into'[q]
  <2>1. CASE q = p
    BY <1>1, <2>1 DEF Placed, Says
  <2>2. CASE q # p
    BY <1>7, <2>2 DEF Placed, IInv, Comes
  <2> QED
    BY <2>1, <2>2
<1> QED
  BY <1>6, <1>7 DEF Comes, Placed

LEMMA AgreeingStays ==
  ASSUME sources' = sources
  PROVE  Agreeing' <=> Agreeing
BY DEF Agreeing

\* Merging a directory, or a file that is there already, notes and drops nothing.
LEMMA UnnotedKeeps ==
  ASSUME IInv, NEW p \in Path, Entry(p), Placed(p), caches' = caches,
         \A q \in Path : q # p => into'[q] = into[q]
  PROVE  IInv'
<1>1. TypeOK' /\ Comes'
  BY PlacedTypes DEF IInv, TypeOK
<1>2. IsNoted'
  BY DEF IInv, IsNoted
<1>3. Says[p] # Missing /\ into'[p] = Says[p]
  BY EntryFinds DEF Placed
<1>4. ASSUME Agreeing, NEW q \in Path, NEW i \in DOMAIN caches[q]
      PROVE  into'[caches[q][i]] # Missing
  <2>1. caches[q][i] \in Path
    BY DEF IInv, TypeOK
  <2> QED
    BY <1>3, <1>4, <2>1 DEF IInv, Removable
<1>5. Removable'
  <2>1. (Agreeing' <=> Agreeing) /\ pc' = pc
    BY AgreeingStays DEF Placed
  <2> QED
    BY <1>4, <2>1 DEF IInv, Removable
<1> QED
  BY <1>1, <1>2, <1>5, PlacedKeeps DEF IInv

\* Where the wheels agree, a file takes the place of no directory, and
\* bytecode that is there is the wheel's own.
LEMMA AgreeingEntry ==
  ASSUME IInv, Agreeing, NEW p \in Path, MergeFile(p)
  PROVE  /\ \A q \in Path : p \in Above(q) => into[q] = Missing
         /\ p \in Bytecode => into[p] = Missing
<1>1. IsFile(Says[p]) /\ src \in DOMAIN sources /\ into \in [Path -> Entries]
  BY TreeTypes DEF IInv, TypeOK, MergeFile, Says
<1>2. ASSUME NEW q \in Path, p \in Above(q), into[q] # Missing
      PROVE  FALSE
  <2>1. PICK v \in DOMAIN sources : sources[v][q] = into[q]
    BY <1>2 DEF IInv, Comes
  <2>2. sources[v][p] = Dir
    BY <1>2, <2>1, TreeTypes DEF IInv, WellFormed
  <2> QED
    BY <1>1, <2>2 DEF Agreeing, Says
<1>3. ASSUME p \in Bytecode, into[p] # Missing
      PROVE  FALSE
  <2>1. PICK v \in DOMAIN sources : sources[v][p] = into[p]
    BY <1>3 DEF IInv, Comes
  <2>2. sources[v][p] # Dir
    BY <1>1 DEF Agreeing, Says
  <2>3. IsFile(sources[v][p])
    BY <1>1, <1>3, <2>1, <2>2, EntryKinds
  <2>4. sources[v][p] = Says[p]
    BY <1>1, <1>3, <2>3 DEF Agreeing, Says
  <2> QED
    BY <1>1, <2>1, <2>4 DEF MergeFile, Says
<1> QED
  BY <1>2, <1>3

LEMMA AgreeingNeverRaises ==
  ASSUME IInv, Agreeing, NEW p \in Path, MergeFile(p)
  PROVE  ~ RemovalRaises(_remove(into, p), p)
<1>1. caches[p] \in Seq(Path)
  BY DEF IInv, TypeOK
<1>2. ASSUME NEW c \in StaleCaches(p)
      PROVE  _remove(into, p)[c] # Missing
  <2>1. c \in Path /\ c # p
    BY StaleIsBytecode
  <2>2. PICK i \in DOMAIN caches[p] : caches[p][i] = c
    BY <1>1 DEF StaleCaches, ToSet
  <2>3. into[c] # Missing
    BY <2>2 DEF IInv, Removable
  <2>4. p \notin Above(c)
    BY <2>1, <2>3, AgreeingEntry
  <2> QED
    BY <2>1, <2>3, <2>4 DEF _remove
<1>3. \A i, j \in DOMAIN caches[p] : i # j => caches[p][i] # caches[p][j]
  BY DEF IInv, Removable
<1> QED
  BY <1>2, <1>3 DEF RemovalRaises

\* What is noted after a file was placed: what was noted of other sources,
\* and the file itself when it is bytecode.
LEMMA FilePlacedNotes ==
  ASSUME IInv, NEW p \in Path, FilePlaced(p)
  PROVE  /\ caches' \in [Path -> Seq(Path)]
         /\ \A q \in Path : \A i \in DOMAIN caches'[q] :
              \/ q # p /\ i \in DOMAIN caches[q] /\ caches'[q][i] = caches[q][i]
              \/ Source[p] = q /\ q # p /\ caches'[q][i] = p /\ i = Len(caches[q]) + 1
<1>1. caches \in [Path -> Seq(Path)]
  BY DEF IInv, TypeOK
<1>2. caches' = IF Source[p] = NoSource THEN pop(p) ELSE [pop(p) EXCEPT ![Source[p]] = Append(@, p)]
  BY DEF FilePlaced, MergeFile
<1>3. pop(p) = [caches EXCEPT ![p] = << >>] /\ pop(p) \in [Path -> Seq(Path)]
  BY <1>1 DEF pop
<1>4. Source[p] # p /\ (Source[p] # NoSource => Source[p] \in Path)
  BY SourceAssumption
<1>5. CASE Source[p] = NoSource
  <2>1. \A q \in Path : caches'[q] = IF q = p THEN << >> ELSE caches[q]
    BY <1>1, <1>2, <1>3, <1>5
  <2> QED
    BY <1>2, <1>3, <1>5, <2>1
<1>6. CASE Source[p] # NoSource
  <2>1. \A q \in Path : caches'[q] = IF q = p THEN << >>
                                     ELSE IF q = Source[p] THEN Append(caches[q], p) ELSE caches[q]
    BY <1>1, <1>2, <1>3, <1>4, <1>6
  <2>2. caches' \in [Path -> Seq(Path)]
    <3>1. Append(pop(p)[Source[p]], p) \in Seq(Path)
      BY <1>3, <1>4, <1>6
    <3> QED
      BY <1>2, <1>3, <1>6, <3>1
  <2>3. ASSUME NEW q \in Path, NEW i \in DOMAIN caches'[q]
        PROVE  \/ q # p /\ i \in DOMAIN caches[q] /\ caches'[q][i] = caches[q][i]
               \/ Source[p] = q /\ q # p /\ caches'[q][i] = p /\ i = Len(caches[q]) + 1
    <3>1. CASE q = p
      BY <2>1, <2>3, <3>1
    <3>2. CASE q = Source[p]
      <4>1. caches[q] \in Seq(Path) /\ caches'[q] = Append(caches[q], p) /\ q # p
        BY <1>1, <1>4, <2>1, <3>2
      <4>2. i \in 1 .. Len(caches[q]) + 1 /\ DOMAIN caches[q] = 1 .. Len(caches[q])
            /\ Len(caches[q]) \in Nat
        BY <2>3, <4>1
      <4>3. i \in DOMAIN caches[q] => caches'[q][i] = caches[q][i]
        BY <4>1, <4>2
      <4>4. i \notin DOMAIN caches[q] => i = Len(caches[q]) + 1 /\ caches'[q][i] = p
        BY <4>1, <4>2
      <4> QED
        BY <3>2, <4>1, <4>3, <4>4
    <3>3. CASE q # p /\ q # Source[p]
      BY <2>1, <2>3, <3>3
    <3> QED
      BY <3>1, <3>2, <3>3
  <2> QED
    BY <2>2, <2>3
<1> QED
  BY <1>5, <1>6

LEMMA FilePlacedKeeps ==
  ASSUME IInv, NEW p \in Path, FilePlaced(p)
  PROVE  IInv'
<1>1. Placed(p) /\ Entry(p) /\ MergeFile(p)
  BY MergeFilePlaces DEF FilePlaced, MergeFile
<1>2. TypeOK' /\ Comes'
  BY <1>1, FilePlacedNotes, PlacedTypes
<1>3. IsNoted'
  <2>1. ASSUME NEW q \in Path, NEW i \in DOMAIN caches'[q]
        PROVE  Source[caches'[q][i]] = q
    <3>1. CASE i \in DOMAIN caches[q] /\ caches'[q][i] = caches[q][i]
      BY <3>1 DEF IInv, IsNoted
    <3>2. CASE Source[p] = q /\ caches'[q][i] = p
      BY <3>2
    <3> QED
      BY <3>1, <3>2, FilePlacedNotes
  <2> QED
    BY <2>1 DEF IsNoted
<1>4. ASSUME Agreeing, NEW q \in Path, NEW i \in DOMAIN caches'[q]
      PROVE  into'[caches'[q][i]] # Missing
  <2>1. into'[p] # Missing
    BY <1>1, EntryFinds DEF Placed
  <2>2. CASE q # p /\ i \in DOMAIN caches[q] /\ caches'[q][i] = caches[q][i]
    <3> DEFINE c == caches[q][i]
    <3>1. c \in Path /\ Source[c] = q /\ into[c] # Missing
      BY <1>4, <2>2 DEF IInv, TypeOK, IsNoted, Removable
    <3>2. p \notin Above(c)
      BY <1>1, <1>4, <3>1, AgreeingEntry
    <3>3. c \notin StaleCaches(p)
      BY <2>2, <3>1, StaleIsBytecode
    <3>4. ({c} \cup Above(c)) \cap StaleCaches(p) = {}
      BY <3>1, <3>3, StaleIsBytecode
    <3>5. c # p => into'[c] = _remove(into, p)[c]
      BY <3>1, <3>4 DEF FilePlaced, MergeFile
    <3> QED
      BY <2>1, <2>2, <3>1, <3>2, <3>5 DEF _remove
  <2>3. CASE caches'[q][i] = p
    BY <2>1, <2>3
  <2> QED
    BY <2>2, <2>3, FilePlacedNotes
<1>5. ASSUME Agreeing, NEW q \in Path, NEW i \in DOMAIN caches'[q], NEW j \in DOMAIN caches'[q],
             caches'[q][i] = caches'[q][j]
      PROVE  i = j
  <2>1. \A h \in DOMAIN caches[q] : into[caches[q][h]] # Missing
        /\ \A k \in DOMAIN caches[q] : caches[q][h] = caches[q][k] => h = k
    BY <1>5 DEF IInv, Removable
  <2>2. Source[p] = q => into[p] = Missing
    BY <1>1, <1>5, AgreeingEntry, SourceAssumption DEF Bytecode
  <2> DEFINE Old(k) == k \in DOMAIN caches[q] /\ caches'[q][k] = caches[q][k]
             New(k) == Source[p] = q /\ caches'[q][k] = p /\ k = Len(caches[q]) + 1
  <2>3. (Old(i) \/ New(i)) /\ (Old(j) \/ New(j))
    BY FilePlacedNotes
  <2>4. CASE Old(i) /\ Old(j)
    BY <1>5, <2>1, <2>4
  <2>5. CASE New(i) /\ New(j)
    BY <2>5
  <2>6. CASE (Old(i) /\ New(j)) \/ (New(i) /\ Old(j))
    BY <1>5, <2>1, <2>2, <2>6
  <2> QED
    BY <2>3, <2>4, <2>5, <2>6
<1>6. Removable'
  <2>1. (Agreeing' <=> Agreeing) /\ pc' = pc
    BY <1>1, AgreeingStays DEF Placed
  <2> QED
    BY <1>4, <1>5, <2>1 DEF IInv, Removable
<1> QED
  BY <1>1, <1>2, <1>3, <1>6, PlacedKeeps DEF IInv

\* A removal that fails ends the merge where it is.
LEMMA FileRaisesKeeps ==
  ASSUME IInv, NEW p \in Path, FileRaises(p)
  PROVE  IInv'
<1>1. /\ pc' = "raised" /\ MergeFile(p)
      /\ UNCHANGED <<sources, src, walk, into, owners, caches>>
  BY DEF FileRaises, MergeFile
<1>2. ~ Agreeing
  BY <1>1, AgreeingNeverRaises DEF FileRaises
<1>3. TypeOK'
  BY <1>1 DEF IInv, TypeOK, Says, Walk
<1>4. HasLasts'
  BY <1>1, OverlayStays DEF IInv, HasLasts
<1>5. InDirs' /\ IsNoted' /\ Comes'
  BY <1>1 DEF IInv, InDirs, IsNoted, Comes
<1>6. IsMixed' /\ IsOwned' /\ IsReported' /\ IsMerged'
  BY <1>1 DEF IsMixed, IsOwned, IsReported, IsMerged, Merged
<1>7. Removable'
  BY <1>1, <1>2, AgreeingStays DEF Removable
<1> QED
  BY <1>3, <1>4, <1>5, <1>6, <1>7 DEF IInv

-----------------------------------------------------------------------------
(* One wheel.                                                              *)

\* When a wheel is walked, the output is the overlay up to it.
LEMMA WheelMerged ==
  ASSUME IInv, pc = "merging", walk = {}
  PROVE  /\ \A p \in Path : HasLast(p, src)
         /\ \A p \in Module : /\ into[p] = Overlay(p, src)
                              /\ into[p] # Missing => owners[p] = LastProvider(p, src)
         /\ \A c : c \in conflicts /\ c.path \notin Bytecode <=>
                     \E p \in Module : \E w \in 1 .. src : Disputes(p, w) /\ c = Report(p, w)
<1>1. sources \in Merges /\ src \in DOMAIN sources /\ \A p \in Path : HasLast(p, src - 1)
  BY DEF IInv, TypeOK, HasLasts
<1>2. ASSUME NEW p \in Path
      PROVE  /\ HasLast(p, src)
             /\ Says[p] # Missing => LastProvider(p, src) = src /\ Overlay(p, src) = Says[p]
             /\ Says[p] = Missing =>
                  /\ LastProvider(p, src) = LastProvider(p, src - 1)
                  /\ Overlay(p, src) = IF GaveWay(p) THEN Missing ELSE Overlay(p, src - 1)
  BY <1>1, <1>2, OverlayStep DEF Says, GaveWay
<1>3. \A p \in Path : Said(p) <=> Says[p] # Missing
  BY DEF Said
<1>4. ASSUME NEW p \in Module
      PROVE  /\ into[p] = Overlay(p, src)
             /\ into[p] # Missing => owners[p] = LastProvider(p, src)
  <2>1. p \in Path
    BY DEF Module
  <2>2. into[p] = IF Said(p) THEN Says[p] ELSE IF GaveWay(p) THEN Missing ELSE Overlay(p, src - 1)
    BY DEF IInv, IsMixed
  <2>3. into[p] # Missing => owners[p] = IF Said(p) THEN src ELSE LastProvider(p, src - 1)
    BY DEF IInv, IsOwned
  <2> QED
    BY <1>2, <1>3, <2>1, <2>2, <2>3
<1>5. \A p, w : Met(p, w) <=> w \in 1 .. src /\ Disputes(p, w)
  BY DEF Met
<1> QED
  BY <1>2, <1>4, <1>5 DEF IInv, IsReported

LEMMA NextSourceKeeps ==
  ASSUME IInv, NextSource
  PROVE  IInv'
<1>1. /\ pc = "merging" /\ walk = {} /\ src < Len(sources) /\ src' = src + 1
      /\ walk' = Walk(sources[src'])
      /\ UNCHANGED <<sources, into, owners, caches, conflicts, pc>>
  BY DEF NextSource
<1>2. DOMAIN sources = 1 .. Len(sources) /\ Len(sources) \in Nat /\ src \in Nat /\ src >= 1
  BY TreeTypes DEF IInv
<1>3. src' \in DOMAIN sources /\ src' - 1 = src /\ 1 .. src' = (1 .. src) \cup {src'}
  BY <1>1, <1>2
<1>4. Says' = sources[src'] /\ walk' = Walk(sources[src'])
  BY <1>1 DEF Says
<1>5. TypeOK'
  <2>1. Walk(Says)' = walk'
    BY <1>1, <1>4 DEF Walk
  <2> QED
    BY <1>1, <1>3, <2>1 DEF IInv, TypeOK
<1>6. \A p \in Path : ~ Said(p)' /\ ~ GaveWay(p)'
  <2>1. \A q \in Path : q \notin walk' => sources[src'][q] = Missing
    BY <1>1 DEF Walk
  <2>2. \A p \in Path : \A q \in Above(p) : q \in Path
    BY AboveProperties
  <2> QED
    BY <1>4, <2>1, <2>2, EntryKinds DEF Said, GaveWay
<1>7. /\ \A p \in Path : HasLast(p, src)
      /\ \A p \in Module : /\ into[p] = Overlay(p, src)
                           /\ into[p] # Missing => owners[p] = LastProvider(p, src)
      /\ \A c : c \in conflicts /\ c.path \notin Bytecode <=>
                  \E p \in Module : \E w \in 1 .. src : Disputes(p, w) /\ c = Report(p, w)
  BY <1>1, WheelMerged
<1>8. \A p : /\ Overlay(p, src - 1)' = Overlay(p, src)
             /\ LastProvider(p, src - 1)' = LastProvider(p, src)
             /\ HasLast(p, src - 1)' <=> HasLast(p, src)
  BY <1>1, <1>3, OverlayStays
<1>9. HasLasts' /\ IsMixed' /\ IsOwned'
  <2>1. HasLasts'
    BY <1>7, <1>8 DEF HasLasts
  <2>2. Module \subseteq Path
    BY DEF Module
  <2>3. IsMixed'
    BY <1>1, <1>6, <1>7, <1>8, <2>2 DEF IsMixed
  <2>4. IsOwned'
    BY <1>1, <1>6, <1>7, <1>8, <2>2 DEF IsOwned
  <2> QED
    BY <2>1, <2>3, <2>4
<1>10. InDirs' /\ IsNoted' /\ Comes'
  BY <1>1 DEF IInv, InDirs, IsNoted, Comes
<1>11. IsReported'
  <2>1. \A p, w : Report(p, w)' = Report(p, w)
    BY <1>1, OverlayStays DEF Report
  <2>2. ASSUME NEW p \in Module, NEW w
        PROVE  Met(p, w)' <=> w \in 1 .. src /\ Disputes(p, w)
    <3>1. Disputes(p, w)' <=> Disputes(p, w)
      BY <1>1, OverlayStays
    <3>2. w = src' => ~ (Disputes(p, w) /\ p \notin walk')
      BY <1>1 DEF Disputes, Walk, Module
    <3>3. Met(p, w)' <=> w \in 1 .. src' /\ Disputes(p, w) /\ (w = src' => p \notin walk')
      BY <3>1 DEF Met
    <3>4. src' \notin 1 .. src
      BY <1>2, <1>3
    <3> QED
      BY <1>3, <3>2, <3>3, <3>4
  <2>3. ASSUME NEW c
        PROVE  c \in conflicts' /\ c.path \notin Bytecode <=>
                 \E p \in Module : \E w \in 1 .. src' : Met(p, w)' /\ c = Report(p, w)
    BY <1>1, <1>3, <1>7, <2>2
  <2> QED
    BY <2>1, <2>3 DEF IsReported
<1>12. IsMerged'
  BY <1>1 DEF IsMerged, Merged
<1>13. Removable'
  BY <1>1, AgreeingStays DEF IInv, Removable
<1> QED
  BY <1>5, <1>9, <1>10, <1>11, <1>12, <1>13 DEF IInv

LEMMA FinishKeeps ==
  ASSUME IInv, Finish
  PROVE  IInv'
<1>1. /\ pc = "merging" /\ walk = {} /\ src = Len(sources) /\ pc' \in {"refused", "done"}
      /\ UNCHANGED <<sources, src, walk, into, owners, caches, conflicts>>
  BY DEF Finish
<1>2. DOMAIN sources = 1 .. src /\ n = src
  BY <1>1, TreeTypes DEF IInv, n
<1>3. TypeOK'
  BY <1>1 DEF IInv, TypeOK, Says, Walk
<1>4. HasLasts'
  BY <1>1, OverlayStays DEF IInv, HasLasts
<1>5. InDirs' /\ IsNoted' /\ Comes'
  BY <1>1 DEF IInv, InDirs, IsNoted, Comes
<1>6. IsMixed' /\ IsOwned' /\ IsReported'
  BY <1>1 DEF IsMixed, IsOwned, IsReported
<1>7. IsMerged'
  <2>1. \A p, w : /\ Report(p, w)' = Report(p, w) /\ (Disputes(p, w)' <=> Disputes(p, w))
                  /\ Overlay(p, w)' = Overlay(p, w)
    BY <1>1, OverlayStays DEF Report
  <2>2. n' = n
    BY <1>1, OverlayStays
  <2>3. \A p \in Module : into[p] = Overlay(p, n)
    BY <1>1, <1>2, WheelMerged
  <2>4. \A c : c \in conflicts /\ c.path \notin Bytecode <=>
                 \E p \in Module : \E w \in DOMAIN sources : Disputes(p, w) /\ c = Report(p, w)
    BY <1>1, <1>2, WheelMerged
  <2> QED
    BY <1>1, <2>1, <2>2, <2>3, <2>4 DEF IsMerged
<1>8. Removable'
  BY <1>1, AgreeingStays DEF IInv, Removable
<1> QED
  BY <1>3, <1>4, <1>5, <1>6, <1>7, <1>8 DEF IInv

LEMMA StutterKeeps ==
  ASSUME IInv, UNCHANGED vars
  PROVE  IInv'
<1>1. UNCHANGED <<sources, src, walk, into, owners, caches, conflicts, pc>>
  BY DEF vars
<1>2. TypeOK' /\ InDirs' /\ IsNoted' /\ Comes'
  BY <1>1 DEF IInv, TypeOK, InDirs, IsNoted, Comes, Says, Walk
<1>3. \A p, w : /\ Overlay(p, w)' = Overlay(p, w) /\ LastProvider(p, w)' = LastProvider(p, w)
                /\ (HasLast(p, w)' <=> HasLast(p, w)) /\ (Disputes(p, w)' <=> Disputes(p, w))
  BY <1>1, OverlayStays
<1>4. HasLasts'
  BY <1>1, <1>3 DEF IInv, HasLasts
<1>5. \A p : (Said(p)' <=> Said(p)) /\ (GaveWay(p)' <=> GaveWay(p))
  BY <1>1 DEF Said, GaveWay, Says
<1>6. IsMixed' /\ IsOwned'
  BY <1>1, <1>3, <1>5 DEF IInv, IsMixed, IsOwned, Says
<1>7. \A p, w : Report(p, w)' = Report(p, w) /\ (Met(p, w)' <=> Met(p, w))
  BY <1>1, <1>3 DEF Report, Met
<1>8. IsReported'
  BY <1>1, <1>7 DEF IInv, IsReported
<1>9. IsMerged'
  BY <1>1, <1>3, <1>7, OverlayStays DEF IInv, IsMerged, Merged
<1>10. Removable'
  BY <1>1, AgreeingStays DEF IInv, Removable
<1> QED
  BY <1>2, <1>4, <1>6, <1>8, <1>9, <1>10 DEF IInv

-----------------------------------------------------------------------------
(* The merge as a whole.                                                   *)

LEMMA Invariance == Spec => []IInv
<1>1. ASSUME IInv, [Next]_vars
      PROVE  IInv'
  <2>1. ASSUME NEW p \in Path, MergeDir(p) PROVE IInv'
    <3>1. Entry(p) /\ caches' = caches
      BY <2>1 DEF MergeDir
    <3> QED
      BY <1>1, <2>1, <3>1, MergeDirPlaces, UnnotedKeeps
  <2>2. ASSUME NEW p \in Path, MergeSameFile(p) PROVE IInv'
    <3>1. Entry(p) /\ caches' = caches
      BY <2>2 DEF MergeSameFile
    <3> QED
      BY <1>1, <2>2, <3>1, MergeSameFilePlaces, UnnotedKeeps
  <2>3. ASSUME NEW p \in Path, MergeFile(p) PROVE IInv'
    <3>1. FilePlaced(p) \/ FileRaises(p)
      BY <2>3 DEF FilePlaced, FileRaises
    <3> QED
      BY <1>1, <3>1, FilePlacedKeeps, FileRaisesKeeps
  <2>4. ASSUME Terminating \/ UNCHANGED vars PROVE IInv'
    BY <1>1, <2>4, StutterKeeps DEF Terminating
  <2> QED
    BY <1>1, <2>1, <2>2, <2>3, <2>4, NextSourceKeeps, FinishKeeps DEF Next
<1> QED
  BY <1>1, InitIInv, PTL DEF Spec

-----------------------------------------------------------------------------
(* Bytecode.                                                               *)

\* Wheel k takes the place of the source that the wheels before it left; what
\* is in the source's place has the content that the first k wheels left.
Drops(c, k) ==
  /\ IsFile(sources[k][Source[c]])
  /\ \/ ~ IsFile(Overlay(Source[c], k - 1))
     \/ Overlay(Source[c], k - 1)[2] # sources[k][Source[c]][2]
Keeps(c, k) ==
  IsFile(into[Source[c]]) =>
    \/ ~ IsFile(Overlay(Source[c], k))
    \/ into[Source[c]][2] = Overlay(Source[c], k)[2]

\* Bytecode that is there is noted, is the last wheel's and has its source; a
\* wheel's source and directories are merged before its bytecode; what is not
\* there was never there, gave way to a file or was dropped with its source.
IsThere(c) ==
  into[c] # Missing =>
    /\ c \in StaleCaches(Source[c])
    /\ \A q \in Above(c) : into[q] = Dir
    /\ Said(c) => into[c] = Says[c] /\ Keeps(c, src)
    /\ ~ Said(c) => into[c] = Overlay(c, src - 1) /\ Keeps(c, LastProvider(c, src - 1))
ComesAfter(c) ==
  Said(c) => into[c] # Missing /\ Source[c] \notin walk /\ \A q \in Above(c) : q \notin walk
IsGone(c) ==
  into[c] = Missing =>
    \/ Overlay(c, src - 1) = Missing
    \/ GaveWay(c)
    \/ \E k \in LastProvider(c, src - 1) + 1 .. src : Drops(c, k)
AreFresh == pc = "merging" => \A c \in Bytecode : IsThere(c) /\ ComesAfter(c) /\ IsGone(c)

FInv == IInv /\ AreFresh /\ BytecodeFresh

\* Bytecode and its source are in the same directories, the bytecode deeper.
LEMMA BytecodeProperties ==
  ASSUME NEW c \in Bytecode
  PROVE  /\ c \in Path /\ Source[c] \in Module /\ Source[c] \in Path
         /\ Source[c] # c /\ Source[c] \notin Above(c)
         /\ \A q \in Above(Source[c]) : q \in Above(c)
         /\ Rank[Parent(Source[c])] < Rank[Parent(c)]
         /\ \A q \in Path : c \notin Above(q)
         /\ \A q \in Above(c) : q \in Module /\ Rank[Parent(q)] < Rank[Parent(c)]
<1> DEFINE s == Source[c]
           d == Parent(c)
<1>1. /\ c \in Path /\ s \in Path /\ s # c /\ s \in Module
      /\ d # Root /\ d # s /\ Parent(s) = Parent(d)
  BY SourceAssumption DEF Bytecode, Module
<1>2. d \in Path
  BY <1>1, ParentProperties
<1> HIDE DEF s, d
<1>3. Rank[Parent(d)] < Rank[d] /\ Rank[Parent(s)] < Rank[s]
  BY <1>1, <1>2, ParentProperties
<1>4. \A q \in Above(s) : q \in Above(d)
  BY <1>1, <1>2, ParentProperties, AboveProperties
<1>5. \A q \in Path : q \in Above(c) <=> q = d \/ q \in Above(d)
  BY <1>1, <1>2, ParentProperties DEF d
<1>6. s \notin Above(c)
  <2>1. ASSUME s \in Above(d) PROVE FALSE
    <3>1. Rank[Parent(s)] < Rank[Parent(d)] /\ Rank[Parent(s)] \in Nat
      BY <1>1, <1>2, <2>1, AboveProperties, ParentProperties
    <3> QED
      BY <1>1, <3>1
  <2> QED
    BY <1>1, <1>5, <2>1
<1>7. \A q \in Above(s) : q \in Above(c)
  BY <1>1, <1>4, <1>5, AboveProperties
<1>8. \A q \in Above(c) : q \in Module /\ Rank[Parent(q)] < Rank[d]
  BY <1>1, AboveProperties DEF Module, d
<1>9. \A q \in Path : c \notin Above(q)
  BY AboveProperties
<1> QED
  BY <1>1, <1>3, <1>6, <1>7, <1>8, <1>9 DEF s, d

\* No directory is called like it, in a wheel or in the output.
LEMMA BytecodeIsFile ==
  ASSUME IInv, NEW c \in Bytecode
  PROVE  Says[c] # Dir /\ into[c] # Dir /\ (into[c] # Missing => IsFile(into[c]))
<1>1. \A w \in DOMAIN sources : sources[w][c] # Dir
  BY BytecodeProperties, MergesAssumption DEF IInv, TypeOK, Bytecode
<1>2. src \in DOMAIN sources /\ into \in [Path -> Entries] /\ c \in Path
  BY BytecodeProperties, TreeTypes DEF IInv, TypeOK
<1>3. into[c] # Dir
  BY <1>1, <1>2, EntryKinds DEF IInv, Comes
<1> QED
  BY <1>1, <1>2, <1>3, EntryKinds DEF Says

\* os.walk comes to the source and to the directories of bytecode first.
LEMMA BytecodeComesAfter ==
  ASSUME IInv, NEW c \in Bytecode, Entry(c)
  PROVE  Source[c] \notin walk /\ \A q \in Above(c) : q \notin walk
<1>1. ASSUME NEW q \in Path, Rank[Parent(q)] < Rank[Parent(c)], q # c, q \in walk
      PROVE  FALSE
  <2>1. Before(sources[src], c, q)
    BY <1>1 DEF Entry
  <2>2. \A x \in Path : Rank[Parent(x)] \in Nat
    BY ParentProperties
  <2>3. Rank[Parent(q)] \in Nat /\ Rank[Parent(c)] \in Nat
    BY <1>1, <2>2, BytecodeProperties
  <2>4. Parent(c) # Parent(q)
    BY <1>1, <2>3
  <2>5. Rank[Parent(c)] < Rank[Parent(q)]
    BY <2>1, <2>4 DEF Before
  <2> QED
    BY <1>1, <2>3, <2>5
<1>2. \A q \in Above(c) : q \in Path /\ q # c
  BY BytecodeProperties, AboveProperties
<1> QED
  BY <1>1, <1>2, BytecodeProperties

\* So bytecode finds its source as the wheels up to its own leave it.
LEMMA BytecodeFindsSource ==
  ASSUME IInv, NEW c \in Bytecode, Entry(c)
  PROVE  into[Source[c]] = Overlay(Source[c], src)
<1> DEFINE s == Source[c]
<1>1. s \in Path /\ s \in Module /\ c \in Path /\ \A q \in Above(s) : q \in Above(c)
  BY BytecodeProperties
<1>2. s \notin walk /\ pc = "merging" /\ \A q \in Above(s) : Says[q] = Dir
  BY <1>1, BytecodeComesAfter, EntryFinds
<1>3. into[s] = IF Said(s) THEN Says[s] ELSE IF GaveWay(s) THEN Missing ELSE Overlay(s, src - 1)
  BY <1>1, <1>2 DEF IInv, IsMixed
<1>4. Said(s) <=> Says[s] # Missing
  BY <1>2 DEF Said
<1>5. ~ GaveWay(s) /\ ~ \E q \in Above(s) : IsFile(Says[q])
  BY <1>2, EntryKinds DEF GaveWay
<1>6. sources \in Merges /\ src \in DOMAIN sources /\ HasLast(s, src - 1)
  BY <1>1 DEF IInv, TypeOK, HasLasts
<1>7. Overlay(s, src) = IF Says[s] # Missing THEN Says[s] ELSE Overlay(s, src - 1)
  BY <1>1, <1>5, <1>6, OverlayStep DEF Says
<1> QED
  BY <1>3, <1>4, <1>5, <1>7

\* A file that is placed notes itself where it is bytecode, and loses the notes
\* under its own name only.
LEMMA FilePlacedNoted ==
  ASSUME IInv, NEW p \in Path, FilePlaced(p)
  PROVE  /\ \A q \in Path : q # p => StaleCaches(q) \subseteq StaleCaches(q)'
         /\ Source[p] # NoSource => p \in StaleCaches(Source[p])'
<1>1. caches \in [Path -> Seq(Path)]
  BY DEF IInv, TypeOK
<1>2. /\ Source[p] = NoSource => caches' = [caches EXCEPT ![p] = << >>]
      /\ Source[p] # NoSource =>
           caches' = [[caches EXCEPT ![p] = << >>] EXCEPT ![Source[p]] = Append(@, p)]
  BY DEF FilePlaced, MergeFile, pop
<1>3. Source[p] # p /\ (Source[p] # NoSource => Source[p] \in Path) /\ NoSource \notin Path
  BY SourceAssumption
<1>4. \A q \in Path : q # p => caches'[q] = IF q = Source[p] THEN Append(caches[q], p) ELSE caches[q]
  BY <1>1, <1>2, <1>3
<1>5. ASSUME NEW s \in Seq(Path)
      PROVE  ToSet(s) \subseteq ToSet(Append(s, p)) /\ p \in ToSet(Append(s, p))
  <2>1. /\ DOMAIN Append(s, p) = 1 .. Len(s) + 1 /\ DOMAIN s = 1 .. Len(s) /\ Len(s) \in Nat
        /\ Append(s, p)[Len(s) + 1] = p /\ \A i \in 1 .. Len(s) : Append(s, p)[i] = s[i]
    BY <1>5
  <2>2. Len(s) + 1 \in DOMAIN Append(s, p) /\ \A i \in 1 .. Len(s) : i \in DOMAIN Append(s, p)
    BY <2>1
  <2> QED
    BY <2>1, <2>2 DEF ToSet
<1>6. \A q \in Path : q # p => ToSet(caches[q]) \subseteq ToSet(caches'[q])
  BY <1>1, <1>4, <1>5
<1>7. Source[p] # NoSource => p \in ToSet(caches'[Source[p]])
  BY <1>1, <1>3, <1>4, <1>5
<1> QED
  BY <1>6, <1>7 DEF StaleCaches

\* What a placed entry p has to leave of bytecode c.
Spares(p, c) ==
  /\ p # c /\ into[c] # Missing /\ into'[c] = Missing =>
       (p \in Above(c) /\ IsFile(Says[p])) \/ (p = Source[c] /\ Drops(c, src))
  /\ into'[c] # Missing => ~ (p \in Above(c) /\ IsFile(Says[p]))
  /\ p = Source[c] /\ into'[c] # Missing /\ IsFile(Says[p]) =>
       IsFile(into[p]) /\ into[p][2] = Says[p][2]
  /\ into'[c] # Missing => c \in StaleCaches(Source[c])'

LEMMA SparedIsFresh ==
  ASSUME IInv, AreFresh, NEW p \in Path, Entry(p), Placed(p), NEW c \in Bytecode, Spares(p, c)
  PROVE  (IsThere(c) /\ ComesAfter(c) /\ IsGone(c))'
<1> DEFINE s == Source[c]
<1>1. /\ pc = "merging" /\ p \in walk /\ Says[p] # Missing
      /\ \A q \in Above(p) : q \notin walk /\ Says[q] = Dir /\ into[q] = Dir
  BY EntryFinds
<1>2. /\ c \in Path /\ s \in Module /\ s \in Path /\ s # c
      /\ \A q \in Path : c \notin Above(q)
      /\ \A q \in Above(c) : q \in Module /\ q \in Path
  BY BytecodeProperties DEF Module
<1>3. Says' = Says /\ src' = src /\ walk' = walk \ {p} /\ into'[p] = Says[p]
  BY DEF Placed, Says
<1>4. /\ \A q \in Path : q # p => into'[q] \in {Missing, into[q]}
      /\ \A q \in Module : q # p =>
           into'[q] = IF p \in Above(q) /\ IsFile(Says[p]) THEN Missing ELSE into[q]
  BY DEF Placed
<1>5. Said(c)' <=> Said(c) \/ p = c
  BY <1>1, <1>2, <1>3 DEF Said
<1>6. GaveWay(c)' <=> GaveWay(c) \/ (p \in Above(c) /\ IsFile(Says[p]))
  BY <1>1, <1>3 DEF GaveWay
<1>7. \A q, k : Overlay(q, k)' = Overlay(q, k) /\ LastProvider(q, k)' = LastProvider(q, k)
  BY OverlayStays DEF Placed
<1>8. \A k : Drops(c, k)' <=> Drops(c, k)
  BY <1>7 DEF Drops, Placed
<1>9. IsThere(c) /\ ComesAfter(c) /\ IsGone(c)
  BY <1>1 DEF AreFresh
<1>10. p # c /\ IsFile(into'[s]) /\ into'[c] # Missing =>
         IsFile(into[s]) /\ into'[s][2] = into[s][2]
  <2>1. CASE p = s
    BY <1>3, <2>1 DEF Spares
  <2>2. CASE p # s
    BY <1>2, <1>4, <2>2, EntryKinds
  <2> QED
    BY <2>1, <2>2
<1>11. IsThere(c)'
  <2> SUFFICES ASSUME into'[c] # Missing
               PROVE  /\ c \in StaleCaches(s)'
                      /\ \A q \in Above(c) : into'[q] = Dir
                      /\ Said(c)' => into'[c] = Says[c] /\ Keeps(c, src)'
                      /\ ~ Said(c)' => /\ into'[c] = Overlay(c, src - 1)
                                       /\ Keeps(c, LastProvider(c, src - 1))'
    BY <1>3, <1>7 DEF IsThere
  <2>1. c \in StaleCaches(s)' /\ ~ (p \in Above(c) /\ IsFile(Says[p]))
    BY DEF Spares
  <2>2. CASE p = c
    <3>1. \A q \in Above(c) : into'[q] = Dir
      BY <1>1, <1>2, <1>4, <2>2
    <3>2. into'[s] = into[s] /\ into[s] = Overlay(s, src)
      BY <1>2, <1>4, <2>2, BytecodeFindsSource
    <3>3. Keeps(c, src)'
      BY <1>3, <1>7, <3>2 DEF Keeps
    <3> QED
      BY <1>3, <1>5, <2>1, <2>2, <3>1, <3>3
  <2>3. CASE p # c
    <3>1. into[c] # Missing /\ into'[c] = into[c] /\ (Said(c)' <=> Said(c))
      BY <1>2, <1>4, <1>5, <2>3
    <3>2. ASSUME NEW q \in Above(c) PROVE into'[q] = Dir
      <4>1. into[q] = Dir /\ q \in Module /\ q \in Path
        BY <1>2, <1>9, <3>1 DEF IsThere
      <4>2. CASE q = p
        <5>1. Says \in [Path -> Entries]
          BY TreeTypes DEF IInv
        <5> QED
          BY <1>1, <1>3, <2>1, <4>2, <5>1, EntryKinds
      <4>3. CASE q # p
        <5>1. p \in Above(q) => p \in Above(c)
          BY <1>2, AboveProperties
        <5> QED
          BY <1>4, <2>1, <4>1, <4>3, <5>1
      <4> QED
        BY <4>2, <4>3
    <3>3. \A k : Keeps(c, k) => Keeps(c, k)'
      BY <1>7, <1>10, <2>3 DEF Keeps
    <3>4. /\ Said(c) => into[c] = Says[c] /\ Keeps(c, src)
          /\ ~ Said(c) => into[c] = Overlay(c, src - 1) /\ Keeps(c, LastProvider(c, src - 1))
      BY <1>9, <3>1 DEF IsThere
    <3>5. Keeps(c, src) => Keeps(c, src)'
      BY <1>3, <1>7, <1>10, <2>3 DEF Keeps
    <3>6. Keeps(c, LastProvider(c, src - 1)) => Keeps(c, LastProvider(c, src - 1))'
      BY <1>3, <1>7, <1>10, <2>3 DEF Keeps
    <3> QED
      BY <2>1, <3>1, <3>2, <3>4, <3>5, <3>6
  <2> QED
    BY <2>2, <2>3
<1>12. ComesAfter(c)'
  <2>1. CASE p = c
    <3>1. into'[c] # Missing /\ s \notin walk' /\ \A q \in Above(c) : q \notin walk'
      BY <1>1, <1>3, <2>1, BytecodeComesAfter
    <3> QED
      BY <3>1 DEF ComesAfter
  <2>2. CASE p # c /\ Said(c)
    <3>1. into[c] # Missing /\ s \notin walk /\ \A q \in Above(c) : q \notin walk
      BY <1>9, <2>2 DEF ComesAfter
    <3>2. p # s /\ p \notin Above(c)
      BY <1>1, <3>1
    <3>3. into'[c] # Missing
      BY <2>2, <3>1, <3>2 DEF Spares
    <3>4. s \notin walk' /\ \A q \in Above(c) : q \notin walk'
      BY <1>3, <3>1
    <3> QED
      BY <3>3, <3>4 DEF ComesAfter
  <2>3. CASE p # c /\ ~ Said(c)
    BY <1>5, <2>3 DEF ComesAfter
  <2> QED
    BY <2>1, <2>2, <2>3
<1>13. IsGone(c)'
  <2> SUFFICES ASSUME into'[c] = Missing
               PROVE  \/ Overlay(c, src - 1) = Missing
                      \/ GaveWay(c)'
                      \/ \E k \in LastProvider(c, src - 1) + 1 .. src : Drops(c, k)
    BY <1>3, <1>7, <1>8 DEF IsGone
  <2>1. p # c
    BY <1>1, <1>3
  <2>2. CASE into[c] = Missing
    BY <1>6, <1>9, <2>2 DEF IsGone
  <2>3. CASE into[c] # Missing /\ p \in Above(c) /\ IsFile(Says[p])
    BY <1>6, <2>3
  <2>4. CASE Drops(c, src) /\ Overlay(c, src - 1) # Missing
    <3>1. Providers(c, src - 1) # {} /\ HasLast(c, src - 1)
      BY <1>2, <2>4 DEF Overlay, IInv, HasLasts
    <3>2. LastProvider(c, src - 1) \in Providers(c, src - 1)
      BY <3>1 DEF HasLast, LastProvider
    <3>3. src \in Nat /\ LastProvider(c, src - 1) \in 1 .. src - 1
      BY <3>2, TreeTypes DEF IInv, Providers
    <3>4. src \in LastProvider(c, src - 1) + 1 .. src
      BY <3>3
    <3> QED
      BY <2>4, <3>4
  <2> QED
    BY <2>1, <2>2, <2>3, <2>4 DEF Spares
<1> QED
  BY <1>11, <1>12, <1>13

LEMMA MergeDirSpares ==
  ASSUME IInv, AreFresh, NEW p \in Path, MergeDir(p), NEW c \in Bytecode
  PROVE  Spares(p, c)
<1>1. Says[p] = Dir /\ pc = "merging" /\ caches' = caches
  BY DEF MergeDir, Entry, Says
<1>2. p # c /\ ~ IsFile(Says[p])
  BY <1>1, BytecodeIsFile, EntryKinds
<1>3. into'[c] = into[c]
  BY <1>2, BytecodeProperties, MergeDirPlaces
<1>4. into[c] # Missing => c \in StaleCaches(Source[c])
  BY <1>1 DEF AreFresh, IsThere
<1>5. StaleCaches(Source[c])' = StaleCaches(Source[c])
  BY <1>1 DEF StaleCaches
<1> QED
  BY <1>2, <1>3, <1>4, <1>5 DEF Spares

LEMMA MergeSameFileSpares ==
  ASSUME IInv, AreFresh, NEW p \in Path, MergeSameFile(p), NEW c \in Bytecode
  PROVE  Spares(p, c)
<1>1. /\ IsFile(into[p]) /\ into[p][2] = Says[p][2] /\ pc = "merging" /\ caches' = caches
      /\ into[p] # Missing /\ into[p] # Dir
  BY EntryKinds DEF MergeSameFile, Entry, Says
<1>2. p # c => into'[c] = into[c]
  BY BytecodeProperties, MergeSameFilePlaces
<1>3. into'[c] # Missing => into[c] # Missing
  BY <1>1, <1>2
<1>4. into[c] # Missing => c \in StaleCaches(Source[c]) /\ p \notin Above(c)
  BY <1>1 DEF AreFresh, IsThere
<1>5. StaleCaches(Source[c])' = StaleCaches(Source[c])
  BY <1>1 DEF StaleCaches
<1> QED
  BY <1>1, <1>2, <1>3, <1>4, <1>5 DEF Spares

LEMMA FilePlacedSpares ==
  ASSUME IInv, AreFresh, NEW p \in Path, FilePlaced(p), NEW c \in Bytecode
  PROVE  Spares(p, c)
<1>1. /\ IsFile(Says[p]) /\ ~ (IsFile(into[p]) /\ into[p][2] = Says[p][2])
      /\ Entry(p) /\ pc = "merging"
  BY DEF FilePlaced, MergeFile, Says, Entry
<1>2. c \in Path /\ Source[c] \in Path /\ Source[c] # c /\ Source[c] \in Module /\ Source[c] # NoSource
      /\ \A q \in Path : c \notin Above(q)
  BY BytecodeProperties DEF Bytecode
<1>3. into' = [q \in Path |->
                 IF q = p THEN Says[p]
                 ELSE IF ({q} \cup Above(q)) \cap StaleCaches(p) # {} THEN Missing
                 ELSE _remove(into, p)[q]]
  BY DEF FilePlaced, MergeFile, Says
<1>4. p # c => into'[c] = IF ({c} \cup Above(c)) \cap StaleCaches(p) # {} THEN Missing
                          ELSE IF p \in Above(c) THEN Missing ELSE into[c]
  BY <1>2, <1>3 DEF _remove
<1>5. p # c => into'[c] = IF c \in StaleCaches(p) \/ p \in Above(c) THEN Missing ELSE into[c]
  BY <1>2, <1>4, StaleIsBytecode
<1>6. into[c] # Missing => c \in StaleCaches(Source[c])
  BY <1>1 DEF AreFresh, IsThere
<1>7. c \in StaleCaches(p) => p = Source[c]
  BY StaleIsBytecode
<1>8. p = Source[c] => Drops(c, src)
  <2>1. p \in Module => into[p] = Overlay(p, src - 1)
    BY <1>1, EntryFinds
  <2> QED
    BY <1>1, <1>2, <2>1 DEF Drops, Says
<1>9. p = Source[c] => into'[c] = Missing
  BY <1>2, <1>5, <1>6
<1>10. into'[c] # Missing => c \in StaleCaches(Source[c])'
  <2>1. CASE p = c
    BY <1>2, <2>1, FilePlacedNoted
  <2>2. CASE p # c
    <3>1. into'[c] # Missing => into[c] # Missing /\ p # Source[c]
      BY <1>5, <1>9, <2>2
    <3> QED
      BY <1>2, <1>6, <3>1, FilePlacedNoted
  <2> QED
    BY <2>1, <2>2
<1>11. p # c /\ into[c] # Missing /\ into'[c] = Missing =>
         (p \in Above(c) /\ IsFile(Says[p])) \/ (p = Source[c] /\ Drops(c, src))
  BY <1>1, <1>5, <1>7, <1>8
<1>12. into'[c] # Missing => p \notin Above(c)
  <2>1. p = c => p \notin Above(c)
    BY <1>2
  <2> QED
    BY <1>5, <2>1
<1> QED
  BY <1>9, <1>10, <1>11, <1>12 DEF Spares

\* What is there of bytecode when a wheel is walked.
LEMMA WheelFresh ==
  ASSUME IInv, AreFresh, pc = "merging", walk = {}, NEW c \in Bytecode
  PROVE  /\ into[c] # Missing =>
              /\ c \in StaleCaches(Source[c])
              /\ \A q \in Above(c) : into[q] = Dir
              /\ into[c] = Overlay(c, src) /\ Keeps(c, LastProvider(c, src))
         /\ into[c] = Missing =>
              \/ Overlay(c, src) = Missing
              \/ \E k \in LastProvider(c, src) + 1 .. src : Drops(c, k)
<1>1. IsThere(c) /\ ComesAfter(c) /\ IsGone(c)
  BY DEF AreFresh
<1>2. sources \in Merges /\ src \in DOMAIN sources /\ c \in Path /\ HasLast(c, src - 1)
  BY BytecodeProperties DEF IInv, TypeOK, HasLasts
<1>3. /\ Says[c] # Missing => LastProvider(c, src) = src /\ Overlay(c, src) = Says[c]
      /\ Says[c] = Missing =>
           /\ LastProvider(c, src) = LastProvider(c, src - 1)
           /\ Overlay(c, src) = IF GaveWay(c) THEN Missing ELSE Overlay(c, src - 1)
  BY <1>2, OverlayStep DEF Says, GaveWay
<1>4. Said(c) <=> Says[c] # Missing
  BY DEF Said
<1>5. ASSUME into[c] # Missing
      PROVE  ~ GaveWay(c)
  <2>1. ASSUME NEW q \in Above(c), IsFile(Says[q]) PROVE FALSE
    <3>1. q \in Module /\ into[q] = Dir
      BY <1>1, <1>5, BytecodeProperties DEF IsThere
    <3>2. Said(q)
      BY <2>1, EntryKinds DEF Said
    <3>3. into[q] = Says[q]
      BY <3>1, <3>2 DEF IInv, IsMixed
    <3> QED
      BY <2>1, <3>1, <3>3, EntryKinds
  <2> QED
    BY <2>1 DEF GaveWay
<1>6. CASE into[c] # Missing
  BY <1>1, <1>3, <1>4, <1>5, <1>6 DEF IsThere
<1>7. CASE into[c] = Missing
  <2>1. ~ Said(c)
    BY <1>1, <1>7 DEF ComesAfter
  <2>2. CASE Overlay(c, src - 1) = Missing \/ GaveWay(c)
    BY <1>3, <1>4, <1>7, <2>1, <2>2
  <2>3. CASE \E k \in LastProvider(c, src - 1) + 1 .. src : Drops(c, k)
    BY <1>3, <1>4, <1>7, <2>1, <2>3
  <2> QED
    BY <1>1, <1>7, <2>2, <2>3 DEF IsGone
<1> QED
  BY <1>6, <1>7

LEMMA NextSourceFresh ==
  ASSUME IInv, AreFresh, NextSource
  PROVE  AreFresh'
<1>1. /\ pc = "merging" /\ walk = {} /\ src < Len(sources) /\ src' = src + 1
      /\ walk' = Walk(sources[src'])
      /\ UNCHANGED <<sources, into, owners, caches, conflicts, pc>>
  BY DEF NextSource
<1>2. DOMAIN sources = 1 .. Len(sources) /\ Len(sources) \in Nat /\ src \in Nat /\ src >= 1
  BY TreeTypes DEF IInv
<1>3. src' - 1 = src
  BY <1>1, <1>2
<1> SUFFICES ASSUME NEW c \in Bytecode
             PROVE  (IsThere(c) /\ ComesAfter(c) /\ IsGone(c))'
  BY DEF AreFresh
<1>4. ~ Said(c)'
  BY <1>1, BytecodeProperties DEF Said, Says, Walk
<1>5. \A q, k : Overlay(q, k)' = Overlay(q, k) /\ LastProvider(q, k)' = LastProvider(q, k)
  BY <1>1, OverlayStays
<1>6. \A k : (Drops(c, k)' <=> Drops(c, k))
  BY <1>1, <1>5 DEF Drops
<1>7. Keeps(c, LastProvider(c, src)) => Keeps(c, LastProvider(c, src - 1))'
  BY <1>1, <1>3, <1>5 DEF Keeps
<1>8. StaleCaches(Source[c])' = StaleCaches(Source[c])
  BY <1>1 DEF StaleCaches
<1>9. Overlay(c, src - 1)' = Overlay(c, src) /\ LastProvider(c, src - 1)' = LastProvider(c, src)
  BY <1>3, <1>5
<1>10. IsThere(c)' /\ ComesAfter(c)'
  BY <1>1, <1>4, <1>7, <1>8, <1>9, WheelFresh DEF IsThere, ComesAfter
<1>11. IsGone(c)'
  <2> SUFFICES ASSUME into[c] = Missing, Overlay(c, src) # Missing
               PROVE  \E k \in LastProvider(c, src) + 1 .. src' : Drops(c, k)
    BY <1>1, <1>6, <1>9 DEF IsGone
  <2>1. PICK k \in LastProvider(c, src) + 1 .. src : Drops(c, k)
    BY <1>1, WheelFresh
  <2> QED
    BY <1>1, <1>2, <2>1
<1> QED
  BY <1>10, <1>11

LEMMA FinishFresh ==
  ASSUME IInv, AreFresh, Finish
  PROVE  BytecodeFresh'
<1>1. /\ pc = "merging" /\ walk = {} /\ src = Len(sources)
      /\ UNCHANGED <<sources, src, walk, into, owners, caches, conflicts>>
  BY DEF Finish
<1>2. n = src /\ n' = n
  BY <1>1 DEF n
<1>3. \A q, k : Overlay(q, k)' = Overlay(q, k) /\ LastProvider(q, k)' = LastProvider(q, k)
  BY <1>1, OverlayStays
<1>4. ASSUME NEW c \in Bytecode
      PROVE  IF into[c] = Missing
             THEN Overlay(c, n) = Missing \/
                  \E k \in LastProvider(c, n) + 1 .. n :
                    /\ IsFile(sources[k][Source[c]])
                    /\ \/ ~ IsFile(Overlay(Source[c], k - 1))
                       \/ Overlay(Source[c], k - 1)[2] # sources[k][Source[c]][2]
             ELSE /\ into[c] = Overlay(c, n)
                  /\ IsFile(into[Source[c]]) =>
                       \/ ~ IsFile(Overlay(Source[c], LastProvider(c, n)))
                       \/ into[Source[c]][2] = Overlay(Source[c], LastProvider(c, n))[2]
  BY <1>1, <1>2, WheelFresh DEF Drops, Keeps
<1> QED
  BY <1>1, <1>2, <1>3, <1>4 DEF BytecodeFresh

\* A step that changes nothing but, perhaps, pc leaves what is fresh.
LEMMA StutterFresh ==
  ASSUME FInv, UNCHANGED vars
  PROVE  AreFresh' /\ BytecodeFresh'
<1>1. UNCHANGED <<sources, src, walk, into, owners, caches, conflicts, pc>>
  BY DEF vars
<1>2. \A q, k : Overlay(q, k)' = Overlay(q, k) /\ LastProvider(q, k)' = LastProvider(q, k)
  BY <1>1, OverlayStays
<1>3. n' = n /\ (Merged' <=> Merged)
  BY <1>1 DEF n, Merged
<1>4. BytecodeFresh'
  BY <1>1, <1>2, <1>3 DEF FInv, BytecodeFresh
<1>5. \A c : (Said(c)' <=> Said(c)) /\ (GaveWay(c)' <=> GaveWay(c))
  BY <1>1 DEF Said, GaveWay, Says
<1>6. \A c, k : (Drops(c, k)' <=> Drops(c, k)) /\ (Keeps(c, k)' <=> Keeps(c, k))
  BY <1>1, <1>2 DEF Drops, Keeps
<1>7. \A c : (Keeps(c, src)' <=> Keeps(c, src))
             /\ (Keeps(c, LastProvider(c, src - 1))' <=> Keeps(c, LastProvider(c, src - 1)))
  BY <1>1, <1>2 DEF Keeps
<1>8. \A c : StaleCaches(c)' = StaleCaches(c)
  BY <1>1 DEF StaleCaches
<1>9. \A c : /\ IsThere(c) => IsThere(c)'
             /\ ComesAfter(c) => ComesAfter(c)'
             /\ IsGone(c) => IsGone(c)'
  BY <1>1, <1>2, <1>5, <1>6, <1>7, <1>8 DEF IsThere, ComesAfter, IsGone, Says
<1>10. AreFresh'
  BY <1>1, <1>9 DEF FInv, AreFresh
<1> QED
  BY <1>4, <1>10

LEMMA Freshness == Spec => []FInv
<1>1. Init => AreFresh /\ BytecodeFresh
  <2> SUFFICES ASSUME Init PROVE AreFresh /\ BytecodeFresh
    OBVIOUS
  <2>1. /\ pc = "merging" /\ src = 1 /\ sources \in Seq(Tree) /\ sources # << >>
        /\ walk = Walk(sources[1]) /\ \A p \in Path : into[p] = Missing
    BY MergesAssumption DEF Init
  <2>2. ASSUME NEW c \in Bytecode PROVE IsThere(c) /\ ComesAfter(c) /\ IsGone(c)
    <3>1. into[c] = Missing /\ c \in Path
      BY <2>1, BytecodeProperties
    <3>2. ~ Said(c)
      BY <2>1, <3>1 DEF Said, Says, Walk
    <3>3. Overlay(c, src - 1) = Missing
      BY <2>1, <3>1, OverlayOfNone
    <3> QED
      BY <3>1, <3>2, <3>3 DEF IsThere, ComesAfter, IsGone
  <2> QED
    BY <2>1, <2>2 DEF AreFresh, BytecodeFresh, Merged
<1>2. ASSUME FInv, IInv', [Next]_vars
      PROVE  FInv'
  <2>1. IInv /\ AreFresh
    BY <1>2 DEF FInv
  <2>2. ASSUME NEW p \in Path, Entry(p), Placed(p), \A c \in Bytecode : Spares(p, c)
        PROVE  AreFresh' /\ BytecodeFresh'
    <3>1. pc = "merging" /\ pc' = pc
      BY <2>2 DEF Entry, Placed
    <3>2. AreFresh'
      BY <2>1, <2>2, SparedIsFresh DEF AreFresh
    <3> QED
      BY <3>1, <3>2 DEF BytecodeFresh, Merged
  <2>3. ASSUME NEW p \in Path, MergeDir(p) PROVE AreFresh' /\ BytecodeFresh'
    <3>1. Entry(p)
      BY <2>3 DEF MergeDir
    <3> QED
      BY <2>1, <2>2, <2>3, <3>1, MergeDirPlaces, MergeDirSpares
  <2>4. ASSUME NEW p \in Path, MergeSameFile(p) PROVE AreFresh' /\ BytecodeFresh'
    <3>1. Entry(p)
      BY <2>4 DEF MergeSameFile
    <3> QED
      BY <2>1, <2>2, <2>4, <3>1, MergeSameFilePlaces, MergeSameFileSpares
  <2>5. ASSUME NEW p \in Path, FilePlaced(p) PROVE AreFresh' /\ BytecodeFresh'
    <3>1. Entry(p)
      BY <2>5 DEF FilePlaced, MergeFile
    <3> QED
      BY <2>1, <2>2, <2>5, <3>1, MergeFilePlaces, FilePlacedSpares
  <2>6. ASSUME NEW p \in Path, FileRaises(p) PROVE AreFresh' /\ BytecodeFresh'
    <3>1. pc' = "raised"
      BY <2>6 DEF FileRaises, MergeFile
    <3> QED
      BY <3>1 DEF AreFresh, BytecodeFresh, Merged
  <2>7. ASSUME NEW p \in Path, MergeFile(p) PROVE AreFresh' /\ BytecodeFresh'
    BY <2>5, <2>6, <2>7 DEF FilePlaced, FileRaises
  <2>8. ASSUME NextSource PROVE AreFresh' /\ BytecodeFresh'
    <3>1. pc' = "merging"
      BY <2>8 DEF NextSource
    <3> QED
      BY <2>1, <2>8, <3>1, NextSourceFresh DEF BytecodeFresh, Merged
  <2>9. ASSUME Finish PROVE AreFresh' /\ BytecodeFresh'
    <3>1. pc' \in {"refused", "done"}
      BY <2>9 DEF Finish
    <3> QED
      BY <2>1, <2>9, <3>1, FinishFresh DEF AreFresh
  <2>10. ASSUME Terminating \/ UNCHANGED vars PROVE AreFresh' /\ BytecodeFresh'
    BY <1>2, <2>10, StutterFresh DEF Terminating
  <2> QED
    BY <1>2, <2>3, <2>4, <2>7, <2>8, <2>9, <2>10 DEF Next, FInv
<1>3. FInv <=> IInv /\ AreFresh /\ BytecodeFresh
  BY DEF FInv
<1> QED
  BY <1>1, <1>2, <1>3, Invariance, PTL DEF Spec

-----------------------------------------------------------------------------
(* The theorems.                                                           *)

\* The merge of any wheels that fit in directories leaves their overlay, at
\* every path but bytecode, and wheels that agree on what is a file are merged
\* to the end (site_merge.py's merge_sources).
THEOREM IsOverlayCorrect == Spec => []IsOverlay
<1>1. IInv => IsOverlay
  BY DEF IInv, IsMerged, Removable, IsOverlay, Module
<1> QED
  BY <1>1, Invariance, PTL

\* What is reported is, at every path but bytecode, exactly where a wheel says
\* something else of a path than the overlay of the wheels before it.
THEOREM ConflictsExactCorrect == Spec => []ConflictsExact
<1>1. ASSUME IInv, Merged
      PROVE  {c \in conflicts : c.path \notin Bytecode} =
               UNION {{[path |-> p, previous |-> LastProvider(p, w - 1), current |-> w] :
                         w \in {u \in DOMAIN sources : Disputes(p, u)}} : p \in Path \ Bytecode}
  <2>1. \A c : c \in conflicts /\ c.path \notin Bytecode <=>
                 \E p \in Path \ Bytecode : \E w \in {u \in DOMAIN sources : Disputes(p, u)} :
                   c = [path |-> p, previous |-> LastProvider(p, w - 1), current |-> w]
    BY <1>1 DEF IInv, IsMerged, Module, Report
  <2>2. \A c : c \in {r \in conflicts : r.path \notin Bytecode} <=>
                 c \in UNION {{[path |-> p, previous |-> LastProvider(p, w - 1), current |-> w] :
                             w \in {u \in DOMAIN sources : Disputes(p, u)}} : p \in Path \ Bytecode}
    BY <2>1
  <2> QED
    BY <2>2
<1> QED
  BY <1>1, Invariance, PTL DEF ConflictsExact

\* Bytecode that a merge leaves is the last wheel's, with the source it had
\* when that wheel was merged; what it drops, and only that, had its source
\* replaced by a later wheel (caches.pop in site_merge.py's merge).
THEOREM BytecodeFreshCorrect == Spec => []BytecodeFresh
<1>1. FInv => BytecodeFresh
  BY DEF FInv
<1> QED
  BY <1>1, Freshness, PTL

=============================================================================
