------------------------- MODULE WheelInstallProofs -------------------------
(***************************************************************************)
(* Proofs about WheelInstall for any wheel, globs, patches and             *)
(* interpreter: what the tree, its RECORD and its bytecode are when the    *)
(* install is done, and that what analysis was told of the wheel holds.    *)
(***************************************************************************)
EXTENDS WheelInstall, SequenceTheorems, WellFoundedInduction, TLAPS

-----------------------------------------------------------------------------
(* Facts about paths.                                                      *)

LEMMA PathShape ==
  ASSUME NEW p \in Path
  PROVE  /\ p \in Seq(STRING) /\ Len(p) \in Nat /\ Len(p) >= 1
         /\ \A i \in 1 .. Len(p) : p[i] \in STRING
         /\ Last(p) = p[Len(p)] /\ Last(p) \in STRING
<1>1. p \in Seq(STRING) /\ Len(p) \in Nat \ {0}
  BY EmptySeq DEF Path
<1> QED
  BY <1>1, ElementOfSeq DEF Last

LEMMA PairSeq == \A S : \A a, b \in S : <<a, b>> \in Seq(S) /\ Len(<<a, b>>) = 2
OBVIOUS

LEMMA TwoSegments ==
  ASSUME NEW a \in STRING, NEW b \in STRING
  PROVE  /\ <<a, b>> \in Path /\ Len(<<a, b>>) = 2
         /\ <<a, b>>[1] = a /\ <<a, b>>[2] = b
         /\ Last(<<a, b>>) = b
<1>1. <<a, b>> \in Seq(STRING) /\ Len(<<a, b>>) = 2
  BY PairSeq
<1>2. <<a, b>>[1] = a /\ <<a, b>>[2] = b
  OBVIOUS
<1> QED
  BY <1>1, <1>2, EmptySeq DEF Path, Last

\* A path below site-packages, and back.
LEMMA SitePath ==
  ASSUME NEW p \in Path
  PROVE  /\ Site(p) \in Path /\ Len(Site(p)) = Len(p) + 2
         /\ InSite(Site(p)) /\ Rel(Site(p)) = p
         /\ Site(p)[1] = "lib" /\ Site(p)[2] = "site"
         /\ \A i \in 1 .. Len(p) : Site(p)[i + 2] = p[i]
<1> DEFINE head == <<"lib", "site">>
<1>1. p \in Seq(STRING) /\ Len(p) \in Nat /\ Len(p) >= 1
  BY PathShape
<1>2. head \in Seq(STRING) /\ Len(head) = 2 /\ head[1] = "lib" /\ head[2] = "site"
  <2>1. "lib" \in STRING /\ "site" \in STRING
    BY StringAssumption
  <2> QED
    BY <2>1, TwoSegments, Zenon DEF Path
<1> HIDE DEF head
<1>3. /\ Site(p) \in Seq(STRING) /\ Len(Site(p)) = Len(p) + 2
      /\ \A i \in 1 .. 2 + Len(p) : Site(p)[i] = IF i <= 2 THEN head[i] ELSE p[i - 2]
  BY <1>1, <1>2, ConcatProperties DEF Site, head
<1>4. Site(p)[1] = "lib" /\ Site(p)[2] = "site" /\ \A i \in 1 .. Len(p) : Site(p)[i + 2] = p[i]
  <2>1. \A i \in 1 .. Len(p) : i + 2 \in 1 .. 2 + Len(p) /\ ~ i + 2 <= 2 /\ (i + 2) - 2 = i
    BY <1>1
  <2>2. 1 \in 1 .. 2 + Len(p) /\ 2 \in 1 .. 2 + Len(p)
    BY <1>1
  <2> QED
    BY <1>2, <1>3, <2>1, <2>2
<1>5. Site(p) \in Path
  BY <1>1, <1>3, EmptySeq DEF Path
<1>6. SubSeq(Site(p), 1, 2) = head
  <2>1. /\ SubSeq(Site(p), 1, 2) \in Seq(STRING) /\ Len(SubSeq(Site(p), 1, 2)) = 2
        /\ \A i \in 1 .. 2 : SubSeq(Site(p), 1, 2)[i] = Site(p)[i]
    BY <1>1, <1>3, <1>4, SubSeqProperties, ElementOfSeq
  <2> QED
    BY <2>1, <1>2, <1>4, SeqEqual
<1>7. SubSeq(Site(p), 3, Len(Site(p))) = p
  <2>1. /\ SubSeq(Site(p), 3, Len(p) + 2) \in Seq(STRING)
        /\ Len(SubSeq(Site(p), 3, Len(p) + 2)) = Len(p)
        /\ \A i \in 1 .. Len(p) : SubSeq(Site(p), 3, Len(p) + 2)[i] = Site(p)[i + 2]
    BY <1>1, <1>3, SubSeqProperties, ElementOfSeq
  <2> QED
    BY <2>1, <1>1, <1>3, <1>4, SeqEqual
<1> QED
  BY <1>1, <1>2, <1>3, <1>4, <1>5, <1>6, <1>7 DEF InSite, Rel, head

LEMMA PathInSite ==
  ASSUME NEW f \in Path, InSite(f)
  PROVE  Rel(f) \in Path /\ Site(Rel(f)) = f
<1>1. f \in Seq(STRING) /\ Len(f) \in Nat /\ Len(f) > 2 /\ SubSeq(f, 1, 2) = <<"lib", "site">>
  BY PathShape DEF InSite
<1>2. /\ Rel(f) \in Seq(STRING) /\ Len(Rel(f)) = Len(f) - 2
      /\ \A i \in 1 .. Len(f) - 2 : Rel(f)[i] = f[i + 2]
  BY <1>1, SubSeqProperties, ElementOfSeq DEF Rel
<1>3. Rel(f) \in Path
  BY <1>1, <1>2, EmptySeq DEF Path
<1>4. SubSeq(f, 1, 2)[1] = f[1] /\ SubSeq(f, 1, 2)[2] = f[2]
  <2>1. \A i \in 1 .. 2 : f[i] \in STRING
    BY <1>1, ElementOfSeq
  <2>2. \A i \in 1 .. 2 - 1 + 1 : SubSeq(f, 1, 2)[i] = f[1 + i - 1]
    BY <2>1, SubSeqProperties
  <2>3. 1 \in 1 .. 2 - 1 + 1 /\ 2 \in 1 .. 2 - 1 + 1 /\ 1 + 1 - 1 = 1 /\ 1 + 2 - 1 = 2
    OBVIOUS
  <2> QED
    BY <2>2, <2>3
<1>5. f[1] = "lib" /\ f[2] = "site"
  <2>1. <<"lib", "site">>[1] = "lib" /\ <<"lib", "site">>[2] = "site"
    OBVIOUS
  <2>2. SubSeq(f, 1, 2) = <<"lib", "site">>
    BY <1>1
  <2> QED
    BY <2>1, <2>2, <1>4, Zenon
<1>6. Site(Rel(f)) \in Seq(STRING) /\ Len(Site(Rel(f))) = Len(f)
  BY <1>1, <1>2, <1>3, SitePath DEF Path
<1>7. ASSUME NEW i \in 1 .. Len(f) PROVE Site(Rel(f))[i] = f[i]
  <2>1. CASE i <= 2
    BY <1>1, <1>3, <1>5, <2>1, SitePath
  <2>2. CASE i > 2
    <3>1. i - 2 \in 1 .. Len(Rel(f)) /\ i = (i - 2) + 2
      BY <1>1, <1>2, <2>2
    <3>2. Site(Rel(f))[(i - 2) + 2] = Rel(f)[i - 2] /\ Rel(f)[i - 2] = f[(i - 2) + 2]
      BY <1>2, <1>3, <3>1, SitePath
    <3> QED
      BY <3>1, <3>2
  <2> QED
    BY <1>1, <2>1, <2>2
<1> QED
  BY <1>1, <1>3, <1>6, <1>7, SeqEqual

\* The site-packages files of a tree.
LEMMA SiteFilesOf ==
  ASSUME NEW t, DOMAIN t \subseteq Path
  PROVE  /\ SiteFiles(t) = {p \in Path : Site(p) \in DOMAIN t}
         /\ \A f \in DOMAIN t : InSite(f) => Rel(f) \in SiteFiles(t) /\ Site(Rel(f)) = f
<1>1. \A p \in Path : Site(p) \in DOMAIN t => p \in SiteFiles(t)
  BY SitePath DEF SiteFiles
<1>2. \A p \in SiteFiles(t) : p \in Path /\ Site(p) \in DOMAIN t
  BY PathInSite DEF SiteFiles
<1> QED
  BY <1>1, <1>2, PathInSite DEF SiteFiles

LEMMA SiteInjective ==
  ASSUME NEW p \in Path, NEW q \in Path
  PROVE  Site(p) = Site(q) <=> p = q
BY SitePath

LEMMA JoinPath ==
  ASSUME NEW s \in Seq(STRING), NEW p \in Path
  PROVE  /\ s \o p \in Path /\ Len(s \o p) = Len(s) + Len(p)
         /\ Last(s \o p) = Last(p)
         /\ \A i \in 1 .. Len(s) : (s \o p)[i] = s[i]
         /\ \A i \in 1 .. Len(p) : (s \o p)[Len(s) + i] = p[i]
<1>1. /\ p \in Seq(STRING) /\ Len(p) \in Nat /\ Len(p) >= 1 /\ Len(s) \in Nat
      /\ Last(p) = p[Len(p)]
  BY PathShape, LenProperties
<1>2. /\ s \o p \in Seq(STRING) /\ Len(s \o p) = Len(s) + Len(p)
      /\ \A i \in 1 .. Len(s) + Len(p) : (s \o p)[i] = IF i <= Len(s) THEN s[i] ELSE p[i - Len(s)]
  BY <1>1, ConcatProperties
<1>3. s \o p \in Path
  BY <1>1, <1>2, EmptySeq DEF Path
<1>4. \A i \in 1 .. Len(s) : (s \o p)[i] = s[i]
  BY <1>1, <1>2
<1>5. \A i \in 1 .. Len(p) : (s \o p)[Len(s) + i] = p[i]
  <2>1. \A i \in 1 .. Len(p) : /\ Len(s) + i \in 1 .. Len(s) + Len(p)
                                /\ ~ Len(s) + i <= Len(s) /\ (Len(s) + i) - Len(s) = i
    BY <1>1
  <2> QED
    BY <1>2, <2>1
<1>6. Last(s \o p) = Last(p)
  <2>1. Len(p) \in 1 .. Len(p)
    BY <1>1
  <2> QED
    BY <1>2, <1>5, <2>1 DEF Last
<1> QED
  BY <1>2, <1>3, <1>4, <1>5, <1>6

Member == [at : STRING, rel : Path, data : DOMAIN SizeOf]

LEMMA MemberPath ==
  ASSUME NEW m \in Member
  PROVE  /\ Dest(m) \in Path /\ Last(Dest(m)) = Last(m.rel)
         /\ m.at \in {"root", "purelib"} => Dest(m) = Site(m.rel)
         /\ m.at = "data" => Dest(m) = m.rel
         /\ m.at # "data" => Dest(m)[1] \in _AMBIGUOUS_PREFIX_ROOTS
<1>1. m.rel \in Path /\ m.at \in STRING
  BY DEF Member
<1> DEFINE include == <<"lib", "include">>
           head == <<"lib", "site">>
<1>2. include \in Seq(STRING) /\ Len(include) = 2 /\ include[1] = "lib"
  BY StringAssumption, TwoSegments, Zenon DEF Path
<1>3. head \in Seq(STRING) /\ Len(head) = 2 /\ head[1] = "lib"
  BY StringAssumption, TwoSegments, Zenon DEF Path
<1> HIDE DEF include, head
<1>4. ASSUME NEW p \in Path
      PROVE  /\ Site(p) \in Path /\ Last(Site(p)) = Last(p) /\ Site(p)[1] = "lib"
             /\ include \o p \in Path /\ Last(include \o p) = Last(p)
             /\ (include \o p)[1] = "lib"
  <2>1. /\ head \o p \in Path /\ Last(head \o p) = Last(p) /\ (head \o p)[1] = "lib"
    BY <1>3, JoinPath
  <2>2. /\ include \o p \in Path /\ Last(include \o p) = Last(p) /\ (include \o p)[1] = "lib"
    BY <1>2, JoinPath
  <2> QED
    BY <2>1, <2>2 DEF Site, head
<1>5. <<m.at>> \o m.rel \in Path /\ Last(<<m.at>> \o m.rel) = Last(m.rel)
  <2>1. <<m.at>> \in Seq(STRING)
    BY <1>1
  <2> QED
    BY <1>1, <2>1, JoinPath
<1>6. /\ <<"bin", Last(m.rel)>> \in Path /\ Last(<<"bin", Last(m.rel)>>) = Last(m.rel)
      /\ <<"bin", Last(m.rel)>>[1] = "bin"
  BY <1>1, StringAssumption, PathShape, TwoSegments, Zenon
<1> QED
  BY <1>1, <1>4, <1>5, <1>6 DEF Dest, include, _AMBIGUOUS_PREFIX_ROOTS

LEMMA Programs ==
  ASSUME NEW s \in STRING
  PROVE  <<"bin", s>> \in Path /\ ~ InSite(<<"bin", s>>) /\ <<"bin", s>>[1] = "bin"
<1>1. <<"bin", s>> \in Path /\ Len(<<"bin", s>>) = 2 /\ <<"bin", s>>[1] = "bin"
  BY StringAssumption, TwoSegments, Zenon
<1> QED
  BY <1>1 DEF InSite

\* The two files of the metadata directory that the installer writes, and the
\* RECORD.
LEMMA MetadataFiles ==
  ASSUME NEW s \in {"RECORD", "METADATA", "INSTALLER", "REQUESTED", "entry_points.txt"}
  PROVE  /\ <<DistInfo, s>> \in Path /\ Site(<<DistInfo, s>>) \in Path
         /\ Len(<<DistInfo, s>>) = 2 /\ <<DistInfo, s>>[1] = DistInfo
         /\ <<DistInfo, s>>[2] = s /\ Last(<<DistInfo, s>>) = s
         /\ ~ IsBytecode(<<DistInfo, s>>)
         /\ Last(Site(<<DistInfo, s>>)) = s
<1>1. DistInfo \in STRING /\ s \in STRING
  BY StringAssumption
<1>2. /\ <<DistInfo, s>> \in Path /\ Len(<<DistInfo, s>>) = 2 /\ <<DistInfo, s>>[1] = DistInfo
      /\ <<DistInfo, s>>[2] = s /\ Last(<<DistInfo, s>>) = s
  BY <1>1, TwoSegments, Zenon
<1>3. ~ IsBytecode(<<DistInfo, s>>)
  BY <1>2, SegmentAssumption, Zenon DEF IsBytecode
<1>4. Site(<<DistInfo, s>>) \in Path
  BY <1>2, SitePath, Zenon
<1>5. <<"lib", "site">> \in Seq(STRING)
  BY StringAssumption, PairSeq, Zenon
<1>6. Last(Site(<<DistInfo, s>>)) = s
  BY <1>2, <1>5, JoinPath, Zenon DEF Site
<1> QED
  BY <1>2, <1>3, <1>4, <1>6, Zenon
\* The bytecode that compileall writes for a module is in a cache, and its
\* source is that module, which is no bytecode itself.
LEMMA CachePath ==
  ASSUME NEW p \in Path, Last(p) \in DOMAIN BytecodeOf
  PROVE  /\ BytecodePath(p) \in Path /\ IsCache(BytecodePath(p))
         /\ cache_source_path(BytecodePath(p)) = p
         /\ ~ IsBytecode(p)
<1> DEFINE k == Len(p) - 1
           b == BytecodeOf[Last(p)]
           last == <<"__pycache__", b>>
           c == Front(p) \o last
<1>1. /\ p \in Seq(STRING) /\ Len(p) \in Nat /\ Len(p) >= 1 /\ k \in Nat
      /\ \A i \in 1 .. Len(p) : p[i] \in STRING
      /\ Last(p) = p[Len(p)] /\ Last(p) \in STRING
  BY PathShape
<1>2. b \in DOMAIN SourceOf /\ b \in STRING /\ SourceOf[b] = Last(p)
  BY SegmentAssumption
<1>9. k = Len(p) - 1
  OBVIOUS
<1> HIDE DEF k, b
<1>3. last \in Path /\ Len(last) = 2 /\ last[1] = "__pycache__" /\ last[2] = b /\ Last(last) = b
  BY <1>2, StringAssumption, TwoSegments, Zenon
<1>4. /\ Front(p) \in Seq(STRING) /\ Len(Front(p)) = k
      /\ \A i \in 1 .. k : Front(p)[i] = p[i]
  <2>1. \A i \in 1 .. k : p[i] \in STRING
    BY <1>1, <1>9
  <2>2. /\ SubSeq(p, 1, k) \in Seq(STRING) /\ Len(SubSeq(p, 1, k)) = IF 1 <= k THEN k - 1 + 1 ELSE 0
        /\ \A i \in 1 .. k - 1 + 1 : SubSeq(p, 1, k)[i] = p[1 + i - 1]
    BY <1>1, <2>1, SubSeqProperties
  <2>3. \A i \in 1 .. k : i \in 1 .. k - 1 + 1 /\ 1 + i - 1 = i
    BY <1>1
  <2>4. (IF 1 <= k THEN k - 1 + 1 ELSE 0) = k
    BY <1>1
  <2> QED
    BY <2>2, <2>3, <2>4, <1>9 DEF Front
<1> HIDE DEF last
<1>5. /\ c \in Path /\ Len(c) = k + 2 /\ Last(c) = b
      /\ \A i \in 1 .. k : c[i] = p[i]
      /\ c[k + 1] = "__pycache__"
  <2>1. /\ c \in Path /\ Len(c) = k + 2 /\ Last(c) = b
        /\ \A i \in 1 .. k : c[i] = Front(p)[i]
        /\ \A i \in 1 .. 2 : c[k + i] = last[i]
    <3>1. ASSUME NEW s \in Seq(STRING), Len(s) = k, NEW q \in Path, Len(q) = 2
          PROVE  /\ s \o q \in Path /\ Len(s \o q) = k + 2 /\ Last(s \o q) = Last(q)
                 /\ \A i \in 1 .. k : (s \o q)[i] = s[i]
                 /\ \A i \in 1 .. 2 : (s \o q)[k + i] = q[i]
      <4>1. /\ s \o q \in Path /\ Len(s \o q) = Len(s) + Len(q) /\ Last(s \o q) = Last(q)
            /\ \A i \in 1 .. Len(s) : (s \o q)[i] = s[i]
            /\ \A i \in 1 .. Len(q) : (s \o q)[Len(s) + i] = q[i]
        BY JoinPath
      <4> QED
        BY <3>1, <4>1
    <3> QED
      BY <1>3, <1>4, <3>1
  <2> QED
    BY <2>1, <1>3, <1>4
<1>6. IsCache(c)
  <2>1. Len(c) >= 2 /\ Len(c) - 1 = k + 1
    BY <1>1, <1>5
  <2> QED
    BY <2>1, <1>2, <1>5 DEF IsCache, IsBytecode
<1> HIDE DEF c
<1>7. SubSeq(c, 1, Len(c) - 2) \o <<SourceOf[Last(c)]>> = p
  <2> DEFINE s == SubSeq(c, 1, k)
             end == <<Last(p)>>
             q == s \o end
  <2>1. s \in Seq(STRING) /\ Len(s) = k /\ \A i \in 1 .. k : s[i] = p[i]
    <3>1. \A i \in 1 .. k : c[i] \in STRING
      BY <1>1, <1>5, <1>9
    <3>2. /\ s \in Seq(STRING) /\ Len(s) = IF 1 <= k THEN k - 1 + 1 ELSE 0
          /\ \A i \in 1 .. k - 1 + 1 : s[i] = c[1 + i - 1]
      BY <1>1, <3>1, SubSeqProperties
    <3>3. \A i \in 1 .. k : i \in 1 .. k - 1 + 1 /\ 1 + i - 1 = i
      BY <1>1
    <3>4. (IF 1 <= k THEN k - 1 + 1 ELSE 0) = k
      BY <1>1
    <3> HIDE DEF s
    <3> QED
      BY <3>2, <3>3, <3>4, <1>5
  <2>2. end \in Path /\ Len(end) = 1 /\ end[1] = Last(p)
    BY <1>1 DEF Path
  <2> HIDE DEF s, end
  <2>3. /\ q \in Seq(STRING) /\ Len(q) = k + 1
        /\ \A i \in 1 .. k : q[i] = s[i]
        /\ \A i \in 1 .. 1 : q[k + i] = end[i]
    <3>1. ASSUME NEW x \in Seq(STRING), Len(x) = k, NEW y \in Path, Len(y) = 1
          PROVE  /\ x \o y \in Seq(STRING) /\ Len(x \o y) = k + 1
                 /\ \A i \in 1 .. k : (x \o y)[i] = x[i]
                 /\ \A i \in 1 .. 1 : (x \o y)[k + i] = y[i]
      <4>1. /\ x \o y \in Path /\ Len(x \o y) = Len(x) + Len(y)
            /\ \A i \in 1 .. Len(x) : (x \o y)[i] = x[i]
            /\ \A i \in 1 .. Len(y) : (x \o y)[Len(x) + i] = y[i]
        BY JoinPath
      <4> QED
        BY <3>1, <4>1 DEF Path
    <3> QED
      BY <2>1, <2>2, <3>1
  <2>4. Len(p) = k + 1
    BY <1>1, <1>9
  <2> HIDE DEF q
  <2>5. ASSUME NEW i \in 1 .. Len(q) PROVE q[i] = p[i]
    <3>1. CASE i \in 1 .. k
      BY <3>1, <2>1, <2>3
    <3>2. CASE i = k + 1
      BY <3>2, <2>2, <2>3, <2>4, <1>1
    <3> QED
      BY <3>1, <3>2, <2>3, <1>1
  <2>6. q = p
    BY <2>3, <2>4, <2>5, <1>1, SeqEqual
  <2>7. Len(c) - 2 = k
    BY <1>1, <1>5
  <2>8. SourceOf[Last(c)] = Last(p)
    BY <1>2, <1>5
  <2> QED
    BY <2>6, <2>7, <2>8, Zenon DEF q, s, end
<1>8. ~ IsBytecode(p)
  BY SegmentAssumption DEF IsBytecode
<1> QED
  BY <1>5, <1>6, <1>7, <1>8, Zenon DEF BytecodePath, cache_source_path, c, last, b
-----------------------------------------------------------------------------
(* The wheel and its patches.                                              *)

members == job.wheel.members
MemberCount == Len(members)
PatchCount == Len(job.patches)
Excluded(p) == _path_excluded(p, job.exclude)

LEMMA JobFacts ==
  ASSUME job \in Jobs
  PROVE  /\ members \in Seq(Member) /\ MemberCount \in Nat /\ DOMAIN members = 1 .. MemberCount
         /\ \A i \in 1 .. MemberCount : members[i] \in Member /\ members[i] \in Members
         /\ \A m \in Members : m \in Member /\ \E i \in 1 .. MemberCount : m = members[i]
         /\ job.wheel.scripts \subseteq STRING
         /\ PatchCount \in Nat /\ DOMAIN job.patches = 1 .. PatchCount
         /\ ~ Patched => PatchCount = 0
<1>1. members \in Seq(Member) /\ job.wheel.scripts \subseteq STRING
  BY WheelsAssumption DEF members, Member
<1>2. PatchCount \in Nat /\ DOMAIN job.patches = 1 .. PatchCount
  BY PatchesAssumption DEF PatchCount
<1>3. ~ Patched => PatchCount = 0
  BY DEF Patched, PatchCount
<1>4. MemberCount \in Nat /\ DOMAIN members = 1 .. MemberCount
  BY <1>1, LenProperties DEF MemberCount
<1>5. \A i \in 1 .. MemberCount : members[i] \in Member
  BY <1>1, ElementOfSeq DEF MemberCount
<1>6. Members = {members[i] : i \in 1 .. MemberCount}
  BY <1>4 DEF Members, members
<1> QED
  BY <1>1, <1>2, <1>3, <1>4, <1>5, <1>6

LEMMA JobKept ==
  ASSUME job' = job
  PROVE  /\ members' = members /\ MemberCount' = MemberCount /\ PatchCount' = PatchCount
         /\ Members' = Members
         /\ Patched' = Patched /\ drop_pycache' = drop_pycache
         /\ \A p : Excluded(p)' = Excluded(p) /\ Skipped(p)' = Skipped(p)
<1>1. /\ members' = members /\ Patched' = Patched /\ drop_pycache' = drop_pycache
      /\ \A p : Excluded(p)' = Excluded(p)
  BY DEF members, Patched, drop_pycache, Excluded
<1>2. \A p : Skipped(p)' = Skipped(p)
  BY DEF Skipped, Patched, drop_pycache
<1> QED
  BY <1>1, <1>2 DEF MemberCount, PatchCount, Members

-----------------------------------------------------------------------------
(* Types.                                                                  *)

TypeOK ==
  /\ job \in Jobs
  /\ DOMAIN tree \subseteq Path
  /\ n \in Nat \ {0}
  /\ pc \in {"install", "record", "observe", "patch", "exclude", "rewrite", "compile", "done", "failed"}
  /\ pc = "install" => n <= MemberCount + 1
  /\ pc = "observe" => n = 1
  /\ pc = "patch" => n <= PatchCount + 1

LEMMA TypeInit == Init => TypeOK
<1> SUFFICES ASSUME Init PROVE TypeOK
  OBVIOUS
<1>1. job \in Jobs /\ n = 1 /\ pc = "install" /\ DOMAIN tree = {}
  BY DEF Init, Empty
<1> QED
  BY <1>1, JobFacts DEF TypeOK

LEMMA TypeNext == TypeOK /\ [Next]_vars => TypeOK'
<1> SUFFICES ASSUME TypeOK, [Next]_vars PROVE TypeOK'
  OBVIOUS
<1>0. job \in Jobs /\ DOMAIN tree \subseteq Path /\ n \in Nat \ {0}
  BY DEF TypeOK
<1>1. /\ MemberCount \in Nat /\ PatchCount \in Nat
      /\ \A i \in 1 .. MemberCount : members[i] \in Member
      /\ job.wheel.scripts \subseteq STRING
      /\ DOMAIN job.patches = 1 .. PatchCount
  BY <1>0, JobFacts
<1>2. /\ InstallerFile \in Path /\ RequestedFile \in Path
  BY MetadataFiles DEF InstallerFile, RequestedFile
<1>3. job' = job => members' = members /\ MemberCount' = MemberCount /\ PatchCount' = PatchCount
  BY JobKept
<1>4. CASE Fail
  BY <1>0, <1>3, <1>4 DEF TypeOK, Fail
<1>5. CASE Install
  <2>1. n \in 1 .. MemberCount /\ n' = n + 1 /\ job' = job /\ pc' = "install" /\ pc = "install"
    BY <1>0, <1>1, <1>5 DEF Install, MemberCount, members
  <2>2. Dest(members[n]) \in Path
    BY <1>1, <2>1, MemberPath
  <2>3. DOMAIN tree' \subseteq DOMAIN tree \cup {Dest(members[n])}
    BY <1>5 DEF Install, Put, members
  <2> QED
    BY <1>0, <1>1, <1>3, <2>1, <2>2, <2>3 DEF TypeOK
<1>6. CASE EntryPoints
  <2>1. job' = job /\ n' = n /\ pc' = "record"
    BY <1>6 DEF EntryPoints
  <2>2. \A f \in DOMAIN tree' : f \in DOMAIN tree \/ \E s \in job.wheel.scripts : f = <<"bin", s>>
    BY <1>6 DEF EntryPoints
  <2>3. DOMAIN tree' \subseteq Path
    BY <1>0, <1>1, <2>2, Programs
  <2> QED
    BY <1>0, <2>1, <2>3 DEF TypeOK
<1>7. CASE WriteRecord
  <2>1. job' = job /\ n' = 1 /\ pc' = "observe"
    BY <1>7 DEF WriteRecord
  <2>2. DOMAIN tree' \subseteq DOMAIN tree \cup {InstallerFile, RequestedFile}
    BY <1>7 DEF WriteRecord, Put
  <2> QED
    BY <1>0, <1>2, <2>1, <2>2 DEF TypeOK
<1>8. CASE Observe
  <2>1. job' = job /\ n' = n /\ tree' = tree /\ pc = "observe" /\ pc' \in {"patch", "failed"}
    BY <1>8 DEF Observe, Fail
  <2> QED
    BY <1>0, <1>1, <1>3, <2>1 DEF TypeOK
<1>9. CASE ApplyPatch
  <2>1. CASE ~ Fits(job.patches[n])
    BY <1>4, <1>9, <2>1 DEF ApplyPatch
  <2>2. CASE Fits(job.patches[n])
    <3>1. n \in 1 .. PatchCount /\ job' = job /\ n' = n + 1 /\ pc' = "patch"
      BY <1>0, <1>1, <1>9, <2>2 DEF ApplyPatch, PatchCount
    <3>2. DOMAIN tree' \subseteq DOMAIN tree \cup DOMAIN job.patches[n]
      BY <1>9, <2>2 DEF ApplyPatch, PatchedFiles
    <3>3. DOMAIN job.patches[n] \subseteq Path
      BY <1>0, <1>1, <3>1, PatchesAssumption
    <3> QED
      BY <1>0, <1>1, <1>3, <3>1, <3>2, <3>3 DEF TypeOK
  <2> QED
    BY <2>1, <2>2
<1>10. CASE CheckPatched
  <2>1. job' = job /\ n' = n /\ tree' = tree /\ pc' \in {"exclude", "failed"}
    BY <1>10 DEF CheckPatched, Fail
  <2> QED
    BY <1>0, <2>1 DEF TypeOK
<1>11. CASE RemoveExcluded
  <2>1. job' = job /\ n' = n /\ DOMAIN tree' \subseteq DOMAIN tree /\ pc' \in {"rewrite", "failed"}
    BY <1>11 DEF RemoveExcluded, Fail, _remove_excluded, Keep
  <2> QED
    BY <1>0, <2>1 DEF TypeOK
<1>12. CASE RewriteRecord
  <2>1. job' = job /\ n' = n /\ DOMAIN tree' \subseteq DOMAIN tree /\ pc' \in {"compile", "failed"}
    BY <1>12 DEF RewriteRecord, Fail, Keep
  <2> QED
    BY <1>0, <2>1 DEF TypeOK
<1>13. CASE Compile
  <2>1. job' = job /\ n' = n /\ pc' = "done"
    BY <1>13 DEF Compile
  <2>2. \A f \in DOMAIN tree' : f \in DOMAIN tree
          \/ \E p \in SiteFiles(tree) : Last(p) \in DOMAIN BytecodeOf /\ f = Site(BytecodePath(p))
    BY <1>13 DEF Compile, _remove_excluded, Keep
  <2>3. \A p \in SiteFiles(tree) : p \in Path
    BY <1>0, SiteFilesOf
  <2>4. DOMAIN tree' \subseteq Path
    BY <1>0, <2>2, <2>3, CachePath, SitePath
  <2> QED
    BY <1>0, <2>1, <2>4 DEF TypeOK
<1>14. CASE UNCHANGED vars
  BY <1>0, <1>3, <1>14 DEF TypeOK, vars
<1> QED
  BY <1>5, <1>6, <1>7, <1>8, <1>9, <1>10, <1>11, <1>12, <1>13, <1>14 DEF Next, Terminating
-----------------------------------------------------------------------------
(* What is in site-packages at each stage, and that no bytecode is.        *)

Ships(p, k) == \E i \in 1 .. k : Dest(members[i]) = Site(p)
Written(p) == Site(p) \in {InstallerFile, RequestedFile}
Unpacked(p) == (Ships(p, MemberCount) /\ ~ Skipped(p)) \/ Written(p)
Touched(p, k) == \E i \in 1 .. k : Site(p) \in DOMAIN job.patches[i]
Away(p, k) ==
  \E i \in 1 .. k :
    /\ Site(p) \in DOMAIN job.patches[i] /\ job.patches[i][Site(p)][1] = "remove"
    /\ \A j \in (i + 1) .. k : Site(p) \notin DOMAIN job.patches[j]
After(p, k) == (Unpacked(p) \/ Touched(p, k)) /\ ~ Away(p, k)

TreeExact ==
  /\ pc = "install" => \A p \in Path : Site(p) \in DOMAIN tree <=> Ships(p, n - 1) /\ ~ Skipped(p)
  /\ pc = "record" => \A p \in Path : Site(p) \in DOMAIN tree <=> Ships(p, MemberCount) /\ ~ Skipped(p)
  /\ pc = "observe" => \A p \in Path : Site(p) \in DOMAIN tree <=> Unpacked(p)
  /\ pc = "patch" => \A p \in Path : Site(p) \in DOMAIN tree <=> After(p, n - 1)
  /\ pc = "exclude" => \A p \in Path : Site(p) \in DOMAIN tree <=> After(p, PatchCount)
  /\ pc \in {"rewrite", "compile"} =>
       \A p \in Path : Site(p) \in DOMAIN tree <=> After(p, PatchCount) /\ ~ Excluded(p)
NoCache ==
  pc # "done" /\ drop_pycache => \A p \in Path : Site(p) \in DOMAIN tree => ~ IsCache(p)
NoneCompiled == pc # "done" => \A f \in DOMAIN tree : ~ IsCompiled(f)

TreeInv == TypeOK /\ TreeExact /\ NoCache /\ NoneCompiled

LEMMA StagesKept ==
  ASSUME job' = job
  PROVE  \A p : /\ \A k : Ships(p, k)' = Ships(p, k) /\ After(p, k)' = After(p, k)
                /\ Unpacked(p)' = Unpacked(p)
<1>1. \A p, k : Ships(p, k)' = Ships(p, k)
  BY JobKept DEF Ships
<1>2. \A p : Skipped(p)' = Skipped(p)
  BY JobKept
<1>3. \A p : Unpacked(p)' = Unpacked(p)
  BY <1>1, <1>2, JobKept DEF Unpacked, Written
<1>4. \A p, k : Touched(p, k)' = Touched(p, k) /\ Away(p, k)' = Away(p, k)
  BY DEF Touched, Away
<1> QED
  BY <1>1, <1>3, <1>4 DEF After

\* The RECORD is unpacked whatever the globs are.
LEMMA RecordUnpacked ==
  ASSUME TypeOK, TreeExact
  PROVE  pc = "record" => RecordFile \in DOMAIN tree
<1> DEFINE p == <<DistInfo, "RECORD">>
<1>1. PICK i \in DOMAIN members : Name(members[i]) = <<"root", p>>
  BY WheelsAssumption DEF TypeOK, members
<1>2. i \in 1 .. MemberCount /\ members[i] \in Member
  BY <1>1, JobFacts DEF TypeOK
<1>3. members[i].at = "root" /\ members[i].rel = p
  BY <1>1 DEF Name
<1>4. Dest(members[i]) = RecordFile
  BY <1>2, <1>3, MemberPath DEF RecordFile
<1>5. Ships(p, MemberCount)
  BY <1>2, <1>4 DEF Ships, RecordFile
<1>6. /\ p \in Path /\ Len(p) = 2 /\ p[1] = DistInfo /\ p[2] = "RECORD" /\ ~ IsBytecode(p)
  BY MetadataFiles
<1> HIDE DEF p
<1>7. ~ Skipped(p)
  BY <1>6, SegmentAssumption DEF Skipped, _installer_input, IsCache
<1> QED
  BY <1>5, <1>6, <1>7 DEF TreeExact, RecordFile, p

LEMMA TreeInit == Init => TreeInv
<1> SUFFICES ASSUME Init PROVE TreeInv
  OBVIOUS
<1>1. pc = "install" /\ n = 1 /\ DOMAIN tree = {}
  BY DEF Init, Empty
<1>2. \A p \in Path : ~ Ships(p, n - 1)
  BY <1>1 DEF Ships
<1> QED
  BY <1>1, <1>2, TypeInit DEF TreeInv, TreeExact, NoCache, NoneCompiled

LEMMA TreeInstall ==
  ASSUME TreeInv, TypeOK', Install
  PROVE  TreeInv'
<1> DEFINE m == members[n]
           f == Dest(m)
<1>1. /\ pc = "install" /\ pc' = "install" /\ n \in 1 .. MemberCount /\ n' = n + 1 /\ job' = job
  BY JobFacts DEF TreeInv, TypeOK, Install, MemberCount, members
<1>2. f \in Path /\ (InSite(f) => Rel(f) \in Path /\ Site(Rel(f)) = f)
  BY <1>1, JobFacts, MemberPath, PathInSite DEF TreeInv, TypeOK
<1>3. IF InSite(f) /\ Skipped(Rel(f)) THEN tree' = tree ELSE tree' = Put(tree, f, Content(m))
  BY DEF Install, members
<1> HIDE DEF f
<1>4. ASSUME NEW p \in Path
      PROVE  Site(p) \in DOMAIN tree' <=> (Ships(p, n - 1) \/ f = Site(p)) /\ ~ Skipped(p)
  <2>1. InSite(Site(p)) /\ Rel(Site(p)) = p
    BY SitePath
  <2>2. Site(p) \in DOMAIN tree <=> Ships(p, n - 1) /\ ~ Skipped(p)
    BY <1>1 DEF TreeInv, TreeExact
  <2>3. CASE InSite(f) /\ Skipped(Rel(f))
    BY <1>3, <2>1, <2>2, <2>3
  <2>4. CASE ~ (InSite(f) /\ Skipped(Rel(f)))
    <3>1. DOMAIN tree' = DOMAIN tree \cup {f}
      BY <1>3, <2>4 DEF Put
    <3> QED
      BY <2>1, <2>2, <2>4, <3>1
  <2> QED
    BY <2>3, <2>4
<1>5. \A p \in Path : Ships(p, n' - 1) <=> Ships(p, n - 1) \/ f = Site(p)
  <2>1. \A i : i \in 1 .. n' - 1 <=> i \in 1 .. n - 1 \/ i = n
    BY <1>1
  <2> QED
    BY <2>1 DEF Ships, f
<1>6. \A p : Skipped(p)' = Skipped(p) /\ \A k : Ships(p, k)' = Ships(p, k)
  BY <1>1, JobKept, StagesKept
<1>7. TreeExact'
  BY <1>1, <1>4, <1>5, <1>6 DEF TreeExact
<1>8. NoCache'
  <2>1. drop_pycache' = drop_pycache
    BY <1>1, JobKept
  <2> QED
    BY <1>1, <1>4, <2>1 DEF NoCache, Skipped
<1>9. NoneCompiled'
  <2>1. Content(m)[1] # "compiled"
    BY DEF Content, Shipped, Relocated
  <2>2. \A g \in DOMAIN tree : tree[g][1] # "compiled"
    BY <1>1 DEF TreeInv, NoneCompiled, IsCompiled
  <2>3. \A g \in DOMAIN tree' : tree'[g][1] # "compiled"
    BY <1>3, <2>1, <2>2 DEF Put
  <2> QED
    BY <2>3 DEF NoneCompiled, IsCompiled
<1> QED
  BY <1>7, <1>8, <1>9 DEF TreeInv

\* A step that leaves the tree alone.
LEMMA TreeSame ==
  ASSUME TreeInv, TypeOK', job' = job, tree' = tree, pc # "done", TreeExact'
  PROVE  TreeInv'
<1>1. drop_pycache' = drop_pycache
  BY JobKept
<1>2. NoCache' /\ NoneCompiled'
  BY <1>1 DEF TreeInv, NoCache, NoneCompiled, IsCompiled
<1> QED
  BY <1>2 DEF TreeInv

LEMMA TreeFail ==
  ASSUME TreeInv, TypeOK', Fail, pc # "done"
  PROVE  TreeInv'
<1>1. job' = job /\ tree' = tree /\ TreeExact'
  BY DEF Fail, TreeExact
<1> QED
  BY <1>1, TreeSame

LEMMA TreeEntryPoints ==
  ASSUME TreeInv, TypeOK', EntryPoints
  PROVE  TreeInv'
<1>1. /\ pc = "install" /\ pc' = "record" /\ job' = job /\ job \in Jobs
      /\ n - 1 = MemberCount /\ job.wheel.scripts \subseteq STRING
  <2>1. pc = "install" /\ pc' = "record" /\ job' = job /\ n > Len(members)
    BY DEF EntryPoints, members
  <2> QED
    BY <2>1, JobFacts DEF TreeInv, TypeOK, MemberCount
<1>2. PICK scripts \in SUBSET {<<"bin", s>> : s \in job.wheel.scripts} :
        tree' = [f \in DOMAIN tree \cup scripts |-> IF f \in scripts THEN Wrapper(f[2]) ELSE tree[f]]
  BY DEF EntryPoints
<1>3. \A p \in Path : Site(p) \notin scripts
  <2>1. \A f \in scripts : f[1] = "bin"
    BY <1>1, <1>2, Programs
  <2>2. \A p \in Path : Site(p)[1] = "lib"
    BY SitePath
  <2> QED
    BY <2>1, <2>2
<1>4. \A p \in Path : Site(p) \in DOMAIN tree' <=> Site(p) \in DOMAIN tree
  BY <1>2, <1>3
<1>5. TreeExact'
  <2>1. \A p : Skipped(p)' = Skipped(p) /\ Ships(p, MemberCount)' = Ships(p, MemberCount)
    BY <1>1, JobKept, StagesKept
  <2>2. MemberCount' = MemberCount
    BY <1>1, JobKept
  <2> QED
    BY <1>1, <1>4, <2>1, <2>2 DEF TreeInv, TreeExact
<1>6. NoCache'
  BY <1>1, <1>4, JobKept DEF TreeInv, NoCache
<1>7. NoneCompiled'
  BY <1>1, <1>2 DEF TreeInv, NoneCompiled, IsCompiled, Wrapper
<1> QED
  BY <1>5, <1>6, <1>7 DEF TreeInv

LEMMA TreeWriteRecord ==
  ASSUME TreeInv, TypeOK', WriteRecord
  PROVE  TreeInv'
<1>1. pc = "record" /\ pc' = "observe" /\ job' = job
  BY DEF WriteRecord
<1>2. RecordFile \in DOMAIN tree
  BY <1>1, RecordUnpacked DEF TreeInv
<1>3. tree' = Put(Put(tree, InstallerFile, Installer), RequestedFile, Requested)
  BY <1>2 DEF WriteRecord
<1>4. DOMAIN tree' = DOMAIN tree \cup {InstallerFile, RequestedFile}
  BY <1>3 DEF Put
<1>5. TreeExact'
  <2>1. \A p \in Path : Site(p) \in DOMAIN tree' <=> Unpacked(p)
    BY <1>1, <1>4 DEF TreeInv, TreeExact, Unpacked, Written
  <2> QED
    BY <1>1, <2>1, StagesKept DEF TreeExact
<1>6. NoCache'
  <2>1. \A p \in Path : Written(p) => ~ IsCache(p)
    <3>1. /\ InstallerFile = Site(<<DistInfo, "INSTALLER">>)
          /\ RequestedFile = Site(<<DistInfo, "REQUESTED">>)
          /\ <<DistInfo, "INSTALLER">> \in Path /\ <<DistInfo, "REQUESTED">> \in Path
          /\ ~ IsBytecode(<<DistInfo, "INSTALLER">>) /\ ~ IsBytecode(<<DistInfo, "REQUESTED">>)
      BY MetadataFiles DEF InstallerFile, RequestedFile
    <3> QED
      BY <3>1, SiteInjective DEF Written, IsCache
  <2> QED
    BY <1>1, <1>4, <2>1, JobKept DEF TreeInv, NoCache, Written
<1>7. NoneCompiled'
  <2>1. Installer[1] # "compiled" /\ Requested[1] # "compiled"
    BY DEF Installer, Requested
  <2> QED
    BY <1>1, <1>3, <2>1 DEF TreeInv, NoneCompiled, IsCompiled, Put
<1> QED
  BY <1>5, <1>6, <1>7 DEF TreeInv

LEMMA TreeObserve ==
  ASSUME TreeInv, TypeOK', Observe
  PROVE  TreeInv'
<1>1. CASE Fail
  BY <1>1, TreeFail DEF Observe
<1>2. CASE ~ Fail
  <2>1. pc = "observe" /\ pc' = "patch" /\ job' = job /\ tree' = tree /\ n' = n /\ n = 1
    BY <1>2 DEF Observe, TreeInv, TypeOK
  <2>2. \A p : After(p, n - 1) <=> Unpacked(p)
    BY <2>1 DEF After, Touched, Away
  <2>3. TreeExact'
    BY <2>1, <2>2, StagesKept DEF TreeInv, TreeExact
  <2> QED
    BY <2>1, <2>3, TreeSame
<1> QED
  BY <1>1, <1>2

LEMMA TreeApplyPatch ==
  ASSUME TreeInv, TypeOK', ApplyPatch
  PROVE  TreeInv'
<1> DEFINE patch == job.patches[n]
<1>1. CASE ~ Fits(patch)
  BY <1>1, TreeFail DEF ApplyPatch
<1>2. CASE Fits(patch)
  <2>1. /\ pc = "patch" /\ pc' = "patch" /\ job' = job /\ job \in Jobs
        /\ n \in 1 .. PatchCount /\ n' = n + 1
    BY <1>2, JobFacts DEF ApplyPatch, TreeInv, TypeOK, PatchCount
  <2>2. /\ DOMAIN tree' = PatchedFiles(patch)
        /\ \A f \in DOMAIN tree' : tree'[f] = IF f \in DOMAIN patch THEN Shipped(patch[f][2]) ELSE tree[f]
    BY <1>2 DEF ApplyPatch
  <2>3. ASSUME NEW p \in Path
        PROVE  Site(p) \in DOMAIN tree' <=> After(p, n)
    <3>1. Site(p) \in DOMAIN tree <=> After(p, n - 1)
      BY <2>1 DEF TreeInv, TreeExact
    <3>2. CASE Site(p) \notin DOMAIN patch
      <4>1. \A i : i \in 1 .. n <=> i \in 1 .. n - 1 \/ i = n
        BY <2>1
      <4>2. Touched(p, n) <=> Touched(p, n - 1)
        BY <3>2, <4>1 DEF Touched
      <4>3. Away(p, n) <=> Away(p, n - 1)
        <5>1. \A i \in 1 .. n - 1 : \A j : j \in i + 1 .. n <=> j \in i + 1 .. n - 1 \/ j = n
          BY <2>1
        <5> QED
          BY <3>2, <4>1, <5>1 DEF Away
      <4> QED
        BY <2>2, <3>1, <3>2, <4>2, <4>3 DEF After, PatchedFiles
    <3>3. CASE Site(p) \in DOMAIN patch
      <4>1. Touched(p, n)
        BY <2>1, <3>3 DEF Touched
      <4>2. Away(p, n) <=> patch[Site(p)][1] = "remove"
        <5>1. ASSUME NEW i \in 1 .. n, i # n
              PROVE  n \in i + 1 .. n
          BY <2>1, <5>1
        <5>2. Away(p, n) => patch[Site(p)][1] = "remove"
          BY <3>3, <5>1 DEF Away
        <5>3. n \in 1 .. n /\ \A j : j \notin n + 1 .. n
          BY <2>1
        <5>4. patch[Site(p)][1] = "remove" => Away(p, n)
          BY <3>3, <5>3 DEF Away
        <5> QED
          BY <5>2, <5>4
      <4> QED
        BY <2>2, <3>3, <4>1, <4>2 DEF After, PatchedFiles
    <3> QED
      BY <3>2, <3>3
  <2>4. TreeExact'
    <3>1. n' - 1 = n
      BY <2>1
    <3> QED
      BY <2>1, <2>3, <3>1, StagesKept DEF TreeExact
  <2>5. NoCache'
    <3>1. ASSUME NEW p \in Path, Site(p) \in DOMAIN tree', Site(p) \notin DOMAIN tree
          PROVE  ~ IsCache(p)
      <4>1. Site(p) \in DOMAIN patch /\ patch[Site(p)][1] = "add"
        BY <1>2, <2>2, <3>1 DEF PatchedFiles, Fits
      <4>2. InSite(Site(p)) /\ Rel(Site(p)) = p
        BY SitePath
      <4>3. n \in DOMAIN job.patches
        BY <2>1, JobFacts
      <4> QED
        BY <2>1, <4>1, <4>2, <4>3, PatchesAssumption
    <3> QED
      BY <2>1, <3>1, JobKept DEF TreeInv, NoCache
  <2>6. NoneCompiled'
    <3>1. \A f \in DOMAIN tree' : f \in DOMAIN tree \/ f \in DOMAIN patch
      BY <2>2 DEF PatchedFiles
    <3> QED
      BY <2>1, <2>2, <3>1 DEF TreeInv, NoneCompiled, IsCompiled, Shipped
  <2> QED
    BY <2>4, <2>5, <2>6 DEF TreeInv
<1> QED
  BY <1>1, <1>2

LEMMA TreeCheckPatched ==
  ASSUME TreeInv, TypeOK', CheckPatched
  PROVE  TreeInv'
<1>1. CASE Fail
  BY <1>1, TreeFail DEF CheckPatched
<1>2. CASE ~ Fail
  <2>1. /\ pc = "patch" /\ pc' = "exclude" /\ job' = job /\ tree' = tree
        /\ n - 1 = PatchCount
    <3>1. pc = "patch" /\ pc' = "exclude" /\ job' = job /\ tree' = tree /\ n > PatchCount
      BY <1>2 DEF CheckPatched, PatchCount
    <3> QED
      BY <3>1, JobFacts DEF TreeInv, TypeOK
  <2>2. TreeExact'
    BY <2>1, StagesKept, JobKept DEF TreeInv, TreeExact
  <2> QED
    BY <2>1, <2>2, TreeSame
<1> QED
  BY <1>1, <1>2

LEMMA TreeRemoveExcluded ==
  ASSUME TreeInv, TypeOK', RemoveExcluded
  PROVE  TreeInv'
<1>1. CASE Fail
  BY <1>1, TreeFail DEF RemoveExcluded
<1>2. CASE ~ Fail
  <2>1. pc = "exclude" /\ pc' = "rewrite" /\ job' = job /\ tree' = _remove_excluded(tree)
    BY <1>2 DEF RemoveExcluded
  <2>2. /\ DOMAIN tree' = {f \in DOMAIN tree : InSite(f) => ~ Excluded(Rel(f))}
        /\ \A f \in DOMAIN tree' : tree'[f] = tree[f]
    BY <2>1 DEF _remove_excluded, Keep, Excluded
  <2>3. \A p \in Path : InSite(Site(p)) /\ Rel(Site(p)) = p
    BY SitePath
  <2>4. TreeExact'
    <3>1. \A p \in Path : Site(p) \in DOMAIN tree' <=> After(p, PatchCount) /\ ~ Excluded(p)
      BY <2>1, <2>2, <2>3 DEF TreeInv, TreeExact
    <3> QED
      BY <2>1, <3>1, StagesKept, JobKept DEF TreeExact
  <2>5. NoCache' /\ NoneCompiled'
    BY <2>1, <2>2, JobKept DEF TreeInv, NoCache, NoneCompiled, IsCompiled
  <2> QED
    BY <2>4, <2>5 DEF TreeInv
<1> QED
  BY <1>1, <1>2

\* No bytecode is left for RECORD's rewriting to remove.
LEMMA NothingStale ==
  ASSUME TreeInv, pc = "rewrite"
  PROVE  Patched => {f \in DOMAIN tree : InSite(f) /\ IsCache(Rel(f))} = {}
<1>1. \A f \in DOMAIN tree : InSite(f) => Rel(f) \in Path /\ Site(Rel(f)) = f
  BY PathInSite DEF TreeInv, TypeOK
<1> QED
  BY <1>1 DEF TreeInv, NoCache, drop_pycache

LEMMA TreeRewriteRecord ==
  ASSUME TreeInv, TypeOK', RewriteRecord
  PROVE  TreeInv'
<1>1. CASE Fail
  BY <1>1, TreeFail DEF RewriteRecord
<1>2. CASE ~ Fail
  <2>1. /\ pc = "rewrite" /\ pc' = "compile" /\ job' = job
        /\ DOMAIN tree' = DOMAIN tree /\ \A f \in DOMAIN tree' : tree'[f] = tree[f]
    <3>1. pc = "rewrite"
      BY DEF RewriteRecord
    <3> QED
      BY <1>2, <3>1, NothingStale DEF RewriteRecord, Keep
  <2>2. TreeExact'
    BY <2>1, StagesKept, JobKept DEF TreeInv, TreeExact
  <2>3. NoCache' /\ NoneCompiled'
    BY <2>1, JobKept DEF TreeInv, NoCache, NoneCompiled, IsCompiled
  <2> QED
    BY <2>2, <2>3 DEF TreeInv
<1> QED
  BY <1>1, <1>2

LEMMA TreeNext == TreeInv /\ [Next]_vars => TreeInv'
<1> SUFFICES ASSUME TreeInv, [Next]_vars PROVE TreeInv'
  OBVIOUS
<1>1. TypeOK'
  BY TypeNext DEF TreeInv
<1>2. CASE Compile
  BY <1>1, <1>2 DEF Compile, TreeInv, TreeExact, NoCache, NoneCompiled
<1>3. CASE UNCHANGED vars
  <2>1. job' = job /\ tree' = tree /\ n' = n /\ pc' = pc
    BY <1>3 DEF vars
  <2>2. TreeExact'
    BY <2>1, StagesKept, JobKept DEF TreeInv, TreeExact
  <2> QED
    BY <1>1, <2>1, <2>2, JobKept DEF TreeInv, NoCache, NoneCompiled, IsCompiled
<1> QED
  BY <1>1, <1>2, <1>3, TreeInstall, TreeEntryPoints, TreeWriteRecord, TreeObserve, TreeApplyPatch,
     TreeCheckPatched, TreeRemoveExcluded, TreeRewriteRecord DEF Next, Terminating

-----------------------------------------------------------------------------
(* Exclusion and bytecode: the last step.                                  *)

Made(p) ==
  \E q \in SiteFiles(tree) : /\ Last(q) \in DOMAIN BytecodeOf /\ tree[Site(q)][2] \notin Broken
                             /\ p = BytecodePath(q)

LEMMA MadePath ==
  ASSUME TreeInv, NEW p, Made(p)
  PROVE  /\ p \in Path /\ IsCache(p)
         /\ cache_source_path(p) \in Path /\ Site(cache_source_path(p)) \in DOMAIN tree
         /\ ~ IsBytecode(cache_source_path(p))
         /\ p = BytecodePath(cache_source_path(p))
<1>1. PICK q \in SiteFiles(tree) : Last(q) \in DOMAIN BytecodeOf /\ p = BytecodePath(q)
  BY DEF Made
<1>2. q \in Path /\ Site(q) \in DOMAIN tree
  BY SiteFilesOf DEF TreeInv, TypeOK
<1> QED
  BY <1>1, <1>2, CachePath

LEMMA CompiledTree ==
  ASSUME TreeInv, Compile, job.compile, NEW p \in Path
  PROVE  /\ Site(p) \in DOMAIN tree' <=> (Site(p) \in DOMAIN tree \/ Made(p)) /\ ~ Excluded(p)
         /\ Site(p) \in DOMAIN tree' /\ Made(p) =>
              tree'[Site(p)] = Compiled(tree[Site(cache_source_path(p))])
         /\ Site(p) \in DOMAIN tree' /\ ~ Made(p) => tree'[Site(p)] = tree[Site(p)]
<1> DEFINE sources == {q \in SiteFiles(tree) : Last(q) \in DOMAIN BytecodeOf
                                              /\ tree[Site(q)][2] \notin Broken}
           made == {Site(BytecodePath(q)) : q \in sources}
           t == [f \in DOMAIN tree \cup made |->
                   IF f \in made THEN Compiled(tree[Site(cache_source_path(Rel(f)))]) ELSE tree[f]]
<1>1. tree' = IF job.exclude # {} THEN _remove_excluded(t) ELSE t
  BY DEF Compile
<1>2. Site(p) \in made <=> Made(p)
  <2>1. \A q \in SiteFiles(tree) : q \in Path
    BY SiteFilesOf DEF TreeInv, TypeOK
  <2>2. \A q \in sources : BytecodePath(q) \in Path
    BY <2>1, CachePath
  <2>3. \A q \in sources : Site(p) = Site(BytecodePath(q)) <=> p = BytecodePath(q)
    BY <2>2, SiteInjective
  <2> QED
    BY <2>3 DEF Made
<1>3. InSite(Site(p)) /\ Rel(Site(p)) = p
  BY SitePath
<1> HIDE DEF made
<1>4. /\ Site(p) \in DOMAIN t <=> Site(p) \in DOMAIN tree \/ Made(p)
      /\ Site(p) \in DOMAIN t =>
           t[Site(p)] = IF Made(p) THEN Compiled(tree[Site(cache_source_path(p))]) ELSE tree[Site(p)]
  BY <1>2, <1>3
<1> HIDE DEF t
<1>5. CASE job.exclude # {}
  <2>1. /\ Site(p) \in DOMAIN tree' <=> Site(p) \in DOMAIN t /\ ~ Excluded(p)
        /\ Site(p) \in DOMAIN tree' => tree'[Site(p)] = t[Site(p)]
    BY <1>1, <1>3, <1>5 DEF _remove_excluded, Keep, Excluded
  <2> QED
    BY <1>4, <2>1
<1>6. CASE job.exclude = {}
  <2>1. ~ Excluded(p)
    BY <1>6 DEF Excluded, _path_excluded, SourceExcluded, Within
  <2> QED
    BY <1>1, <1>4, <1>6, <2>1
<1> QED
  BY <1>5, <1>6

LEMMA BroughtPaths ==
  ASSUME job \in Jobs
  PROVE  /\ Brought = {p \in Path : Ships(p, MemberCount) \/ Written(p) \/ Touched(p, PatchCount)}
         /\ \A p : PatchedAway(p) <=> Away(p, PatchCount)
<1> DEFINE all == {Dest(m) : m \in Members} \cup {InstallerFile, RequestedFile}
                    \cup UNION {DOMAIN job.patches[i] : i \in DOMAIN job.patches}
<1>1. \A f \in all : f \in Path
  <2>1. \A m \in Members : Dest(m) \in Path
    BY JobFacts, MemberPath
  <2>2. InstallerFile \in Path /\ RequestedFile \in Path
    BY MetadataFiles DEF InstallerFile, RequestedFile
  <2>3. \A i \in DOMAIN job.patches : \A f \in DOMAIN job.patches[i] : f \in Path
    BY PatchesAssumption
  <2> QED
    BY <2>1, <2>2, <2>3
<1>2. \A p \in Path : Site(p) \in all <=> Ships(p, MemberCount) \/ Written(p) \/ Touched(p, PatchCount)
  <2>1. \A f : f \in {Dest(m) : m \in Members} <=> \E i \in 1 .. MemberCount : Dest(members[i]) = f
    BY JobFacts
  <2>2. DOMAIN job.patches = 1 .. PatchCount
    BY JobFacts
  <2> QED
    BY <2>1, <2>2 DEF Ships, Written, Touched
<1> HIDE DEF all
<1>3. \A p \in Path : InSite(Site(p)) /\ Rel(Site(p)) = p
  BY SitePath
<1>4. \A f \in all : InSite(f) => Rel(f) \in Path /\ Site(Rel(f)) = f
  BY <1>1, PathInSite
<1>5. {Rel(f) : f \in {g \in all : InSite(g)}} = {p \in Path : Site(p) \in all}
  BY <1>3, <1>4
<1>6. Brought = {Rel(f) : f \in {g \in all : InSite(g)}}
  BY DEF Brought, all
<1>7. \A p : PatchedAway(p) <=> Away(p, PatchCount)
  BY JobFacts DEF PatchedAway, Away, PatchCount
<1> QED
  BY <1>2, <1>5, <1>6, <1>7

LEMMA FinalTree ==
  ASSUME TreeInv, TypeOK', Compile
  PROVE  ExclusionExact' /\ BytecodeFresh'
<1>1. /\ pc = "compile" /\ job' = job /\ job \in Jobs /\ DOMAIN tree \subseteq Path
      /\ DOMAIN tree' \subseteq Path
  BY DEF Compile, TreeInv, TypeOK
<1>2. \A p \in Path : Site(p) \in DOMAIN tree <=> After(p, PatchCount) /\ ~ Excluded(p)
  BY <1>1 DEF TreeInv, TreeExact
<1>3. drop_pycache => \A p \in Path : Site(p) \in DOMAIN tree => ~ IsCache(p)
  BY <1>1 DEF TreeInv, NoCache
<1>4. \A f \in DOMAIN tree : tree[f][1] # "compiled"
  BY <1>1 DEF TreeInv, NoneCompiled, IsCompiled
<1>5. ~ job.compile => tree' = tree
  BY DEF Compile
<1>6. SiteFiles(tree)' = {p \in Path : Site(p) \in DOMAIN tree'}
  <2>1. SiteFiles(tree') = {p \in Path : Site(p) \in DOMAIN tree'}
    BY <1>1, SiteFilesOf
  <2> QED
    BY <2>1 DEF SiteFiles
<1>7. /\ Patched' = Patched /\ drop_pycache' = drop_pycache
      /\ Brought' = Brought /\ \A p : PatchedAway(p)' = PatchedAway(p)
  BY <1>1, JobKept DEF Brought, PatchedAway
<1>8. ASSUME NEW p \in Path, Site(p) \in DOMAIN tree'
      PROVE  ~ Excluded(p) /\ (tree'[Site(p)][1] = "compiled" <=> Site(p) \notin DOMAIN tree)
  <2>1. CASE job.compile
    <3>1. (Site(p) \in DOMAIN tree \/ Made(p)) /\ ~ Excluded(p)
      BY <1>8, <2>1, CompiledTree
    <3>2. CASE Made(p)
      <4>1. Site(p) \notin DOMAIN tree
        BY <1>3, <2>1, <3>2, MadePath DEF drop_pycache
      <4>2. tree'[Site(p)][1] = "compiled"
        BY <1>8, <2>1, <3>2, CompiledTree DEF Compiled
      <4> QED
        BY <3>1, <4>1, <4>2
    <3>3. CASE ~ Made(p)
      BY <1>4, <1>8, <2>1, <3>1, <3>3, CompiledTree
    <3> QED
      BY <3>2, <3>3
  <2>2. CASE ~ job.compile
    BY <1>2, <1>4, <1>5, <1>8, <2>2
  <2> QED
    BY <2>1, <2>2
<1>9. ASSUME NEW p \in Path, Site(p) \in DOMAIN tree
      PROVE  Site(p) \in DOMAIN tree'
  BY <1>2, <1>5, <1>9, CompiledTree
<1>10. ASSUME NEW p \in Path
       PROVE  Site(p) \in DOMAIN tree <=>
                /\ p \in Brought /\ ~ Excluded(p) /\ ~ PatchedAway(p)
                /\ ~ (IsCache(p) /\ (Patched \/ job.compile))
  <2>1. p \in Brought <=> Ships(p, MemberCount) \/ Written(p) \/ Touched(p, PatchCount)
    BY <1>1, BroughtPaths
  <2>2. PatchedAway(p) <=> Away(p, PatchCount)
    BY <1>1, BroughtPaths
  <2>3. ASSUME Ships(p, MemberCount), ~ Excluded(p), ~ (IsCache(p) /\ (Patched \/ job.compile))
        PROVE  Unpacked(p)
    BY <2>3 DEF Unpacked, Skipped, drop_pycache, Excluded
  <2> QED
    BY <1>2, <1>3, <2>1, <2>2, <2>3 DEF After, Unpacked, drop_pycache
<1>11. ExclusionExact'
  <2>1. \A p \in Path : Site(p) \in DOMAIN tree' =>
          ~ _path_excluded(p, job'.exclude) /\ (IsCompiled(Site(p))' <=> Site(p) \notin DOMAIN tree)
    BY <1>1, <1>8 DEF IsCompiled, Excluded
  <2>2. {p \in SiteFiles(tree)' : ~ IsCompiled(Site(p))'} = {p \in Path : Site(p) \in DOMAIN tree}
    BY <1>6, <1>9, <2>1
  <2>3. \A p \in SiteFiles(tree)' : ~ _path_excluded(p, job'.exclude)
    BY <1>6, <2>1
  <2>4. Brought \subseteq Path
    BY <1>1, BroughtPaths
  <2>5. {p \in Path : Site(p) \in DOMAIN tree} =
          {p \in Brought' : /\ ~ _path_excluded(p, job'.exclude) /\ ~ PatchedAway(p)'
                            /\ ~ (IsCache(p) /\ (Patched' \/ job'.compile))}
    BY <1>1, <1>7, <1>10, <2>4 DEF Excluded
  <2> QED
    BY <2>2, <2>3, <2>5 DEF ExclusionExact
<1>12. BytecodeFresh'
  <2> SUFFICES ASSUME NEW p \in Path, Site(p) \in DOMAIN tree', IsCache(p), Patched \/ job.compile
               PROVE  tree'[Site(p)] = Compiled(tree'[Site(cache_source_path(p))])
    BY <1>1, <1>6, <1>7 DEF BytecodeFresh
  <2>1. Site(p) \notin DOMAIN tree
    BY <1>3 DEF drop_pycache
  <2>2. job.compile
    BY <1>5, <2>1
  <2>3. Made(p) /\ ~ Excluded(p) /\ tree'[Site(p)] = Compiled(tree[Site(cache_source_path(p))])
    BY <2>1, <2>2, CompiledTree
  <2> DEFINE q == cache_source_path(p)
  <2>4. q \in Path /\ Site(q) \in DOMAIN tree /\ ~ IsBytecode(q)
    BY <2>3, MadePath
  <2>5. Site(q) \in DOMAIN tree'
    BY <1>9, <2>4
  <2>6. ~ Made(q)
    BY <2>4, MadePath DEF IsCache
  <2>7. tree'[Site(q)] = tree[Site(q)]
    BY <2>2, <2>4, <2>5, <2>6, CompiledTree
  <2> QED
    BY <2>3, <2>7
<1> QED
  BY <1>11, <1>12

LEMMA FinalNext == TreeInv /\ ExclusionExact /\ BytecodeFresh /\ [Next]_vars => ExclusionExact' /\ BytecodeFresh'
<1> SUFFICES ASSUME TreeInv, ExclusionExact, BytecodeFresh, [Next]_vars
             PROVE  ExclusionExact' /\ BytecodeFresh'
  OBVIOUS
<1>1. CASE Compile
  BY <1>1, FinalTree, TypeNext DEF TreeInv
<1>2. CASE UNCHANGED vars
  <2>1. job' = job /\ tree' = tree /\ pc' = pc
    BY <1>2 DEF vars
  <2>2. /\ SiteFiles(tree)' = SiteFiles(tree) /\ Patched' = Patched /\ Brought' = Brought
        /\ \A p : PatchedAway(p)' = PatchedAway(p) /\ IsCompiled(p)' = IsCompiled(p)
    BY <2>1, JobKept DEF SiteFiles, Brought, PatchedAway, IsCompiled
  <2>3. ExclusionExact'
    BY <2>1, <2>2 DEF ExclusionExact
  <2>4. BytecodeFresh'
    BY <2>1, <2>2 DEF BytecodeFresh
  <2> QED
    BY <2>3, <2>4
<1>3. CASE ~ Compile /\ ~ UNCHANGED vars
  <2>1. pc' # "done"
    BY <1>3 DEF Next, Install, EntryPoints, WriteRecord, Observe, ApplyPatch, CheckPatched,
       RemoveExcluded, RewriteRecord, Terminating, Fail, TreeInv, TypeOK
  <2> QED
    BY <2>1 DEF ExclusionExact, BytecodeFresh
<1> QED
  BY <1>1, <1>2, <1>3

\* The site-packages files an install leaves are those the wheel and the
\* patches bring, without the excluded ones and without bytecode that was made
\* stale, whether unpack.py:342-353 never unpacks them or :190-207 removes them
\* after the patches.
THEOREM ExclusionExactCorrect == Spec => []ExclusionExact
<1>1. Init => TreeInv /\ ExclusionExact /\ BytecodeFresh
  BY TreeInit DEF Init, ExclusionExact, BytecodeFresh
<1>2. TreeInv /\ ExclusionExact /\ BytecodeFresh /\ [Next]_vars
        => TreeInv' /\ ExclusionExact' /\ BytecodeFresh'
  BY TreeNext, FinalNext
<1> QED
  BY <1>1, <1>2, PTL DEF Spec

\* No bytecode outlives the source it was built from (unpack.py:520): what a
\* patched or compiled install leaves in a cache is made from the final module.
THEOREM BytecodeFreshCorrect == Spec => []BytecodeFresh
<1>1. Init => TreeInv /\ ExclusionExact /\ BytecodeFresh
  BY TreeInit DEF Init, ExclusionExact, BytecodeFresh
<1>2. TreeInv /\ ExclusionExact /\ BytecodeFresh /\ [Next]_vars
        => TreeInv' /\ ExclusionExact' /\ BytecodeFresh'
  BY TreeNext, FinalNext
<1> QED
  BY <1>1, <1>2, PTL DEF Spec

-----------------------------------------------------------------------------
(* The rows of RECORD.                                                     *)

LEMMA LastExists ==
  ASSUME NEW k \in Nat, NEW S \in SUBSET (1 .. k), S # {}
  PROVE  \E w \in S : \A v \in S : v <= w
<1> DEFINE T == {i \in Nat : k - i \in S}
<1>1. T \subseteq Nat /\ \A w \in S : k - w \in T
  <2>1. \A w \in S : k - w \in Nat /\ k - (k - w) = w
    OBVIOUS
  <2> QED
    BY <2>1
<1>2. \A t \in T : t \in Nat /\ k - t \in S
  OBVIOUS
<1>3. T # {}
  BY <1>1
<1> HIDE DEF T
<1>4. PICK t \in T : \A u \in T : ~ (<<u, t>> \in OpToRel(<, Nat))
  BY <1>1, <1>3, WFMin, NatLessThanWellFounded, Zenon
<1>5. \A u \in T : ~ (u < t)
  BY <1>1, <1>4 DEF OpToRel
<1>6. \A v \in S : v <= k - t
  <2> TAKE v \in S
  <2>1. k - v \in T /\ t \in Nat /\ v \in Nat
    BY <1>1, <1>2
  <2>2. ~ (k - v < t)
    BY <1>5, <2>1
  <2> QED
    BY <2>1, <2>2
<1> QED
  BY <1>2, <1>6

LEMMA ShippedRow ==
  ASSUME NEW d \in DOMAIN SizeOf
  PROVE  Hash(Shipped(d)) = [digest |-> Shipped(d), size |-> SizeOf[d]]
<1>1. d # "aspect_rules_py" /\ d # ""
  BY SizeAssumption
<1>2. Shipped(d) # Installer /\ Shipped(d) # Requested
  BY <1>1 DEF Shipped, Installer, Requested
<1>3. Shipped(d)[1] = "shipped" /\ Shipped(d)[2] = d
  BY DEF Shipped
<1>4. Size(Shipped(d)) = SizeOf[d]
  BY <1>2, <1>3 DEF Size
<1> QED
  BY <1>4 DEF Hash

\* While members are unpacked, a reused row may tell of a member of the same
\* name that is yet to come; a row that is not reused is made at the end.
Coming(f) == \E i \in n .. MemberCount : Dest(members[i]) = f
Unpacking ==
  /\ \A i \in 1 .. n - 1 :
       \/ Name(members[i]) \in seen
       \/ InSite(Dest(members[i])) /\ Skipped(Rel(Dest(members[i])))
  /\ \A f \in DOMAIN installed :
       /\ Last(f) # "RECORD"
       /\ f \in {InstallerFile, RequestedFile} => Cardinality(RecordMembers) # 1
Rows ==
  /\ DOMAIN installed \subseteq DOMAIN tree
  /\ \A f \in DOMAIN installed :
       /\ installed[f] = None \/ installed[f] = Hash(tree[f]) \/ (pc = "install" /\ Coming(f))
       /\ f \in {InstallerFile, RequestedFile} => installed[f] = None
  /\ \A f \in DOMAIN tree :
       f \in DOMAIN installed \/ Last(f) = "RECORD" \/ f \in {InstallerFile, RequestedFile}
Exact ==
  /\ \A r \in record : r[1] \in DOMAIN tree /\ r[2] = Hash(tree[r[1]])
  /\ \A f \in DOMAIN tree : IsCompiled(f) \/ Last(f) = "RECORD" \/ \E r \in record : r[1] = f
RecordInv ==
  /\ pc = "install" => Unpacking
  /\ pc \in {"install", "record"} => Rows
  /\ pc = "observe" => Exact
  /\ pc \in {"patch", "exclude"} /\ ~ Patched => Exact
  /\ pc = "rewrite" /\ ~ Patched /\ job.exclude = {} => Exact
  /\ pc \in {"compile", "done"} /\ RecordFile \in DOMAIN tree => Exact

LEMMA SameName ==
  ASSUME NEW m, NEW o, Name(m) = Name(o)
  PROVE  m.at = o.at /\ Dest(m) = Dest(o)
<1>1. m.at = o.at /\ m.rel = o.rel
  BY DEF Name
<1> QED
  BY <1>1 DEF Dest

\* A row is reused for what is unpacked, or for a member that comes later.
LEMMA ReusedRow ==
  ASSUME TreeInv, RecordInv, pc = "install", n \in 1 .. MemberCount,
         LET f == Dest(members[n]) IN ~ (InSite(f) /\ Skipped(Rel(f))),
         Reusable(members[n]) # None
  PROVE  \/ Reusable(members[n]) = Hash(Content(members[n]))
         \/ \E i \in n + 1 .. MemberCount : Dest(members[i]) = Dest(members[n])
<1> DEFINE m == members[n]
           row == record_metadata[Name(m)]
<1>1. /\ Name(m) \in DOMAIN record_metadata /\ Name(m) \notin seen
      /\ Content(m)[1] # "relocated" /\ row.size = SizeOf[m.data] /\ Reusable(m) = row
  BY DEF Reusable
<1>2. Cardinality(RecordMembers) = 1
  BY <1>1 DEF record_metadata, Empty
<1>3. record_metadata = job.wheel.claims
  BY <1>2 DEF record_metadata
<1>4. /\ job \in Jobs /\ MemberCount \in Nat /\ DOMAIN members = 1 .. MemberCount
      /\ \A i \in 1 .. MemberCount : members[i] \in Member
  BY JobFacts DEF TreeInv, TypeOK
<1>5. PICK i \in 1 .. MemberCount :
        Name(members[i]) = Name(m)
          /\ row = [digest |-> Shipped(members[i].data), size |-> row.size]
  BY <1>1, <1>3, <1>4, WheelsAssumption DEF members
<1>6. ~ i < n
  <2> SUFFICES ASSUME i < n PROVE FALSE
    OBVIOUS
  <2>1. i \in 1 .. n - 1
    BY <1>4
  <2>2. InSite(Dest(members[i])) /\ Skipped(Rel(Dest(members[i])))
    BY <1>1, <1>5, <2>1 DEF RecordInv, Unpacking
  <2> QED
    BY <1>5, <2>2, SameName
<1>7. CASE i > n
  <2>1. i \in n + 1 .. MemberCount
    BY <1>4, <1>7
  <2> QED
    BY <1>5, <2>1, SameName
<1>8. CASE i = n
  <2>1. m.data \in DOMAIN SizeOf
    BY <1>4 DEF Member
  <2>2. row = Hash(Shipped(m.data))
    BY <1>1, <1>5, <1>8, <2>1, ShippedRow
  <2>3. CASE m.at # "scripts"
    BY <1>1, <2>2, <2>3 DEF Content
  <2>4. CASE m.at = "scripts"
    <3> DEFINE S == {j \in 1 .. MemberCount : Name(members[j]) = Name(m)}
               IsLast(j) == /\ Name(members[j]) = Name(m)
                            /\ \A k \in DOMAIN members : Name(members[k]) = Name(m) => k <= j
               last == CHOOSE j \in DOMAIN members : IsLast(j)
    <3>1. PICK w \in S : \A v \in S : v <= w
      BY <1>4, LastExists
    <3>2. w \in DOMAIN members /\ IsLast(w)
      BY <1>4, <3>1
    <3>3. last \in DOMAIN members /\ IsLast(last)
      BY <3>2
    <3>4. Content(m) = IF members[last].data \in Shebang THEN Relocated(members[last].data)
                       ELSE Shipped(members[last].data)
      BY <2>4 DEF Content, members
    <3> HIDE DEF last
    <3>5. Content(m) = Shipped(members[last].data)
      BY <1>1, <3>4 DEF Relocated
    <3>6. n <= last /\ last \in 1 .. MemberCount
      BY <1>4, <3>3
    <3>7. CASE last = n
      BY <1>1, <2>2, <3>5, <3>7
    <3>8. CASE last # n
      <4>1. last \in n + 1 .. MemberCount
        BY <1>4, <3>6, <3>8
      <4> QED
        BY <3>3, <4>1, SameName
    <3> QED
      BY <3>7, <3>8
  <2> QED
    BY <2>3, <2>4
<1> QED
  BY <1>4, <1>6, <1>7, <1>8

LEMMA RecordInit == Init => RecordInv
<1> SUFFICES ASSUME Init PROVE RecordInv
  OBVIOUS
<1>1. pc = "install" /\ n = 1 /\ DOMAIN tree = {} /\ DOMAIN installed = {}
  BY DEF Init, Empty
<1> QED
  BY <1>1 DEF RecordInv, Unpacking, Rows

LEMMA RecordKept ==
  ASSUME job' = job
  PROVE  /\ RecordMembers' = RecordMembers /\ record_metadata' = record_metadata
         /\ regenerated_markers' = regenerated_markers
<1>1. RecordMembers' = RecordMembers
  BY JobKept DEF RecordMembers
<1> QED
  BY <1>1 DEF record_metadata, regenerated_markers

LEMMA RecordInstall ==
  ASSUME TreeInv, RecordInv, TypeOK', Install
  PROVE  RecordInv'
<1> DEFINE m == members[n]
           f == Dest(m)
           skip == InSite(f) /\ Skipped(Rel(f))
<1>1. /\ pc = "install" /\ pc' = "install" /\ n \in 1 .. MemberCount /\ n' = n + 1 /\ job' = job
      /\ job \in Jobs /\ m \in Member /\ m \in Members /\ MemberCount \in Nat
  BY JobFacts DEF TreeInv, TypeOK, Install, MemberCount, members
<1>2. f \in Path /\ Last(f) = Last(m.rel) /\ m.rel \in Path
  BY <1>1, MemberPath DEF Member
<1>3. /\ skip => UNCHANGED <<tree, installed, seen>>
      /\ ~ skip =>
           /\ tree' = Put(tree, f, Content(m))
           /\ seen' = seen \cup {Name(m)}
           /\ installed' = IF m \in RecordMembers \/ Name(m) \in regenerated_markers
                           THEN installed ELSE Put(installed, f, Reusable(m))
  BY DEF Install, members
<1>4. Unpacking /\ Rows
  BY <1>1 DEF RecordInv
<1>5. skip => f \notin DOMAIN tree
  BY <1>1, <1>2, PathInSite DEF TreeInv, TreeExact
<1>6. m \in RecordMembers => Last(f) = "RECORD"
  BY <1>2 DEF RecordMembers
<1>7. Name(m) \in regenerated_markers =>
        f \in {InstallerFile, RequestedFile} /\ Cardinality(RecordMembers) = 1
  <2>1. ASSUME NEW s, Name(m) = <<"root", <<DistInfo, s>>>>
        PROVE  f = Site(<<DistInfo, s>>)
    <3>1. m.at = "root" /\ m.rel = <<DistInfo, s>>
      BY <2>1 DEF Name
    <3> QED
      BY <1>1, <3>1, MemberPath
  <2> QED
    BY <2>1 DEF regenerated_markers, InstallerFile, RequestedFile
<1>8. m \notin RecordMembers => Last(f) # "RECORD"
  <2>1. Last(m.rel) = "RECORD" /\ m.at = "root" => Len(m.rel) >= 2
    <3>1. n \in DOMAIN members
      BY <1>1, JobFacts
    <3> QED
      BY <1>1, <3>1, WheelsAssumption DEF members
  <2> QED
    BY <1>1, <1>2, <2>1 DEF RecordMembers
<1>9. f \in {InstallerFile, RequestedFile} /\ Name(m) \notin regenerated_markers =>
        Cardinality(RecordMembers) # 1 /\ Reusable(m) = None
  <2> SUFFICES ASSUME f \in {InstallerFile, RequestedFile}, Cardinality(RecordMembers) = 1
               PROVE  Name(m) \in regenerated_markers
    BY DEF Reusable, record_metadata, Empty
  <2>1. m.at = "root"
    <3>1. n \in DOMAIN members
      BY <1>1, JobFacts
    <3> QED
      BY <1>1, <3>1, WheelsAssumption DEF members
  <2>2. f = Site(m.rel)
    BY <1>1, <2>1, MemberPath
  <2>3. <<DistInfo, "INSTALLER">> \in Path /\ <<DistInfo, "REQUESTED">> \in Path
    BY MetadataFiles
  <2>4. m.rel \in {<<DistInfo, "INSTALLER">>, <<DistInfo, "REQUESTED">>}
    BY <1>2, <2>2, <2>3, SiteInjective DEF InstallerFile, RequestedFile
  <2> QED
    BY <2>1, <2>4 DEF regenerated_markers, Name
<1>10. ASSUME NEW g, Coming(g), g # f
       PROVE  Coming(g)'
  <2>1. PICK i \in n .. MemberCount : Dest(members[i]) = g
    BY <1>10 DEF Coming
  <2>2. i # n /\ i \in n' .. MemberCount
    BY <1>1, <1>10, <2>1
  <2> QED
    BY <1>1, <2>1, <2>2, JobKept DEF Coming
<1>11. \A g : (\E i \in n + 1 .. MemberCount : Dest(members[i]) = g) => Coming(g)'
  BY <1>1, JobKept DEF Coming
<1> HIDE DEF f
<1>12. CASE skip
  <2>1. Unpacking'
    <3>1. \A i \in 1 .. n' - 1 : i \in 1 .. n - 1 \/ i = n
      BY <1>1
    <3> QED
      BY <1>1, <1>3, <1>4, <1>12, <3>1, JobKept, RecordKept DEF Unpacking, f
  <2>2. Rows'
    <3>1. f \notin DOMAIN installed
      BY <1>4, <1>5, <1>12 DEF Rows
    <3> QED
      BY <1>1, <1>3, <1>4, <1>10, <1>12, <3>1 DEF Rows
  <2> QED
    BY <1>1, <2>1, <2>2 DEF RecordInv
<1>13. CASE ~ skip
  <2> DEFINE own == m \in RecordMembers \/ Name(m) \in regenerated_markers
  <2>1. /\ DOMAIN tree' = DOMAIN tree \cup {f} /\ tree'[f] = Content(m)
        /\ \A g \in DOMAIN tree : g # f => tree'[g] = tree[g]
    BY <1>3, <1>13 DEF Put
  <2>2. /\ own => installed' = installed /\ f \notin DOMAIN installed
        /\ ~ own => /\ DOMAIN installed' = DOMAIN installed \cup {f} /\ installed'[f] = Reusable(m)
                    /\ \A g \in DOMAIN installed : g # f => installed'[g] = installed[g]
    <3>1. own => f \notin DOMAIN installed
      BY <1>4, <1>6, <1>7 DEF Unpacking
    <3> QED
      BY <1>3, <1>13, <3>1 DEF Put
  <2>3. ~ own => /\ Last(f) # "RECORD"
                 /\ f \in {InstallerFile, RequestedFile} =>
                      Cardinality(RecordMembers) # 1 /\ Reusable(m) = None
    BY <1>8, <1>9
  <2>4. own => Last(f) = "RECORD" \/ f \in {InstallerFile, RequestedFile}
    BY <1>6, <1>7
  <2>5. \A g : g = f => Reusable(m) = None \/ Reusable(m) = Hash(Content(m)) \/ Coming(g)'
    BY <1>1, <1>11, <1>13, ReusedRow DEF f
  <2>6. Unpacking'
    <3>1. \A i \in 1 .. n' - 1 : i \in 1 .. n - 1 \/ i = n
      BY <1>1
    <3>2. seen' = seen \cup {Name(m)}
      BY <1>3, <1>13
    <3>3. \A i \in 1 .. n' - 1 :
            \/ Name(members[i]) \in seen'
            \/ InSite(Dest(members[i])) /\ Skipped(Rel(Dest(members[i])))
      BY <1>4, <3>1, <3>2 DEF Unpacking
    <3>4. \A g \in DOMAIN installed' :
            Last(g) # "RECORD" /\ (g \in {InstallerFile, RequestedFile} => Cardinality(RecordMembers) # 1)
      BY <1>4, <2>2, <2>3 DEF Unpacking
    <3> QED
      BY <1>1, <3>3, <3>4, JobKept, RecordKept DEF Unpacking
  <2>7. Rows'
    <3>1. DOMAIN installed' \subseteq DOMAIN tree'
      BY <1>4, <2>1, <2>2 DEF Rows
    <3>2. ASSUME NEW g \in DOMAIN installed'
          PROVE  /\ installed'[g] = None \/ installed'[g] = Hash(tree'[g]) \/ Coming(g)'
                 /\ g \in {InstallerFile, RequestedFile} => installed'[g] = None
      <4>1. CASE g = f
        BY <2>1, <2>2, <2>3, <2>5, <3>2, <4>1
      <4>2. CASE g # f
        BY <1>4, <1>10, <2>1, <2>2, <3>2, <4>2 DEF Rows
      <4> QED
        BY <4>1, <4>2
    <3>3. \A g \in DOMAIN tree' :
            g \in DOMAIN installed' \/ Last(g) = "RECORD" \/ g \in {InstallerFile, RequestedFile}
      BY <1>4, <2>1, <2>2, <2>4 DEF Rows
    <3> QED
      BY <1>1, <3>1, <3>2, <3>3 DEF Rows
  <2> QED
    BY <1>1, <2>6, <2>7 DEF RecordInv
<1> QED
  BY <1>12, <1>13

LEMMA RecordEntryPoints ==
  ASSUME TreeInv, RecordInv, EntryPoints
  PROVE  RecordInv'
<1>1. /\ pc = "install" /\ pc' = "record" /\ job' = job /\ n > MemberCount /\ MemberCount \in Nat
      /\ n \in Nat
  BY JobFacts DEF EntryPoints, MemberCount, members, TreeInv, TypeOK
<1>2. PICK scripts :
        /\ tree' = [f \in DOMAIN tree \cup scripts |-> IF f \in scripts THEN Wrapper(f[2]) ELSE tree[f]]
        /\ installed' = [f \in DOMAIN installed \cup scripts |->
                           IF f \in scripts THEN None ELSE installed[f]]
  BY DEF EntryPoints
<1>3. \A f : ~ Coming(f)
  BY <1>1 DEF Coming
<1>4. Rows
  BY <1>1 DEF RecordInv
<1>5. Rows'
  <2>1. DOMAIN installed' \subseteq DOMAIN tree'
    BY <1>2, <1>4 DEF Rows
  <2>2. \A f \in DOMAIN installed' :
          /\ installed'[f] = None \/ installed'[f] = Hash(tree'[f])
          /\ f \in {InstallerFile, RequestedFile} => installed'[f] = None
    BY <1>2, <1>3, <1>4 DEF Rows
  <2>3. \A f \in DOMAIN tree' :
          f \in DOMAIN installed' \/ Last(f) = "RECORD" \/ f \in {InstallerFile, RequestedFile}
    BY <1>2, <1>4 DEF Rows
  <2> QED
    BY <2>1, <2>2, <2>3 DEF Rows
<1> QED
  BY <1>1, <1>5 DEF RecordInv

LEMMA RecordWritten ==
  ASSUME TreeInv, RecordInv, WriteRecord
  PROVE  RecordInv'
<1>1. pc = "record" /\ pc' = "observe" /\ installed' = installed
  BY DEF WriteRecord
<1>2. RecordFile \in DOMAIN tree
  BY <1>1, RecordUnpacked DEF TreeInv
<1>3. /\ tree' = Put(Put(tree, InstallerFile, Installer), RequestedFile, Requested)
      /\ record' = {<<f, IF installed[f] = None THEN Hash(tree'[f]) ELSE installed[f]>> :
                      f \in DOMAIN installed}
                   \cup {<<f, Hash(tree'[f])>> : f \in {InstallerFile, RequestedFile}}
  BY <1>2 DEF WriteRecord
<1>4. Rows
  BY <1>1 DEF RecordInv
<1>5. /\ DOMAIN tree' = DOMAIN tree \cup {InstallerFile, RequestedFile}
      /\ \A f \in DOMAIN tree : f \notin {InstallerFile, RequestedFile} => tree'[f] = tree[f]
  BY <1>3 DEF Put
<1>6. ASSUME NEW r \in record'
      PROVE  r[1] \in DOMAIN tree' /\ r[2] = Hash(tree'[r[1]])
  <2>1. CASE \E f \in {InstallerFile, RequestedFile} : r = <<f, Hash(tree'[f])>>
    BY <1>5, <2>1
  <2>2. CASE \E f \in DOMAIN installed :
               r = <<f, IF installed[f] = None THEN Hash(tree'[f]) ELSE installed[f]>>
    <3>1. PICK f \in DOMAIN installed :
            r = <<f, IF installed[f] = None THEN Hash(tree'[f]) ELSE installed[f]>>
      BY <2>2
    <3>2. f \in DOMAIN tree'
      BY <1>4, <1>5 DEF Rows
    <3>3. installed[f] # None => installed[f] = Hash(tree'[f])
      BY <1>1, <1>4, <1>5 DEF Rows
    <3> QED
      BY <3>1, <3>2, <3>3
  <2> QED
    BY <1>3, <2>1, <2>2
<1>7. ASSUME NEW f \in DOMAIN tree'
      PROVE  Last(f) = "RECORD" \/ \E r \in record' : r[1] = f
  <2>1. CASE f \in DOMAIN installed
    <3> DEFINE row == IF installed[f] = None THEN Hash(tree'[f]) ELSE installed[f]
    <3>1. <<f, row>> \in record'
      BY <1>3, <2>1
    <3> HIDE DEF row
    <3>2. <<f, row>>[1] = f
      OBVIOUS
    <3> QED
      BY <3>1, <3>2
  <2>2. CASE f \in {InstallerFile, RequestedFile}
    <3> DEFINE row == Hash(tree'[f])
    <3>1. <<f, row>> \in record'
      BY <1>3, <2>2
    <3> HIDE DEF row
    <3>2. <<f, row>>[1] = f
      OBVIOUS
    <3> QED
      BY <3>1, <3>2
  <2> QED
    BY <1>4, <1>5, <2>1, <2>2 DEF Rows
<1>8. Exact'
  BY <1>6, <1>7 DEF Exact
<1> QED
  BY <1>1, <1>8 DEF RecordInv

\* A step that leaves the tree and its RECORD alone.
LEMMA ExactKept ==
  ASSUME tree' = tree, record' = record, Exact
  PROVE  Exact'
BY DEF Exact, IsCompiled

LEMMA RecordFail ==
  ASSUME Fail
  PROVE  RecordInv'
BY DEF Fail, RecordInv

LEMMA RecordChecked ==
  ASSUME TreeInv, RecordInv, Observe \/ ApplyPatch \/ CheckPatched \/ RemoveExcluded
  PROVE  RecordInv'
<1>1. CASE Observe
  <2>1. CASE Fail
    BY <2>1, RecordFail
  <2>2. CASE ~ Fail
    <3>1. pc = "observe" /\ pc' = "patch" /\ tree' = tree /\ record' = record
      BY <1>1, <2>2 DEF Observe
    <3> QED
      BY <3>1, ExactKept DEF RecordInv
  <2> QED
    BY <2>1, <2>2
<1>2. CASE ApplyPatch
  <2>1. job \in Jobs /\ n \in Nat \ {0} /\ n <= PatchCount /\ (job' = job \/ Fail)
    BY <1>2 DEF TreeInv, TypeOK, ApplyPatch, PatchCount
  <2>2. (Patched /\ job' = job) \/ Fail
    BY <2>1, JobFacts
  <2>3. pc' = "patch" \/ Fail
    BY <1>2 DEF ApplyPatch
  <2> QED
    BY <2>2, <2>3, RecordFail, JobKept DEF RecordInv
<1>3. CASE CheckPatched
  <2>1. CASE Fail
    BY <2>1, RecordFail
  <2>2. CASE ~ Fail
    <3>1. pc = "patch" /\ pc' = "exclude" /\ tree' = tree /\ record' = record /\ job' = job
      BY <1>3, <2>2 DEF CheckPatched
    <3> QED
      BY <3>1, ExactKept, JobKept DEF RecordInv
  <2> QED
    BY <2>1, <2>2
<1>4. CASE RemoveExcluded
  <2>1. CASE Fail
    BY <2>1, RecordFail
  <2>2. CASE ~ Fail
    <3>1. /\ pc = "exclude" /\ pc' = "rewrite" /\ tree' = _remove_excluded(tree) /\ record' = record
          /\ job' = job
      BY <1>4, <2>2 DEF RemoveExcluded
    <3>2. ASSUME job.exclude = {}
          PROVE  DOMAIN tree' = DOMAIN tree /\ \A f \in DOMAIN tree : tree'[f] = tree[f]
      <4>1. \A p : ~ _path_excluded(p, job.exclude)
        BY <3>2 DEF _path_excluded, SourceExcluded, Within
      <4> QED
        BY <3>1, <4>1 DEF _remove_excluded, Keep
    <3>3. ~ Patched /\ job.exclude = {} => Exact'
      BY <3>1, <3>2 DEF RecordInv, Exact, IsCompiled
    <3> QED
      BY <3>1, <3>3, JobKept DEF RecordInv
  <2> QED
    BY <2>1, <2>2
<1> QED
  BY <1>1, <1>2, <1>3, <1>4

LEMMA RecordRewritten ==
  ASSUME TreeInv, RecordInv, RewriteRecord
  PROVE  RecordInv'
<1>1. CASE Fail
  BY <1>1, RecordFail
<1>2. CASE ~ Fail
  <2>1. pc = "rewrite" /\ pc' = "compile" /\ job' = job
    BY <1>2 DEF RewriteRecord
  <2>2. CASE RecordFile \in DOMAIN tree /\ (Patched \/ job.exclude # {})
    <3>1. /\ DOMAIN tree' = DOMAIN tree /\ \A f \in DOMAIN tree' : tree'[f] = tree[f]
          /\ record' = {<<f, Hash(tree[f])>> : f \in DOMAIN tree' \ {RecordFile}}
      BY <1>2, <2>1, <2>2, NothingStale DEF RewriteRecord, Keep
    <3>2. Last(RecordFile) = "RECORD"
      BY MetadataFiles DEF RecordFile
    <3>3. \A r \in record' : r[1] \in DOMAIN tree' /\ r[2] = Hash(tree'[r[1]])
      BY <3>1
    <3>4. ASSUME NEW f \in DOMAIN tree'
          PROVE  Last(f) = "RECORD" \/ \E r \in record' : r[1] = f
      <4> DEFINE row == Hash(tree[f])
      <4>1. f # RecordFile => <<f, row>> \in record'
        BY <3>1
      <4> HIDE DEF row
      <4>2. <<f, row>>[1] = f
        OBVIOUS
      <4> QED
        BY <3>2, <4>1, <4>2
    <3> QED
      BY <2>1, <3>3, <3>4 DEF RecordInv, Exact
  <2>3. CASE ~ (RecordFile \in DOMAIN tree /\ (Patched \/ job.exclude # {}))
    <3>1. tree' = tree /\ record' = record
      BY <1>2, <2>3 DEF RewriteRecord
    <3>2. RecordFile' = RecordFile
      BY DEF RecordFile
    <3> QED
      BY <2>1, <2>3, <3>1, <3>2, ExactKept DEF RecordInv
  <2> QED
    BY <2>2, <2>3
<1> QED
  BY <1>1, <1>2

LEMMA CompiledOutside ==
  ASSUME TreeInv, Compile, NEW f \in Path, ~ InSite(f)
  PROVE  /\ f \in DOMAIN tree' <=> f \in DOMAIN tree
         /\ f \in DOMAIN tree => tree'[f] = tree[f]
<1> DEFINE sources == {q \in SiteFiles(tree) : Last(q) \in DOMAIN BytecodeOf
                                              /\ tree[Site(q)][2] \notin Broken}
           made == {Site(BytecodePath(q)) : q \in sources}
           t == [g \in DOMAIN tree \cup made |->
                   IF g \in made THEN Compiled(tree[Site(cache_source_path(Rel(g)))]) ELSE tree[g]]
<1>1. tree' = IF ~ job.compile THEN tree ELSE IF job.exclude # {} THEN _remove_excluded(t) ELSE t
  BY DEF Compile
<1>2. f \notin made
  <2>1. \A q \in SiteFiles(tree) : q \in Path
    BY SiteFilesOf DEF TreeInv, TypeOK
  <2>2. \A q \in sources : InSite(Site(BytecodePath(q)))
    BY <2>1, CachePath, SitePath
  <2> QED
    BY <2>2
<1> HIDE DEF made
<1>3. (f \in DOMAIN t <=> f \in DOMAIN tree) /\ (f \in DOMAIN tree => t[f] = tree[f])
  BY <1>2
<1> HIDE DEF t
<1> QED
  BY <1>1, <1>3 DEF _remove_excluded, Keep

LEMMA RecordCompile ==
  ASSUME TreeInv, RecordInv, TypeOK', Compile
  PROVE  RecordInv'
<1>1. /\ pc = "compile" /\ pc' = "done" /\ record' = record
      /\ DOMAIN tree \subseteq Path /\ DOMAIN tree' \subseteq Path
  BY DEF Compile, TreeInv, TypeOK
<1>2. \A f \in Path : InSite(f) => Rel(f) \in Path /\ Site(Rel(f)) = f
  BY PathInSite
<1>3. ASSUME NEW f \in DOMAIN tree
      PROVE  f \in DOMAIN tree' /\ tree'[f] = tree[f]
  <2>1. CASE ~ InSite(f)
    BY <1>1, <2>1, CompiledOutside
  <2>2. CASE ~ job.compile
    BY <2>2 DEF Compile
  <2>3. CASE InSite(f) /\ job.compile
    <3>1. Rel(f) \in Path /\ Site(Rel(f)) = f
      BY <1>1, <1>2, <2>3
    <3>2. ~ Excluded(Rel(f))
      BY <1>1, <3>1 DEF TreeInv, TreeExact
    <3>3. ~ IsCache(Rel(f))
      BY <1>1, <2>3, <3>1 DEF TreeInv, NoCache, drop_pycache
    <3>4. ~ Made(Rel(f))
      BY <3>3, MadePath
    <3>5. Site(Rel(f)) \in DOMAIN tree'
      BY <2>3, <3>1, <3>2, CompiledTree
    <3>6. tree'[Site(Rel(f))] = tree[Site(Rel(f))]
      BY <2>3, <3>1, <3>4, <3>5, CompiledTree
    <3> QED
      BY <3>1, <3>5, <3>6
  <2> QED
    BY <2>1, <2>2, <2>3
<1>4. ASSUME NEW f \in DOMAIN tree', f \notin DOMAIN tree
      PROVE  tree'[f][1] = "compiled" /\ InSite(f) /\ IsCache(Rel(f))
  <2>1. InSite(f) /\ job.compile
    BY <1>1, <1>4, CompiledOutside DEF Compile
  <2>2. Rel(f) \in Path /\ Site(Rel(f)) = f
    BY <1>1, <1>2, <2>1
  <2>3. Made(Rel(f))
    BY <1>4, <2>1, <2>2, CompiledTree
  <2>4. IsCache(Rel(f))
    BY <2>3, MadePath
  <2>5. tree'[f] = Compiled(tree[Site(cache_source_path(Rel(f)))])
    BY <2>1, <2>2, <2>3, CompiledTree
  <2> QED
    BY <2>1, <2>4, <2>5 DEF Compiled
<1>5. RecordFile \in DOMAIN tree' => RecordFile \in DOMAIN tree
  <2>1. Rel(RecordFile) = <<DistInfo, "RECORD">> /\ ~ IsBytecode(<<DistInfo, "RECORD">>)
    BY MetadataFiles, SitePath DEF RecordFile
  <2> QED
    BY <1>4, <2>1 DEF IsCache
<1>6. ASSUME RecordFile \in DOMAIN tree'
      PROVE  Exact'
  <2>1. Exact
    BY <1>1, <1>5, <1>6 DEF RecordInv
  <2>2. \A r \in record' : r[1] \in DOMAIN tree' /\ r[2] = Hash(tree'[r[1]])
    BY <1>1, <1>3, <2>1 DEF Exact
  <2>3. \A f \in DOMAIN tree' :
          tree'[f][1] = "compiled" \/ Last(f) = "RECORD" \/ \E r \in record' : r[1] = f
    BY <1>1, <1>3, <1>4, <2>1 DEF Exact, IsCompiled
  <2> QED
    BY <2>2, <2>3 DEF Exact, IsCompiled
<1> QED
  BY <1>1, <1>6 DEF RecordInv, RecordFile

LEMMA RecordNext == TreeInv /\ RecordInv /\ [Next]_vars => RecordInv'
<1> SUFFICES ASSUME TreeInv, RecordInv, [Next]_vars PROVE RecordInv'
  OBVIOUS
<1>1. TypeOK'
  BY TypeNext DEF TreeInv
<1>2. CASE UNCHANGED vars
  <2>1. /\ job' = job /\ tree' = tree /\ installed' = installed /\ seen' = seen /\ record' = record
        /\ n' = n /\ pc' = pc
    BY <1>2 DEF vars
  <2>2. /\ members' = members /\ MemberCount' = MemberCount /\ RecordMembers' = RecordMembers
        /\ Patched' = Patched /\ RecordFile' = RecordFile /\ \A p : Skipped(p)' = Skipped(p)
    BY <2>1, JobKept, RecordKept DEF RecordFile
  <2>3. Unpacking => Unpacking'
    BY <2>1, <2>2 DEF Unpacking
  <2>4. Rows => Rows'
    <3>1. \A f : Coming(f)' = Coming(f)
      BY <2>1, <2>2 DEF Coming
    <3> QED
      BY <2>1, <3>1 DEF Rows
  <2>5. Exact => Exact'
    BY <2>1, ExactKept
  <2> QED
    BY <2>1, <2>2, <2>3, <2>4, <2>5 DEF RecordInv
<1> QED
  BY <1>1, <1>2, RecordInstall, RecordEntryPoints, RecordWritten, RecordChecked, RecordRewritten,
     RecordCompile DEF Next, Terminating

\* The RECORD an install leaves tells the truth of every file, whichever rows
\* of the wheel's own were reused (unpack.py:356-382).
THEOREM RecordTrueCorrect == Spec => []RecordTrue
<1>1. Init => TreeInv /\ RecordInv
  BY TreeInit, RecordInit
<1>2. TreeInv /\ RecordInv /\ [Next]_vars => TreeInv' /\ RecordInv'
  BY TreeNext, RecordNext
<1>3. RecordInv => RecordTrue
  BY DEF RecordInv, Exact, RecordTrue
<1> QED
  BY <1>1, <1>2, <1>3, PTL DEF Spec

-----------------------------------------------------------------------------
(* Jobs that preserve what they are told to preserve.                      *)

LEMMA FirstExists ==
  ASSUME NEW S \in SUBSET Nat, S # {}
  PROVE  \E w \in S : \A v \in S : w <= v
<1>1. PICK w \in S : \A v \in S : ~ (<<v, w>> \in OpToRel(<, Nat))
  BY WFMin, NatLessThanWellFounded, Zenon
<1>2. \A v \in S : ~ (v < w)
  BY <1>1 DEF OpToRel
<1>3. \A v \in S : v \in Nat /\ w \in Nat /\ (~ (v < w) => w <= v)
  OBVIOUS
<1> QED
  BY <1>2, <1>3

\* A path cut off below its segment k.
LEMMA CutPath ==
  ASSUME NEW p \in Path, NEW k \in 1 .. Len(p)
  PROVE  /\ SubSeq(p, 1, k) \in Path /\ Len(SubSeq(p, 1, k)) = k
         /\ \A i \in 1 .. k : SubSeq(p, 1, k)[i] = p[i]
         /\ IsPrefix(SubSeq(p, 1, k), p)
         /\ k < Len(p) => IsStrictPrefix(SubSeq(p, 1, k), p)
         /\ k = Len(p) => SubSeq(p, 1, k) = p
<1> DEFINE s == SubSeq(p, 1, k)
<1>1. p \in Seq(STRING) /\ Len(p) \in Nat /\ k \in Nat /\ k >= 1 /\ k <= Len(p)
  BY PathShape
<1>2. /\ s \in Seq(STRING) /\ Len(s) = k
      /\ \A i \in 1 .. k : s[i] = p[i]
  <2>1. \A i \in 1 .. k : p[i] \in STRING
    BY <1>1, ElementOfSeq
  <2>2. /\ s \in Seq(STRING) /\ Len(s) = IF 1 <= k THEN k - 1 + 1 ELSE 0
        /\ \A i \in 1 .. k - 1 + 1 : s[i] = p[1 + i - 1]
    BY <1>1, <2>1, SubSeqProperties
  <2>3. \A i \in 1 .. k : i \in 1 .. k - 1 + 1 /\ 1 + i - 1 = i
    BY <1>1
  <2>4. (IF 1 <= k THEN k - 1 + 1 ELSE 0) = k
    BY <1>1
  <2> HIDE DEF s
  <2> QED
    BY <2>2, <2>3, <2>4
<1>3. s \in Path
  BY <1>1, <1>2, EmptySeq DEF Path
<1>4. IsPrefix(s, p)
  <2>1. SubSeq(s, 1, Len(s)) = s
    BY <1>2, SubSeqFull
  <2> QED
    BY <1>1, <1>2, <2>1 DEF IsPrefix
<1>5. k = Len(p) => s = p
  BY <1>1, SubSeqFull
<1> HIDE DEF s
<1> QED
  BY <1>1, <1>2, <1>3, <1>4, <1>5 DEF s, IsStrictPrefix

Cut(p, files) == \E f \in files : \E k \in 1 .. Len(f) : p = SubSeq(f, 1, k)

LEMMA LayoutCuts ==
  ASSUME NEW files \in SUBSET Path, NEW data,
         NEW p \in WheelRecord(files, data).top_levels
                     \cup WheelRecord(files, data).namespace_entries
                     \cup WheelRecord(files, data).namespace_dirs
                     \cup WheelRecord(files, data).regular_roots
  PROVE  Cut(p, files)
<1>1. \A f \in files : Len(f) \in Nat /\ Len(f) >= 1
  BY PathShape
<1>2. \A d \in Dirs(files) : Cut(d, files)
  <2>1. \A f \in files : \A k \in 1 .. Len(f) - 1 : k \in 1 .. Len(f)
    BY <1>1
  <2> QED
    BY <2>1 DEF Dirs, Ancestors, Cut
<1>3. CASE p \in TopLevels(files)
  <2>1. PICK f \in files : p = SubSeq(f, 1, 1)
    BY <1>3 DEF TopLevels
  <2>2. 1 \in 1 .. Len(f)
    BY <1>1
  <2> QED
    BY <2>1, <2>2 DEF Cut
<1>4. CASE p \in Roots(files).namespace \cup Roots(files).regular
  BY <1>2, <1>4 DEF Roots
<1>5. CASE p \in NamespaceEntries(files)
  <2> DEFINE Depths(f) == {i \in 2 .. Len(f) : i = Len(f) \/ SubSeq(f, 1, i) \in InitDirs(files)}
             depth(f) == CHOOSE i \in Depths(f) : \A j \in Depths(f) : i <= j
  <2>1. PICK f \in files : Len(f) >= 2 /\ p = SubSeq(f, 1, depth(f))
    BY <1>5 DEF NamespaceEntries
  <2>2. Depths(f) \in SUBSET Nat /\ Len(f) \in Depths(f)
    BY <1>1, <2>1
  <2> HIDE DEF Depths
  <2>3. \E w \in Depths(f) : \A v \in Depths(f) : w <= v
    BY <2>2, FirstExists
  <2>4. depth(f) \in Depths(f)
    BY <2>3
  <2> HIDE DEF depth
  <2>5. depth(f) \in 1 .. Len(f)
    BY <1>1, <2>4 DEF Depths
  <2> QED
    BY <2>1, <2>5 DEF Cut
<1> QED
  BY <1>3, <1>4, <1>5 DEF WheelRecord

LEMMA SitePathsAre ==
  ASSUME job \in Jobs
  PROVE  SitePaths = {p \in Path : Ships(p, MemberCount)}
<1> DEFINE all == {Dest(m) : m \in Members}
<1>1. \A f \in all : f \in Path
  BY JobFacts, MemberPath
<1>2. \A f : f \in all <=> \E i \in 1 .. MemberCount : Dest(members[i]) = f
  BY JobFacts
<1> HIDE DEF all
<1>3. \A p \in Path : InSite(Site(p)) /\ Rel(Site(p)) = p
  BY SitePath
<1>4. \A f \in all : InSite(f) => Rel(f) \in Path /\ Site(Rel(f)) = f
  BY <1>1, PathInSite
<1>5. {Rel(f) : f \in {g \in all : InSite(g)}} = {p \in Path : Site(p) \in all}
  BY <1>3, <1>4
<1> QED
  BY <1>2, <1>5 DEF SitePaths, Ships, all

Preserves == Preserving /\ \A p \in SitePaths : ~ IsCache(p)
\* The patches neither add files nor remove them.
Steady == Preserves \/ ~ Patched

LEMMA PreservesKept ==
  ASSUME job' = job
  PROVE  /\ Preserves' = Preserves /\ Steady' = Steady /\ Patched' = Patched
         /\ SitePaths' = SitePaths /\ DataFiles' = DataFiles
<1>1. Members' = Members
  BY JobKept
<1>2. SitePaths' = SitePaths /\ DataFiles' = DataFiles
  BY <1>1 DEF SitePaths, DataFiles
<1>3. Preserving' = Preserving
  BY <1>1, <1>2 DEF Preserving
<1>4. Patched' = Patched
  BY JobKept
<1> QED
  BY <1>2, <1>3, <1>4 DEF Preserves, Steady

Prefixed(f) == f[1] \notin _AMBIGUOUS_PREFIX_ROOTS
PreserveInv ==
  /\ Preserves => pc # "failed"
  /\ roots \subseteq _import_roots(SitePaths)
  /\ Steady /\ pc \notin {"done", "failed"} => \A f \in DOMAIN tree : Prefixed(f) => f \in DataFiles
  /\ pc = "install" =>
       \A i \in 1 .. n - 1 : ~ InSite(Dest(members[i])) => Dest(members[i]) \in DOMAIN tree
  /\ Steady /\ pc \in {"record", "observe", "patch"} =>
       \A i \in 1 .. MemberCount : ~ InSite(Dest(members[i])) => Dest(members[i]) \in DOMAIN tree
  /\ Preserves /\ pc = "patch" => \A p \in DOMAIN observed : observed[p] = Shape(tree, p)

\* What such a job unpacks into site-packages stays there, but for what the
\* globs match.
LEMMA Stays ==
  ASSUME TreeInv, Preserves, NEW p \in SitePaths
  PROVE  /\ p \in Path
         /\ Patched /\ pc \in {"record", "observe", "patch", "exclude"} => Site(p) \in DOMAIN tree
         /\ ~ Excluded(p) /\ pc \in {"record", "observe", "patch", "exclude", "rewrite", "compile"} =>
              Site(p) \in DOMAIN tree
<1>1. job \in Jobs /\ n \in Nat /\ (pc = "patch" => n - 1 <= PatchCount) /\ PatchCount \in Nat
  BY JobFacts DEF TreeInv, TypeOK
<1>2. p \in Path /\ Ships(p, MemberCount) /\ ~ IsCache(p)
  BY <1>1, SitePathsAre DEF Preserves
<1>3. Patched \/ ~ Excluded(p) => ~ Skipped(p) /\ Unpacked(p)
  BY <1>2 DEF Skipped, Excluded, Unpacked
<1>4. \A k : k <= PatchCount /\ k \in Int => ~ Away(p, k)
  <2>1. \A k \in Int : k <= PatchCount => \A i \in 1 .. k : i \in DOMAIN job.patches
    BY <1>1, JobFacts
  <2>2. \A i \in DOMAIN job.patches : \A f \in DOMAIN job.patches[i] : job.patches[i][f][1] # "remove"
    BY DEF Preserves, Preserving
  <2> QED
    BY <2>1, <2>2 DEF Away
<1>5. /\ pc = "patch" => ~ Away(p, n - 1)
      /\ ~ Away(p, PatchCount)
  BY <1>1, <1>4
<1> QED
  BY <1>2, <1>3, <1>5 DEF TreeInv, TreeExact, After

LEMMA SameFilesSameShape ==
  ASSUME NEW t, NEW u, DOMAIN t = DOMAIN u
  PROVE  \A p : Shape(t, p) = Shape(u, p)
<1>1. SiteFiles(t) = SiteFiles(u)
  BY DEF SiteFiles
<1> QED
  BY <1>1 DEF Shape, IsDir, _retained_init, _native_descendants

LEMMA RootsGrow ==
  ASSUME NEW A, NEW B, A \subseteq B
  PROVE  _import_roots(A) \subseteq _import_roots(B)
BY DEF _import_roots

LEMMA PreserveInstall ==
  ASSUME TreeInv, PreserveInv, TypeOK', Install
  PROVE  PreserveInv'
<1> DEFINE m == members[n]
           f == Dest(m)
           skip == InSite(f) /\ Skipped(Rel(f))
<1>1. /\ pc = "install" /\ pc' = "install" /\ n \in 1 .. MemberCount /\ n' = n + 1 /\ job' = job
      /\ job \in Jobs /\ m \in Member /\ m \in Members /\ MemberCount \in Nat
  BY JobFacts DEF TreeInv, TypeOK, Install, MemberCount, members
<1>2. /\ skip => tree' = tree
      /\ ~ skip => tree' = Put(tree, f, Content(m))
      /\ roots' = IF InSite(f) THEN roots \cup _import_roots({Rel(f)}) ELSE roots
  BY DEF Install, members
<1>3. DOMAIN tree' = IF skip THEN DOMAIN tree ELSE DOMAIN tree \cup {f}
  BY <1>2 DEF Put
<1>4. roots' \subseteq _import_roots(SitePaths)
  <2>1. InSite(f) => {Rel(f)} \subseteq SitePaths
    BY <1>1 DEF SitePaths
  <2> QED
    BY <1>2, <2>1, RootsGrow DEF PreserveInv
<1>5. Prefixed(f) => f \in DataFiles
  <2>1. Prefixed(f) => m.at = "data" /\ f = m.rel
    BY <1>1, MemberPath DEF Prefixed
  <2> QED
    BY <1>1, <2>1 DEF DataFiles
<1>6. \A i \in 1 .. n' - 1 : ~ InSite(Dest(members[i])) => Dest(members[i]) \in DOMAIN tree'
  <2>1. \A i \in 1 .. n' - 1 : i \in 1 .. n - 1 \/ i = n
    BY <1>1
  <2> QED
    BY <1>1, <1>3, <2>1 DEF PreserveInv
<1> HIDE DEF f
<1>7. Steady => \A g \in DOMAIN tree' : Prefixed(g) => g \in DataFiles
  BY <1>1, <1>3, <1>5 DEF PreserveInv
<1> QED
  BY <1>1, <1>4, <1>6, <1>7, JobKept, PreservesKept DEF PreserveInv, Prefixed

\* The first stages after the members, and the last, remove nothing.
LEMMA PreserveWrite ==
  ASSUME TreeInv, PreserveInv, TypeOK', EntryPoints \/ WriteRecord
  PROVE  PreserveInv'
<1>1. job' = job /\ roots' = roots /\ job \in Jobs /\ MemberCount' = MemberCount
      /\ members' = members
  BY JobKept DEF EntryPoints, WriteRecord, TreeInv, TypeOK
<1>2. CASE EntryPoints
  <2>1. /\ pc = "install" /\ pc' = "record" /\ n > MemberCount /\ n \in Nat /\ MemberCount \in Nat
    BY <1>1, <1>2, JobFacts DEF EntryPoints, MemberCount, members, TreeInv, TypeOK
  <2>2. PICK scripts \in SUBSET {<<"bin", s>> : s \in job.wheel.scripts} :
          DOMAIN tree' = DOMAIN tree \cup scripts
    BY <1>2 DEF EntryPoints
  <2>3. \A f \in scripts : ~ Prefixed(f)
    <3>1. \A f \in scripts : f[1] = "bin"
      BY <1>1, <2>2, JobFacts, Programs
    <3> QED
      BY <3>1 DEF Prefixed, _AMBIGUOUS_PREFIX_ROOTS
  <2>4. \A i \in 1 .. MemberCount : i \in 1 .. n - 1
    BY <2>1
  <2>5. \A i \in 1 .. MemberCount : ~ InSite(Dest(members[i])) => Dest(members[i]) \in DOMAIN tree'
    BY <2>1, <2>2, <2>4 DEF PreserveInv
  <2>6. Steady => \A f \in DOMAIN tree' : Prefixed(f) => f \in DataFiles
    BY <2>1, <2>2, <2>3 DEF PreserveInv
  <2> QED
    BY <1>1, <2>1, <2>5, <2>6, PreservesKept DEF PreserveInv, Prefixed
<1>3. CASE WriteRecord
  <2>1. pc = "record" /\ pc' = "observe"
    BY <1>3 DEF WriteRecord
  <2>2. /\ DOMAIN tree \subseteq DOMAIN tree'
        /\ \A f \in DOMAIN tree' : f \in DOMAIN tree \/ f \in {InstallerFile, RequestedFile}
    BY <1>3 DEF WriteRecord, Put
  <2>3. ~ Prefixed(InstallerFile) /\ ~ Prefixed(RequestedFile)
    <3>1. InstallerFile[1] = "lib" /\ RequestedFile[1] = "lib"
      BY MetadataFiles, SitePath DEF InstallerFile, RequestedFile
    <3> QED
      BY <3>1 DEF Prefixed, _AMBIGUOUS_PREFIX_ROOTS
  <2>4. Steady => \A f \in DOMAIN tree' : Prefixed(f) => f \in DataFiles
    BY <2>1, <2>2, <2>3 DEF PreserveInv
  <2>5. Steady => \A i \in 1 .. MemberCount :
          ~ InSite(Dest(members[i])) => Dest(members[i]) \in DOMAIN tree'
    BY <2>1, <2>2 DEF PreserveInv
  <2> QED
    BY <1>1, <2>1, <2>4, <2>5, PreservesKept DEF PreserveInv, Prefixed
<1> QED
  BY <1>2, <1>3

LEMMA PreserveObserve ==
  ASSUME TreeInv, PreserveInv, TypeOK', Observe
  PROVE  PreserveInv'
<1>1. pc = "observe" /\ job' = job /\ job \in Jobs /\ tree' = tree /\ roots' = roots
  BY DEF Observe, Fail, TreeInv, TypeOK
<1> DEFINE paths == IF Patched THEN preserve_paths ELSE {}
<1>2. ASSUME Preserves, NEW p \in paths
      PROVE  Shape(tree, p) # <<"none">>
  <2> DEFINE files == {q \in RecordPaths : ~ _path_excluded(q, job.exclude)}
  <2>1. Patched /\ p \in preserve_paths
    BY <1>2
  <2>2. \A q \in RecordPaths : q \in Path /\ q \in SitePaths
    <3>1. ASSUME NEW m \in Members, m.at \in {"root", "purelib"}
          PROVE  m.rel \in Path /\ m.rel \in SitePaths
      <4>1. m \in Member /\ m.rel \in Path
        BY <1>1, JobFacts DEF Member
      <4>2. Dest(m) = Site(m.rel) /\ InSite(Dest(m)) /\ Rel(Dest(m)) = m.rel
        BY <3>1, <4>1, MemberPath, SitePath
      <4> QED
        BY <4>1, <4>2 DEF SitePaths
    <3> QED
      BY <3>1 DEF RecordPaths, PathsOf, Members
  <2>3. files \in SUBSET Path
    BY <2>2
  <2>4. p \in Layout.top_levels \cup Layout.namespace_entries \cup Layout.namespace_dirs
               \cup Layout.regular_roots
    BY <2>1 DEF preserve_paths
  <2>5. Layout = WheelRecord(files, DataFiles)
    BY DEF Layout
  <2> HIDE DEF files
  <2>6. Cut(p, files)
    BY <2>3, <2>4, <2>5, LayoutCuts
  <2>7. PICK q \in RecordPaths : \E k \in 1 .. Len(q) : p = SubSeq(q, 1, k)
    BY <2>6 DEF Cut, files
  <2>8. q \in Path /\ Site(q) \in DOMAIN tree
    BY <1>1, <1>2, <2>1, <2>2, Stays
  <2>9. q \in SiteFiles(tree)
    BY <2>8, SiteFilesOf DEF TreeInv, TypeOK
  <2>10. p = q \/ IsStrictPrefix(p, q)
    BY <2>7, <2>8, PathShape, CutPath
  <2> QED
    BY <2>9, <2>10 DEF Shape, IsDir
<1>3. Preserves => ~ \E p \in paths : Shape(tree, p) = <<"none">>
  BY <1>2
<1>4. CASE \E p \in paths : Shape(tree, p) = <<"none">>
  <2>1. ~ Preserves /\ pc' = "failed"
    BY <1>3, <1>4 DEF Observe, Fail
  <2> QED
    BY <1>1, <2>1, PreservesKept DEF PreserveInv
<1>5. CASE ~ \E p \in paths : Shape(tree, p) = <<"none">>
  <2>1. pc' = "patch" /\ observed' = [p \in paths |-> Shape(tree, p)]
    BY <1>5 DEF Observe
  <2>2. \A p : Shape(tree, p) = Shape(tree', p)
    BY <1>1
  <2>3. \A p \in DOMAIN observed' : observed'[p] = Shape(tree, p)'
    <3>1. \A p : Shape(tree, p)' = Shape(tree, p)
      BY <1>1 DEF Shape, IsDir, _retained_init, _native_descendants, SiteFiles
    <3> QED
      BY <2>1, <3>1
  <2>4. MemberCount' = MemberCount /\ members' = members
    BY <1>1, JobKept
  <2> QED
    BY <1>1, <2>1, <2>3, <2>4, PreservesKept DEF PreserveInv, Prefixed
<1> QED
  BY <1>4, <1>5

LEMMA PreservePatch ==
  ASSUME TreeInv, PreserveInv, TypeOK', ApplyPatch
  PROVE  PreserveInv'
<1> DEFINE patch == job.patches[n]
<1>1. /\ pc = "patch" /\ job' = job /\ job \in Jobs /\ roots' = roots /\ observed' = observed
      /\ n \in 1 .. PatchCount /\ Patched
  <2>1. /\ pc = "patch" /\ job' = job /\ job \in Jobs /\ roots' = roots /\ observed' = observed
        /\ n \in Nat \ {0} /\ n <= PatchCount
    BY DEF ApplyPatch, Fail, TreeInv, TypeOK, PatchCount
  <2> QED
    BY <2>1, JobFacts
<1>2. ASSUME Preserves
      PROVE  DOMAIN patch \subseteq DOMAIN tree /\ \A f \in DOMAIN patch : patch[f][1] = "edit"
  <2>1. n \in DOMAIN job.patches
    BY <1>1, JobFacts
  <2>2. ASSUME NEW f \in DOMAIN patch
        PROVE  f \in DOMAIN tree /\ patch[f][1] = "edit"
    <3>1. patch[f][1] = "edit" /\ f \in {Dest(m) : m \in Members}
      BY <1>2, <2>1 DEF Preserves, Preserving
    <3>2. PICK i \in 1 .. MemberCount : f = Dest(members[i])
      BY <1>1, <3>1, JobFacts
    <3>3. CASE InSite(f)
      <4>1. f \in Path
        BY <1>1, <3>2, JobFacts, MemberPath
      <4>2. Rel(f) \in SitePaths /\ Site(Rel(f)) = f
        BY <3>1, <3>3, <4>1, PathInSite DEF SitePaths
      <4> QED
        BY <1>1, <1>2, <3>1, <4>2, Stays
    <3>4. CASE ~ InSite(f)
      BY <1>1, <1>2, <3>1, <3>2, <3>4 DEF PreserveInv, Steady
    <3> QED
      BY <3>3, <3>4
  <2> QED
    BY <2>2
<1>3. Preserves => Fits(patch)
  BY <1>2 DEF Fits
<1>4. CASE ~ Fits(patch)
  <2>1. ~ Preserves /\ pc' = "failed"
    BY <1>3, <1>4 DEF ApplyPatch, Fail
  <2> QED
    BY <1>1, <2>1, PreservesKept DEF PreserveInv
<1>5. CASE Fits(patch)
  <2>1. pc' = "patch" /\ DOMAIN tree' = PatchedFiles(patch)
    BY <1>5 DEF ApplyPatch
  <2>2. Preserves => DOMAIN tree' = DOMAIN tree
    BY <1>2, <2>1 DEF PatchedFiles
  <2>3. MemberCount' = MemberCount /\ members' = members
    BY <1>1, JobKept
  <2>4. \A p : Shape(tree, p)' = Shape(tree', p)
    BY <1>1 DEF Shape, IsDir, _retained_init, _native_descendants, SiteFiles
  <2>5. Preserves => \A p : Shape(tree', p) = Shape(tree, p)
    BY <2>2, SameFilesSameShape
  <2>6. Preserves => \A p \in DOMAIN observed' : observed'[p] = Shape(tree, p)'
    BY <1>1, <2>4, <2>5 DEF PreserveInv
  <2> QED
    BY <1>1, <2>1, <2>2, <2>3, <2>6, PreservesKept DEF PreserveInv, Prefixed, Steady
<1> QED
  BY <1>4, <1>5

\* The data files of the wheel are those below the prefix, unless a patch added
\* or removed one.
LEMMA DataThere ==
  ASSUME TreeInv, PreserveInv, pc = "patch", Steady
  PROVE  _prefix_data_files(DOMAIN tree) = Expected
<1>1. job \in Jobs
  BY DEF TreeInv, TypeOK
<1>2. ASSUME NEW f \in DataFiles, Prefixed(f)
      PROVE  f \in DOMAIN tree
  <2>1. PICK m \in Members : m.at = "data" /\ f = m.rel
    BY DEF DataFiles
  <2>2. PICK i \in 1 .. MemberCount : m = members[i]
    BY <1>1, JobFacts
  <2>3. Dest(m) = f /\ f \in Path
    BY <1>1, <2>1, JobFacts, MemberPath
  <2>4. ~ InSite(f)
    <3>1. InSite(f) => f[1] = "lib"
      BY <2>3, PathInSite, SitePath
    <3> QED
      BY <1>2, <3>1 DEF Prefixed, _AMBIGUOUS_PREFIX_ROOTS
  <2> QED
    BY <2>2, <2>3, <2>4 DEF PreserveInv
<1>3. \A f \in DOMAIN tree : Prefixed(f) => f \in DataFiles
  BY DEF PreserveInv
<1> QED
  BY <1>2, <1>3 DEF _prefix_data_files, Expected, Prefixed

LEMMA PreserveCheck ==
  ASSUME TreeInv, PreserveInv, TypeOK', CheckPatched
  PROVE  PreserveInv'
<1>1. pc = "patch" /\ job' = job /\ job \in Jobs /\ tree' = tree /\ roots' = roots
  BY DEF CheckPatched, Fail, TreeInv, TypeOK
<1>2. ASSUME Preserves
      PROVE  /\ \A p \in DOMAIN observed : Shape(tree, p) = observed[p]
             /\ _prefix_data_files(DOMAIN tree) = Expected
  BY <1>1, <1>2, DataThere DEF PreserveInv, Steady
<1>3. pc' = "exclude" \/ (pc' = "failed" /\ ~ Preserves)
  BY <1>2 DEF CheckPatched, Fail
<1> QED
  BY <1>1, <1>3, PreservesKept DEF PreserveInv, Prefixed

LEMMA PreserveRemove ==
  ASSUME TreeInv, PreserveInv, TypeOK', RemoveExcluded
  PROVE  PreserveInv'
<1> DEFINE t == _remove_excluded(tree)
<1>1. /\ pc = "exclude" /\ job' = job /\ job \in Jobs /\ roots' = roots /\ DOMAIN tree' \subseteq DOMAIN tree
      /\ DOMAIN t \subseteq Path
  BY DEF RemoveExcluded, Fail, _remove_excluded, Keep, TreeInv, TypeOK
<1>2. ASSUME Preserves
      PROVE  roots \subseteq _import_roots(SiteFiles(t))
  <2> DEFINE left == {p \in SitePaths : ~ _path_excluded(p, job.exclude)}
  <2>1. ASSUME NEW p \in left
        PROVE  p \in SiteFiles(t)
    <3>1. p \in Path /\ Site(p) \in DOMAIN tree
      BY <1>1, <1>2, Stays DEF Excluded
    <3>2. InSite(Site(p)) /\ Rel(Site(p)) = p
      BY <3>1, SitePath
    <3>3. Site(p) \in DOMAIN t
      BY <3>1, <3>2 DEF _remove_excluded, Keep
    <3> HIDE DEF t
    <3> QED
      BY <1>1, <3>1, <3>3, SiteFilesOf
  <2>2. _import_roots(SitePaths) = _import_roots(left)
    BY <1>2 DEF Preserves, Preserving
  <2> HIDE DEF left, t
  <2>3. _import_roots(left) \subseteq _import_roots(SiteFiles(t))
    BY <2>1, RootsGrow
  <2> QED
    BY <2>2, <2>3 DEF PreserveInv
<1>3. pc' = "rewrite" \/ (pc' = "failed" /\ ~ Preserves)
  BY <1>2 DEF RemoveExcluded, Fail
<1> QED
  BY <1>1, <1>3, PreservesKept DEF PreserveInv, Prefixed

LEMMA PreserveRewrite ==
  ASSUME TreeInv, PreserveInv, TypeOK', RewriteRecord
  PROVE  PreserveInv'
<1>1. pc = "rewrite" /\ job' = job /\ job \in Jobs /\ roots' = roots /\ DOMAIN tree' \subseteq DOMAIN tree
  BY DEF RewriteRecord, Fail, Keep, TreeInv, TypeOK
<1>2. ASSUME Preserves
      PROVE  RecordFile \in DOMAIN tree /\ Site(<<DistInfo, "METADATA">>) \in DOMAIN tree
  <2>1. \A p \in {<<DistInfo, "RECORD">>, <<DistInfo, "METADATA">>} :
          p \in SitePaths /\ ~ Excluded(p)
    BY <1>2 DEF Preserves, Preserving, Excluded
  <2> QED
    BY <1>1, <1>2, <2>1, Stays DEF RecordFile
<1>3. pc' = "compile" \/ (pc' = "failed" /\ ~ Preserves)
  BY <1>2 DEF RewriteRecord, Fail
<1> QED
  BY <1>1, <1>3, PreservesKept DEF PreserveInv, Prefixed

LEMMA PreserveInit == Init => PreserveInv
<1> SUFFICES ASSUME Init PROVE PreserveInv
  OBVIOUS
<1>1. pc = "install" /\ n = 1 /\ DOMAIN tree = {} /\ roots = {}
  BY DEF Init, Empty
<1> QED
  BY <1>1 DEF PreserveInv

LEMMA PreserveNext == TreeInv /\ PreserveInv /\ [Next]_vars => PreserveInv'
<1> SUFFICES ASSUME TreeInv, PreserveInv, [Next]_vars PROVE PreserveInv'
  OBVIOUS
<1>1. TypeOK'
  BY TypeNext DEF TreeInv
<1>2. CASE Compile
  BY <1>2, PreservesKept DEF Compile, PreserveInv
<1>3. CASE UNCHANGED vars
  <2>1. /\ job' = job /\ tree' = tree /\ roots' = roots /\ observed' = observed /\ n' = n /\ pc' = pc
    BY <1>3 DEF vars
  <2>2. members' = members /\ MemberCount' = MemberCount
    BY <2>1, JobKept
  <2>3. \A p : Shape(tree, p)' = Shape(tree, p)
    BY <2>1 DEF Shape, IsDir, _retained_init, _native_descendants, SiteFiles
  <2> QED
    BY <2>1, <2>2, <2>3, PreservesKept DEF PreserveInv, Prefixed
<1> QED
  BY <1>1, <1>2, <1>3, PreserveInstall, PreserveWrite, PreserveObserve, PreservePatch, PreserveCheck,
     PreserveRemove, PreserveRewrite DEF Next, Terminating

\* docs/uv-patching.md:216 asks of globs and patches to preserve what analysis
\* used: then none of the checks that follow (unpack.py:531-659) refuses the
\* job, unless the wheel ships bytecode caches.
THEOREM PreservingJobsInstallCorrect == Spec => []PreservingJobsInstall
<1>1. Init => TreeInv /\ PreserveInv
  BY TreeInit, PreserveInit
<1>2. TreeInv /\ PreserveInv /\ [Next]_vars => TreeInv' /\ PreserveInv'
  BY TreeNext, PreserveNext
<1>3. PreserveInv => PreservingJobsInstall
  BY DEF PreserveInv, Preserves, PreservingJobsInstall
<1> QED
  BY <1>1, <1>2, <1>3, PTL DEF Spec

-----------------------------------------------------------------------------
(* The order of paths: what lies below what.                               *)

LEMMA SamePath ==
  ASSUME NEW p \in Path, NEW q \in Path, Len(p) = Len(q), \A i \in 1 .. Len(p) : p[i] = q[i]
  PROVE  p = q
<1>1. p \in Seq(STRING) /\ q \in Seq(STRING)
  BY PathShape
<1> QED
  BY <1>1, SeqEqual

LEMMA Strict ==
  ASSUME NEW p \in Path, NEW q \in Path
  PROVE  IsStrictPrefix(p, q) <=> Len(p) < Len(q) /\ \A i \in 1 .. Len(p) : p[i] = q[i]
<1>1. Len(p) \in Nat /\ Len(q) \in Nat /\ Len(p) >= 1 /\ Len(q) >= 1
  BY PathShape
<1>2. SubSeq(p, 1, Len(p)) = p /\ SubSeq(q, 1, Len(q)) = q
  <2>1. Len(p) \in 1 .. Len(p) /\ Len(q) \in 1 .. Len(q)
    BY <1>1
  <2> QED
    BY <2>1, CutPath
<1>3. ASSUME IsStrictPrefix(p, q)
      PROVE  Len(p) < Len(q) /\ \A i \in 1 .. Len(p) : p[i] = q[i]
  <2>1. Len(p) <= Len(q) /\ p = SubSeq(q, 1, Len(p)) /\ p # q
    BY <1>2, <1>3 DEF IsStrictPrefix, IsPrefix
  <2>2. Len(p) # Len(q)
    BY <1>2, <2>1
  <2>3. Len(p) \in 1 .. Len(q)
    BY <1>1, <2>1
  <2>4. \A i \in 1 .. Len(p) : SubSeq(q, 1, Len(p))[i] = q[i]
    BY <2>3, CutPath
  <2> QED
    BY <1>1, <2>1, <2>2, <2>4
<1>4. ASSUME Len(p) < Len(q), \A i \in 1 .. Len(p) : p[i] = q[i]
      PROVE  IsStrictPrefix(p, q)
  <2>1. Len(p) \in 1 .. Len(q)
    BY <1>1, <1>4
  <2> DEFINE s == SubSeq(q, 1, Len(p))
  <2>2. /\ s \in Path /\ Len(s) = Len(p) /\ IsStrictPrefix(s, q)
        /\ \A i \in 1 .. Len(p) : s[i] = q[i]
    BY <1>4, <2>1, CutPath
  <2> HIDE DEF s
  <2>3. p = s
    BY <1>4, <2>2, SamePath
  <2> QED
    BY <2>2, <2>3
<1> QED
  BY <1>3, <1>4

\* Nothing is below itself, what is below something below is below, and of two
\* paths above a third one is above the other.
LEMMA BelowBelow ==
  ASSUME NEW a \in Path, NEW b \in Path, NEW c \in Path
  PROVE  /\ ~ IsStrictPrefix(a, a)
         /\ IsStrictPrefix(a, b) /\ IsStrictPrefix(b, c) => IsStrictPrefix(a, c)
         /\ IsStrictPrefix(a, c) /\ IsStrictPrefix(b, c) =>
              a = b \/ IsStrictPrefix(a, b) \/ IsStrictPrefix(b, a)
<1>1. Len(a) \in Nat /\ Len(b) \in Nat /\ Len(c) \in Nat
  BY PathShape
<1>2. ~ IsStrictPrefix(a, a)
  BY <1>1, Strict
<1>3. ASSUME IsStrictPrefix(a, b), IsStrictPrefix(b, c)
      PROVE  IsStrictPrefix(a, c)
  <2>1. /\ Len(a) < Len(b) /\ \A i \in 1 .. Len(a) : a[i] = b[i]
        /\ Len(b) < Len(c) /\ \A i \in 1 .. Len(b) : b[i] = c[i]
    BY <1>3, Strict
  <2>2. Len(a) < Len(c) /\ \A i \in 1 .. Len(a) : i \in 1 .. Len(b)
    BY <1>1, <2>1
  <2> QED
    BY <2>1, <2>2, Strict
<1>4. ASSUME IsStrictPrefix(a, c), IsStrictPrefix(b, c)
      PROVE  a = b \/ IsStrictPrefix(a, b) \/ IsStrictPrefix(b, a)
  <2>1. /\ \A i \in 1 .. Len(a) : a[i] = c[i]
        /\ \A i \in 1 .. Len(b) : b[i] = c[i]
    BY <1>4, Strict
  <2>2. CASE Len(a) < Len(b)
    <3>1. \A i \in 1 .. Len(a) : i \in 1 .. Len(b)
      BY <1>1, <2>2
    <3> QED
      BY <2>1, <2>2, <3>1, Strict
  <2>3. CASE Len(b) < Len(a)
    <3>1. \A i \in 1 .. Len(b) : i \in 1 .. Len(a)
      BY <1>1, <2>3
    <3> QED
      BY <2>1, <2>3, <3>1, Strict
  <2>4. CASE Len(a) = Len(b)
    BY <2>1, <2>4, SamePath
  <2> QED
    BY <1>1, <2>2, <2>3, <2>4
<1> QED
  BY <1>2, <1>3, <1>4

\* The first segment of a path, and the __init__.py of a directory.
Top(p) == SubSeq(p, 1, 1)
InitFile(d) == Append(d, InitPy)

LEMMA Tops ==
  ASSUME NEW p \in Path
  PROVE  /\ Top(p) \in Path /\ Len(Top(p)) = 1 /\ Top(p)[1] = p[1]
         /\ Len(p) = 1 => Top(p) = p
         /\ Len(p) >= 2 => IsStrictPrefix(Top(p), p)
         /\ \A q \in Path : IsStrictPrefix(q, p) => Top(q) = Top(p) /\ Len(p) >= 2 /\ q[1] = p[1]
<1>1. Len(p) \in Nat /\ Len(p) >= 1 /\ 1 \in 1 .. Len(p) /\ 1 \in 1 .. 1
  BY PathShape
<1>2. /\ Top(p) \in Path /\ Len(Top(p)) = 1 /\ Top(p)[1] = p[1]
      /\ (1 = Len(p) => Top(p) = p) /\ (1 < Len(p) => IsStrictPrefix(Top(p), p))
  BY <1>1, CutPath DEF Top
<1>3. ASSUME NEW q \in Path, IsStrictPrefix(q, p)
      PROVE  Top(q) = Top(p) /\ Len(p) >= 2 /\ q[1] = p[1]
  <2>1. Len(q) \in Nat /\ Len(q) >= 1 /\ 1 \in 1 .. Len(q)
    BY PathShape
  <2>2. Len(q) < Len(p) /\ q[1] = p[1]
    BY <1>3, <2>1, Strict
  <2>3. Top(q) \in Path /\ Len(Top(q)) = 1 /\ Top(q)[1] = q[1]
    BY <2>1, CutPath DEF Top
  <2>4. \A i \in 1 .. 1 : Top(q)[i] = Top(p)[i]
    BY <1>2, <2>2, <2>3
  <2>5. Top(q) = Top(p)
    BY <1>2, <2>3, <2>4, SamePath
  <2> QED
    BY <1>1, <2>1, <2>2, <2>5
<1> QED
  BY <1>1, <1>2, <1>3

LEMMA Appended ==
  \A S : \A s \in Seq(S), x \in S :
    /\ Append(s, x) \in Seq(S) /\ Append(s, x) # << >> /\ Len(Append(s, x)) = Len(s) + 1
    /\ \A i \in 1 .. Len(s) : Append(s, x)[i] = s[i]
    /\ Append(s, x)[Len(s) + 1] = x
OBVIOUS

LEMMA InitFiles ==
  ASSUME NEW d \in Path
  PROVE  /\ InitFile(d) \in Path /\ Len(InitFile(d)) = Len(d) + 1 /\ Len(InitFile(d)) >= 2
         /\ InitFile(d)[Len(d) + 1] = InitPy /\ Last(InitFile(d)) = InitPy
         /\ Front(InitFile(d)) = d /\ IsStrictPrefix(d, InitFile(d)) /\ Top(InitFile(d)) = Top(d)
         /\ \A i \in 1 .. Len(d) : InitFile(d)[i] = d[i]
         /\ \A a \in Path : IsStrictPrefix(a, InitFile(d)) => a = d \/ IsStrictPrefix(a, d)
<1>1. d \in Seq(STRING) /\ Len(d) \in Nat /\ Len(d) >= 1 /\ InitPy \in STRING
  BY PathShape, StringAssumption
<1>2. /\ InitFile(d) \in Seq(STRING) /\ InitFile(d) # << >> /\ Len(InitFile(d)) = Len(d) + 1
      /\ \A i \in 1 .. Len(d) : InitFile(d)[i] = d[i]
      /\ InitFile(d)[Len(d) + 1] = InitPy
  BY <1>1, Appended, Zenon DEF InitFile
<1>3. InitFile(d) \in Path
  BY <1>2 DEF Path
<1>4. Last(InitFile(d)) = InitPy
  BY <1>2, <1>3, PathShape
<1>5. IsStrictPrefix(d, InitFile(d))
  BY <1>1, <1>2, <1>3, Strict
<1>6. Front(InitFile(d)) = d
  <2> DEFINE f == InitFile(d)
  <2>1. Front(f) = SubSeq(f, 1, Len(d))
    BY <1>1, <1>2 DEF Front
  <2>2. Len(d) \in 1 .. Len(f)
    BY <1>1, <1>2
  <2>3. /\ SubSeq(f, 1, Len(d)) \in Path /\ Len(SubSeq(f, 1, Len(d))) = Len(d)
        /\ \A i \in 1 .. Len(d) : SubSeq(f, 1, Len(d))[i] = f[i]
    BY <1>3, <2>2, CutPath
  <2>4. SubSeq(f, 1, Len(d)) = d
    BY <1>2, <2>3, SamePath
  <2> QED
    BY <2>1, <2>4
<1>7. Top(InitFile(d)) = Top(d)
  BY <1>3, <1>5, Tops
<1>8. ASSUME NEW a \in Path, IsStrictPrefix(a, InitFile(d))
      PROVE  a = d \/ IsStrictPrefix(a, d)
  <2>1. ~ IsStrictPrefix(d, a)
    <3>1. SUFFICES ASSUME IsStrictPrefix(d, a) PROVE FALSE
      OBVIOUS
    <3>2. Len(d) < Len(a) /\ Len(a) < Len(d) + 1 /\ Len(a) \in Nat
      BY <1>2, <1>3, <1>8, <3>1, Strict, PathShape
    <3> QED
      BY <1>1, <3>2
  <2> QED
    BY <1>3, <1>5, <1>8, <2>1, BelowBelow
<1> QED
  BY <1>1, <1>2, <1>3, <1>4, <1>5, <1>6, <1>7, <1>8

\* The directory of an __init__.py.
LEMMA InitOf ==
  ASSUME NEW f \in Path, Len(f) >= 2, Last(f) = InitPy
  PROVE  Front(f) \in Path /\ Len(Front(f)) = Len(f) - 1 /\ InitFile(Front(f)) = f
<1>1. Len(f) \in Nat /\ Len(f) - 1 \in 1 .. Len(f) /\ f[Len(f)] = InitPy
  BY PathShape
<1>2. Front(f) = SubSeq(f, 1, Len(f) - 1)
  BY <1>1 DEF Front
<1>3. /\ Front(f) \in Path /\ Len(Front(f)) = Len(f) - 1
      /\ \A i \in 1 .. Len(f) - 1 : Front(f)[i] = f[i]
  BY <1>1, <1>2, CutPath
<1>4. /\ InitFile(Front(f)) \in Path /\ Len(InitFile(Front(f))) = Len(Front(f)) + 1
      /\ InitFile(Front(f))[Len(Front(f)) + 1] = InitPy
      /\ \A i \in 1 .. Len(Front(f)) : InitFile(Front(f))[i] = Front(f)[i]
  BY <1>3, InitFiles
<1>5. Len(InitFile(Front(f))) = Len(f) /\ InitFile(Front(f))[Len(f)] = InitPy
  BY <1>1, <1>3, <1>4
<1>6. \A i \in 1 .. Len(f) : i = Len(f) \/ i \in 1 .. Len(f) - 1
  BY <1>1
<1>7. \A i \in 1 .. Len(f) : InitFile(Front(f))[i] = f[i]
  BY <1>1, <1>3, <1>4, <1>5, <1>6
<1> QED
  BY <1>3, <1>4, <1>5, <1>7, SamePath

-----------------------------------------------------------------------------
(* What analysis derives from a set of files, told without cutting paths.  *)

Neat(S) == S \subseteq Path /\ \A p \in S : \A i \in 1 .. Len(p) - 1 : p[i] # InitPy
HoldsBelow(d, S) == \E f \in S : IsStrictPrefix(d, f)
IsNamespace(t, S) ==
  /\ t \in Path /\ Len(t) = 1 /\ t[1] \notin Metadata
  /\ t \notin S /\ InitFile(t) \notin S /\ HoldsBelow(t, S)
\* No directory above p has an __init__.py.
Open(p, S) == \A a \in Path : IsStrictPrefix(a, p) => InitFile(a) \notin S

LEMMA DirsAre ==
  ASSUME NEW S \in SUBSET Path
  PROVE  Dirs(S) = {d \in Path : HoldsBelow(d, S)}
<1>1. ASSUME NEW d \in Dirs(S)
      PROVE  d \in Path /\ HoldsBelow(d, S)
  <2>1. PICK f \in S : \E k \in 1 .. Len(f) - 1 : d = SubSeq(f, 1, k)
    BY <1>1 DEF Dirs, Ancestors
  <2>2. f \in Path /\ Len(f) \in Nat
    BY PathShape
  <2>3. PICK k \in 1 .. Len(f) : k < Len(f) /\ d = SubSeq(f, 1, k)
    BY <2>1, <2>2
  <2> QED
    BY <2>2, <2>3, CutPath DEF HoldsBelow
<1>2. ASSUME NEW d \in Path, NEW f \in S, IsStrictPrefix(d, f)
      PROVE  d \in Ancestors(f)
  <2>1. /\ f \in Path /\ Len(f) \in Nat /\ Len(d) \in Nat /\ Len(d) >= 1
        /\ Len(d) < Len(f) /\ \A i \in 1 .. Len(d) : d[i] = f[i]
    BY <1>2, Strict, PathShape
  <2>2. Len(d) \in 1 .. Len(f) - 1 /\ Len(d) \in 1 .. Len(f)
    BY <2>1
  <2>3. /\ SubSeq(f, 1, Len(d)) \in Path /\ Len(SubSeq(f, 1, Len(d))) = Len(d)
        /\ \A i \in 1 .. Len(d) : SubSeq(f, 1, Len(d))[i] = f[i]
    BY <2>1, <2>2, CutPath
  <2>4. d = SubSeq(f, 1, Len(d))
    BY <2>1, <2>3, SamePath
  <2> QED
    BY <2>2, <2>4 DEF Ancestors
<1>3. ASSUME NEW d \in Path, HoldsBelow(d, S)
      PROVE  d \in Dirs(S)
  BY <1>2, <1>3 DEF HoldsBelow, Dirs
<1> QED
  BY <1>1, <1>3

LEMMA AncestorsAre ==
  ASSUME NEW p \in Path
  PROVE  Ancestors(p) = {a \in Path : IsStrictPrefix(a, p)}
<1>1. Dirs({p}) = {a \in Path : HoldsBelow(a, {p})}
  BY DirsAre
<1>2. Dirs({p}) = Ancestors(p)
  BY DEF Dirs
<1> QED
  BY <1>1, <1>2 DEF HoldsBelow

LEMMA InitDirsAre ==
  ASSUME NEW S \in SUBSET Path
  PROVE  InitDirs(S) = {d \in Path : InitFile(d) \in S}
<1>1. ASSUME NEW f \in S, Len(f) >= 2, Last(f) = InitPy
      PROVE  Front(f) \in Path /\ InitFile(Front(f)) \in S
  BY <1>1, InitOf
<1>2. ASSUME NEW d \in Path, InitFile(d) \in S
      PROVE  d \in InitDirs(S)
  <2>1. Len(InitFile(d)) >= 2 /\ Last(InitFile(d)) = InitPy /\ Front(InitFile(d)) = d
    BY InitFiles
  <2> QED
    BY <1>2, <2>1 DEF InitDirs
<1> QED
  BY <1>1, <1>2 DEF InitDirs

LEMMA TopLevelsAre ==
  ASSUME NEW S \in SUBSET Path
  PROVE  /\ TopLevels(S) = {Top(f) : f \in S}
         /\ TopLevels(S) = {t \in Path : Len(t) = 1 /\ (t \in S \/ HoldsBelow(t, S))}
<1>1. TopLevels(S) = {Top(f) : f \in S}
  BY DEF TopLevels, Top
<1>2. ASSUME NEW f \in S
      PROVE  Top(f) \in Path /\ Len(Top(f)) = 1 /\ (Top(f) \in S \/ HoldsBelow(Top(f), S))
  <2>1. f \in Path /\ Len(f) \in Nat /\ Len(f) >= 1
    BY PathShape
  <2> QED
    BY <2>1, Tops DEF HoldsBelow
<1>3. ASSUME NEW t \in Path, Len(t) = 1, t \in S \/ HoldsBelow(t, S)
      PROVE  t \in {Top(f) : f \in S}
  <2>1. Top(t) = t
    BY <1>3, Tops
  <2>2. CASE t \in S
    BY <2>1, <2>2
  <2>3. CASE HoldsBelow(t, S)
    <3>1. PICK f \in S : IsStrictPrefix(t, f)
      BY <2>3 DEF HoldsBelow
    <3>2. f \in Path
      OBVIOUS
    <3>3. Top(t) = Top(f)
      BY <3>1, <3>2, Tops
    <3> QED
      BY <2>1, <3>3
  <2> QED
    BY <1>3, <2>2, <2>3
<1> QED
  BY <1>1, <1>2, <1>3

LEMMA SecondInit ==
  ASSUME NEW f \in Path, Len(f) >= 2, f[2] = InitPy, \A i \in 1 .. Len(f) - 1 : f[i] # InitPy
  PROVE  f = InitFile(Top(f))
<1>1. Len(f) \in Nat /\ Len(f) >= 1 /\ Last(f) = f[Len(f)]
  BY PathShape
<1>2. Len(f) >= 2
  OBVIOUS
<1>3. Len(f) = 2
  <2>1. \A k \in Nat : k >= 2 /\ ~ 2 \in 1 .. k - 1 => k = 2
    OBVIOUS
  <2>2. ~ 2 \in 1 .. Len(f) - 1
    OBVIOUS
  <2> QED
    BY <1>2, <1>1, <2>1, <2>2, Zenon
<1>4. Last(f) = InitPy
  BY <1>1, <1>3, Zenon
<1>5. Front(f) \in Path /\ Len(Front(f)) = 1 /\ InitFile(Front(f)) = f
  <2>1. Front(f) \in Path /\ Len(Front(f)) = Len(f) - 1 /\ InitFile(Front(f)) = f
    BY <1>2, <1>4, InitOf, Zenon
  <2>2. 2 - 1 = 1
    OBVIOUS
  <2> QED
    BY <1>3, <2>1, <2>2, Zenon
<1>6. Top(f) = Front(f)
  BY <1>5, InitFiles, Tops
<1> QED
  BY <1>5, <1>6

LEMMA NamespacesAre ==
  ASSUME NEW S, Neat(S)
  PROVE  NamespaceTopLevels(S) = {t \in Path : IsNamespace(t, S)}
<1>1. S \in SUBSET Path /\ \A f \in S : Len(f) \in Nat /\ Len(f) >= 1
  BY PathShape DEF Neat
<1>2. ASSUME NEW t \in Path, Len(t) = 1
      PROVE  t \in RegularTopLevels(S) <=> t \in S \/ InitFile(t) \in S
  <2>1. ASSUME NEW f \in S, Len(f) = 1 \/ f[2] = InitPy, t = Top(f)
        PROVE  t \in S \/ InitFile(t) \in S
    <3>0. /\ f \in Path /\ Len(f) \in Nat /\ Len(f) >= 1
          /\ \A i \in 1 .. Len(f) - 1 : f[i] # InitPy
      BY <1>1 DEF Neat
    <3>1. CASE Len(f) = 1
      BY <2>1, <3>0, <3>1, Tops
    <3>2. CASE Len(f) >= 2
      <4>1. f[2] = InitPy
        <5>1. \A k \in Nat : k >= 2 => k # 1
          OBVIOUS
        <5> QED
          BY <2>1, <3>0, <3>2, <5>1, Zenon
      <4> QED
        BY <2>1, <3>0, <3>2, <4>1, SecondInit
    <3>3. \A k \in Nat : k >= 1 => k = 1 \/ (k # 1 /\ k >= 2)
      OBVIOUS
    <3> QED
      BY <3>0, <3>1, <3>2, <3>3, Zenon
  <2>2. ASSUME t \in S
        PROVE  t \in RegularTopLevels(S)
    BY <1>2, <2>2, Tops DEF RegularTopLevels, Top
  <2>3. ASSUME InitFile(t) \in S
        PROVE  t \in RegularTopLevels(S)
    <3>1. InitFile(t)[2] = InitPy /\ Top(InitFile(t)) = t
      BY <1>2, InitFiles, Tops
    <3> QED
      BY <2>3, <3>1 DEF RegularTopLevels, Top
  <2> QED
    BY <2>1, <2>2, <2>3 DEF RegularTopLevels, Top
<1>3. ASSUME NEW t \in Path, Len(t) = 1
      PROVE  t \in NamespaceTopLevels(S) <=> IsNamespace(t, S)
  <2>1. t \in TopLevels(S) <=> t \in S \/ HoldsBelow(t, S)
    BY <1>1, <1>3, TopLevelsAre
  <2>2. t \in RegularTopLevels(S) <=> t \in S \/ InitFile(t) \in S
    BY <1>2, <1>3
  <2> QED
    BY <1>3, <2>1, <2>2 DEF NamespaceTopLevels, IsNamespace
<1>4. \A t \in NamespaceTopLevels(S) : t \in Path /\ Len(t) = 1
  BY <1>1, TopLevelsAre DEF NamespaceTopLevels
<1>5. \A t \in Path : IsNamespace(t, S) => Len(t) = 1
  BY DEF IsNamespace
<1> QED
  BY <1>3, <1>4, <1>5

LEMMA RootsAre ==
  ASSUME NEW S, Neat(S), NEW d
  PROVE  /\ d \in Roots(S).regular <=>
              /\ d \in Path /\ IsNamespace(Top(d), S) /\ Open(d, S)
              /\ InitFile(d) \in S
         /\ d \in Roots(S).namespace <=>
              /\ d \in Path /\ IsNamespace(Top(d), S) /\ Open(d, S)
              /\ Len(d) >= 2 /\ HoldsBelow(d, S) /\ InitFile(d) \notin S
<1> DEFINE below == {c \in Dirs(S) : SubSeq(c, 1, 1) \in NamespaceTopLevels(S)}
           inits == InitDirs(S)
<1>1. S \in SUBSET Path
  BY DEF Neat
<1>2. d \in inits <=> d \in Path /\ InitFile(d) \in S
  BY <1>1, InitDirsAre
<1>3. d \in below <=> d \in Path /\ HoldsBelow(d, S) /\ IsNamespace(Top(d), S)
  <2>1. d \in Path => Top(d) \in Path
    BY Tops
  <2> QED
    BY <1>1, <2>1, DirsAre, NamespacesAre DEF Top
<1>4. d \in Path => (Ancestors(d) \cap inits = {} <=> Open(d, S))
  <2>1. d \in Path => Ancestors(d) = {a \in Path : IsStrictPrefix(a, d)}
    BY AncestorsAre
  <2>2. inits = {a \in Path : InitFile(a) \in S}
    BY <1>1, InitDirsAre
  <2> HIDE DEF inits
  <2> QED
    BY <2>1, <2>2 DEF Open
<1>5. d \in Path /\ InitFile(d) \in S => HoldsBelow(d, S)
  BY InitFiles DEF HoldsBelow
<1>6. /\ Roots(S).regular = {c \in below \cap inits : Ancestors(c) \cap inits = {}}
      /\ Roots(S).namespace = {c \in below : Len(c) >= 2 /\ c \notin inits /\ Ancestors(c) \cap inits = {}}
  BY DEF Roots
<1> HIDE DEF below, inits
<1> QED
  BY <1>2, <1>3, <1>4, <1>5, <1>6

\* The depths at which a namespace entry can be cut off a file, and the first.
Depths(f, S) == {i \in 2 .. Len(f) : i = Len(f) \/ SubSeq(f, 1, i) \in InitDirs(S)}
Depth(f, S) == CHOOSE i \in Depths(f, S) : \A j \in Depths(f, S) : i <= j

\* What is above a path is the path cut off.
LEMMA AboveIsCut ==
  ASSUME NEW p \in Path, NEW a \in Path, IsStrictPrefix(a, p)
  PROVE  Len(a) \in 1 .. Len(p) /\ Len(a) < Len(p) /\ a = SubSeq(p, 1, Len(a))
<1>1. /\ Len(a) \in Nat /\ Len(p) \in Nat /\ Len(a) >= 1 /\ Len(a) < Len(p)
      /\ \A i \in 1 .. Len(a) : a[i] = p[i]
  BY Strict, PathShape
<1>2. Len(a) \in 1 .. Len(p)
  BY <1>1
<1>3. /\ SubSeq(p, 1, Len(a)) \in Path /\ Len(SubSeq(p, 1, Len(a))) = Len(a)
      /\ \A i \in 1 .. Len(a) : SubSeq(p, 1, Len(a))[i] = p[i]
  BY <1>2, CutPath
<1> QED
  BY <1>1, <1>2, <1>3, SamePath

LEMMA CutAbove ==
  ASSUME NEW p \in Path, NEW k \in 1 .. Len(p), NEW m \in 1 .. Len(p), m < k
  PROVE  IsStrictPrefix(SubSeq(p, 1, m), SubSeq(p, 1, k))
<1>1. m \in Nat /\ k \in Nat /\ Len(p) \in Nat
  BY PathShape
<1>2. /\ SubSeq(p, 1, m) \in Path /\ Len(SubSeq(p, 1, m)) = m
      /\ \A i \in 1 .. m : SubSeq(p, 1, m)[i] = p[i]
      /\ SubSeq(p, 1, k) \in Path /\ Len(SubSeq(p, 1, k)) = k
      /\ \A i \in 1 .. k : SubSeq(p, 1, k)[i] = p[i]
  BY CutPath
<1> DEFINE a == SubSeq(p, 1, m)  b == SubSeq(p, 1, k)
<1> HIDE DEF a, b
<1>3. /\ a \in Path /\ Len(a) = m /\ \A i \in 1 .. m : a[i] = p[i]
      /\ b \in Path /\ Len(b) = k /\ \A i \in 1 .. k : b[i] = p[i]
  BY <1>2 DEF a, b
<1>4. \A i \in 1 .. m : i \in 1 .. k
  BY <1>1
<1>5. Len(a) < Len(b) /\ \A i \in 1 .. Len(a) : a[i] = b[i]
  BY <1>1, <1>3, <1>4
<1>6. IsStrictPrefix(a, b)
  BY <1>3, <1>5, Strict
<1> QED
  BY <1>6 DEF a, b

LEMMA DepthIs ==
  ASSUME NEW f \in Path, Len(f) >= 2, NEW S
  PROVE  /\ Depth(f, S) \in Depths(f, S) /\ \A j \in Depths(f, S) : Depth(f, S) <= j
         /\ Depth(f, S) \in 1 .. Len(f) /\ Depth(f, S) >= 2
<1>1. Len(f) \in Nat
  BY PathShape
<1>2. Depths(f, S) \in SUBSET Nat /\ Len(f) \in Depths(f, S)
  BY <1>1 DEF Depths
<1>3. \E w \in Depths(f, S) : \A v \in Depths(f, S) : w <= v
  BY <1>2, FirstExists
<1>4. Depth(f, S) \in Depths(f, S) /\ \A j \in Depths(f, S) : Depth(f, S) <= j
  BY <1>3 DEF Depth
<1>5. Depths(f, S) \subseteq 2 .. Len(f)
  BY DEF Depths
<1> QED
  BY <1>1, <1>4, <1>5

LEMMA EntryIs ==
  ASSUME NEW S, Neat(S), NEW f \in S, Len(f) >= 2, IsNamespace(Top(f), S)
  PROVE  LET e == SubSeq(f, 1, Depth(f, S))
         IN  /\ e \in Path /\ Len(e) >= 2 /\ IsNamespace(Top(e), S) /\ Open(e, S)
             /\ e \in S \/ InitFile(e) \in S
             /\ e = f \/ IsStrictPrefix(e, f)
             /\ e \in S => e = f \/ InitFile(e) \in S
<1> DEFINE k == Depth(f, S)  e == SubSeq(f, 1, k)
<1>1. f \in Path /\ S \in SUBSET Path /\ Len(f) \in Nat
  BY PathShape DEF Neat
<1>2. /\ k \in Depths(f, S) /\ \A j \in Depths(f, S) : k <= j
      /\ k \in 1 .. Len(f) /\ k >= 2
  BY <1>1, DepthIs
<1>3. \A d : d \in InitDirs(S) <=> d \in Path /\ InitFile(d) \in S
  BY <1>1, InitDirsAre
<1> HIDE DEF k
<1>4. /\ e \in Path /\ Len(e) = k /\ (k < Len(f) => IsStrictPrefix(e, f)) /\ (k = Len(f) => e = f)
  BY <1>1, <1>2, CutPath
<1>5. k = Len(f) \/ InitFile(e) \in S
  BY <1>2, <1>3 DEF Depths
<1>6. k = Len(f) \/ k < Len(f)
  BY <1>1, <1>2
<1>7. e = f \/ IsStrictPrefix(e, f)
  BY <1>4, <1>6
<1>8. Top(e) = Top(f)
  BY <1>1, <1>4, <1>7, Tops
<1>9. ASSUME NEW a \in Path, IsStrictPrefix(a, e)
      PROVE  InitFile(a) \notin S
  <2>1. IsStrictPrefix(a, f)
    BY <1>1, <1>4, <1>7, <1>9, BelowBelow
  <2>2. Len(a) \in 1 .. Len(f) /\ a = SubSeq(f, 1, Len(a)) /\ Len(a) < k
    BY <1>1, <1>4, <1>9, <2>1, AboveIsCut
  <2>3. CASE Len(a) = 1
    <3>1. Top(a) = a /\ Top(a) = Top(f)
      BY <1>1, <2>1, <2>3, Tops
    <3> QED
      BY <3>1 DEF IsNamespace
  <2>4. CASE Len(a) >= 2
    <3>1. SUFFICES ASSUME InitFile(a) \in S PROVE FALSE
      OBVIOUS
    <3>2. SubSeq(f, 1, Len(a)) \in InitDirs(S)
      BY <1>3, <2>2, <3>1
    <3>3. Len(a) \in 2 .. Len(f)
      BY <1>1, <2>2, <2>4
    <3>4. Len(a) \in Depths(f, S)
      BY <3>2, <3>3 DEF Depths
    <3>5. k <= Len(a)
      BY <1>2, <3>4
    <3> QED
      BY <1>1, <1>2, <2>2, <3>5
  <2>5. Len(a) \in Nat /\ Len(a) >= 1
    BY PathShape
  <2>6. \A j \in Nat : j >= 1 => j = 1 \/ j >= 2
    OBVIOUS
  <2> QED
    BY <2>3, <2>4, <2>5, <2>6, Zenon
<1>10. Open(e, S)
  BY <1>9 DEF Open
<1>11. Len(e) >= 2
  BY <1>2, <1>4
<1>12. e = f \/ InitFile(e) \in S
  BY <1>4, <1>5
<1> HIDE DEF e
<1>13. /\ e \in Path /\ Len(e) >= 2 /\ IsNamespace(Top(e), S) /\ Open(e, S)
       /\ e \in S \/ InitFile(e) \in S
       /\ e = f \/ IsStrictPrefix(e, f)
       /\ e \in S => e = f \/ InitFile(e) \in S
  BY <1>4, <1>7, <1>8, <1>10, <1>11, <1>12
<1> QED
  BY <1>13, Zenon DEF e, k

\* The entry of a file that is told of is the one that has all of this.
LEMMA EntryFound ==
  ASSUME NEW S, Neat(S), NEW f \in S, Len(f) >= 2,
         NEW e \in Path, Len(e) >= 2, Open(e, S),
         e = f \/ (IsStrictPrefix(e, f) /\ InitFile(e) \in S)
  PROVE  e = SubSeq(f, 1, Depth(f, S))
<1> DEFINE k == Depth(f, S)  l == Len(e)
<1>1. f \in Path /\ S \in SUBSET Path /\ Len(f) \in Nat /\ l \in Nat
  BY PathShape DEF Neat
<1>2. /\ k \in Depths(f, S) /\ \A j \in Depths(f, S) : k <= j
      /\ k \in 1 .. Len(f) /\ k >= 2
  BY <1>1, DepthIs
<1>3. \A d : d \in InitDirs(S) <=> d \in Path /\ InitFile(d) \in S
  BY <1>1, InitDirsAre
<1>4. l \in 1 .. Len(f) /\ e = SubSeq(f, 1, l) /\ (l = Len(f) \/ InitFile(e) \in S)
  <2>1. CASE e = f
    <3>1. l \in 1 .. Len(f)
      BY <1>1, <2>1
    <3>2. f = SubSeq(f, 1, l)
      BY <1>1, <2>1, <3>1, CutPath
    <3> QED
      BY <2>1, <3>1, <3>2
  <2>2. CASE IsStrictPrefix(e, f) /\ InitFile(e) \in S
    BY <1>1, <2>2, AboveIsCut
  <2> QED
    BY <2>1, <2>2
<1>5. l \in Depths(f, S)
  <2>1. l \in 2 .. Len(f)
    BY <1>1, <1>4
  <2>2. SubSeq(f, 1, l) = e
    BY <1>4
  <2>3. l = Len(f) \/ SubSeq(f, 1, l) \in InitDirs(S)
    BY <1>3, <1>4, <2>2
  <2> QED
    BY <2>1, <2>3 DEF Depths
<1>6. k <= l
  BY <1>2, <1>5
<1> HIDE DEF k, l
<1>7. ~ k < l
  <2>1. SUFFICES ASSUME k < l PROVE FALSE
    OBVIOUS
  <2>2. k < Len(f) /\ k # Len(f)
    BY <1>1, <1>2, <1>4, <2>1
  <2>3. SubSeq(f, 1, k) \in InitDirs(S)
    BY <1>2, <2>2 DEF Depths
  <2>4. IsStrictPrefix(SubSeq(f, 1, k), e)
    BY <1>1, <1>2, <1>4, <2>1, CutAbove
  <2> QED
    BY <1>3, <2>3, <2>4 DEF Open
<1>8. k = l
  BY <1>1, <1>2, <1>6, <1>7
<1> QED
  BY <1>4, <1>8 DEF k

LEMMA EntriesAre ==
  ASSUME NEW S, Neat(S), NEW e
  PROVE  e \in NamespaceEntries(S) <=>
           /\ e \in Path /\ Len(e) >= 2 /\ IsNamespace(Top(e), S) /\ Open(e, S)
           /\ e \in S \/ InitFile(e) \in S
<1> DEFINE found == {g \in S : Len(g) >= 2 /\ SubSeq(g, 1, 1) \in NamespaceTopLevels(S)}
<1>1. NamespaceEntries(S) = {SubSeq(f, 1, Depth(f, S)) : f \in found}
  BY DEF NamespaceEntries, Depth, Depths
<1>2. S \in SUBSET Path
  BY DEF Neat
<1>3. \A f \in S : f \in found <=> Len(f) >= 2 /\ IsNamespace(Top(f), S)
  <2>1. \A f \in S : Top(f) \in Path
    BY <1>2, Tops
  <2> QED
    BY <2>1, NamespacesAre DEF Top
<1>4. ASSUME e \in NamespaceEntries(S)
      PROVE  /\ e \in Path /\ Len(e) >= 2 /\ IsNamespace(Top(e), S) /\ Open(e, S)
             /\ e \in S \/ InitFile(e) \in S
  <2>1. PICK f \in found : e = SubSeq(f, 1, Depth(f, S))
    BY <1>1, <1>4
  <2>2. f \in S /\ Len(f) >= 2 /\ IsNamespace(Top(f), S)
    BY <1>3
  <2> QED
    BY <2>1, <2>2, EntryIs
<1>5. ASSUME e \in Path, Len(e) >= 2, IsNamespace(Top(e), S), Open(e, S), e \in S \/ InitFile(e) \in S
      PROVE  e \in NamespaceEntries(S)
  <2>1. CASE e \in S
    <3>1. e \in found /\ e = SubSeq(e, 1, Depth(e, S))
      BY <1>3, <1>5, <2>1, EntryFound
    <3> QED
      BY <1>1, <3>1
  <2>2. CASE InitFile(e) \in S
    <3>1. /\ Len(InitFile(e)) >= 2 /\ Top(InitFile(e)) = Top(e) /\ IsStrictPrefix(e, InitFile(e))
      BY <1>5, InitFiles
    <3>2. InitFile(e) \in found /\ e = SubSeq(InitFile(e), 1, Depth(InitFile(e), S))
      BY <1>3, <1>5, <2>2, <3>1, EntryFound
    <3> QED
      BY <1>1, <3>2
  <2> QED
    BY <1>5, <2>1, <2>2
<1> QED
  BY <1>4, <1>5

LEMMA NativeRootsAre ==
  ASSUME NEW S, Neat(S), NEW r
  PROVE  r \in NativeRoots(S) <=>
           \E f \in S : /\ Len(f) >= 2 /\ Last(f) \in NativeLib
                        /\ r = Top(f) \/ (r \in Roots(S).regular \cup Roots(S).namespace /\ IsStrictPrefix(r, f))
BY DEF NativeRoots, Top

-----------------------------------------------------------------------------
(* Two sets of files of which analysis tells the same: those it was given  *)
(* and those that are there.                                               *)

Watched(K) ==
  TopLevels(K) \cup NamespaceEntries(K) \cup Roots(K).namespace \cup Roots(K).regular
\* What the checks around the patches see of a path.
SameAs(p, K, F) ==
  /\ p \in K => p \in F
  /\ HoldsBelow(p, K) =>
       /\ p \notin F /\ (InitFile(p) \in F <=> InitFile(p) \in K)
       /\ \A f : Last(f) \in NativeLib /\ IsStrictPrefix(p, f) => (f \in F <=> f \in K)
Faithful(K, F) ==
  /\ Neat(K) /\ Neat(F) /\ \A p \in F : ~ InCache(p)
  /\ \A f \in K : InCache(f) =>
       /\ Last(f) \notin NativeLib
       /\ \E g \in K : ~ InCache(g) /\ \A a \in Path : IsStrictPrefix(a, f) /\ ~ InCache(a) => IsStrictPrefix(a, g)
  /\ \A f \in K : f[1] \in Metadata => Last(f) \notin NativeLib /\ \E g \in F : Top(g) = Top(f)
  /\ \A p \in Watched(K) : ~ InCache(p) => SameAs(p, K, F)

LEMMA RealAbove ==
  ASSUME NEW a \in Path, NEW p \in Path, IsStrictPrefix(a, p), ~ InCache(p)
  PROVE  ~ InCache(a)
<1>1. /\ Len(a) \in Nat /\ Len(p) \in Nat /\ Len(a) < Len(p)
      /\ \A i \in 1 .. Len(a) : a[i] = p[i]
  BY Strict, PathShape
<1>2. DOMAIN a = 1 .. Len(a) /\ DOMAIN p = 1 .. Len(p)
  BY DEF Path
<1>3. \A i \in 1 .. Len(a) : i \in 1 .. Len(p)
  BY <1>1
<1> QED
  BY <1>1, <1>2, <1>3 DEF InCache

LEMMA RealTop ==
  ASSUME NEW p \in Path, ~ InCache(p)
  PROVE  ~ InCache(Top(p))
<1>1. Len(p) \in Nat /\ Len(p) >= 1 /\ Top(p) \in Path
  BY PathShape, Tops
<1>2. CASE Len(p) = 1
  BY <1>2, Tops
<1>3. CASE Len(p) >= 2
  BY <1>1, <1>3, Tops, RealAbove
<1>4. \A k \in Nat : k >= 1 => k = 1 \/ k >= 2
  OBVIOUS
<1> QED
  BY <1>1, <1>2, <1>3, <1>4, Zenon

\* Below a directory of the skeleton is a file that is there: the entry of the
\* file that analysis knew of.
LEMMA SkeletonStays ==
  ASSUME NEW K, NEW F, Faithful(K, F), NEW d \in Path, ~ InCache(d),
         IsNamespace(Top(d), K), Open(d, K), InitFile(d) \notin K, HoldsBelow(d, K)
  PROVE  HoldsBelow(d, F)
<1>1. Neat(K) /\ K \in SUBSET Path
  BY DEF Faithful, Neat
<1>2. PICK f \in K : IsStrictPrefix(d, f) /\ ~ InCache(f)
  <2>1. PICK g \in K : IsStrictPrefix(d, g)
    BY DEF HoldsBelow
  <2> QED
    BY <2>1 DEF Faithful
<1>3. f \in Path /\ Len(f) >= 2 /\ Top(f) = Top(d)
  BY <1>1, <1>2, Tops
<1>4. PICK e \in Path : /\ Len(e) >= 2 /\ IsNamespace(Top(e), K) /\ Open(e, K)
                        /\ e = f \/ IsStrictPrefix(e, f)
                        /\ e = f \/ InitFile(e) \in K
                        /\ e \in K \/ InitFile(e) \in K
  BY <1>1, <1>3, EntryIs
<1>5. IsStrictPrefix(d, e)
  <2>1. CASE e = f
    BY <1>2, <2>1
  <2>2. CASE e # f
    <3>1. InitFile(e) \in K /\ IsStrictPrefix(e, f)
      BY <1>4, <2>2
    <3>2. d = e \/ IsStrictPrefix(d, e) \/ IsStrictPrefix(e, d)
      BY <1>2, <1>3, <3>1, BelowBelow
    <3> QED
      BY <3>1, <3>2 DEF Open
  <2> QED
    BY <2>1, <2>2
<1>6. ~ InCache(e)
  BY <1>2, <1>3, <1>4, RealAbove
<1>7. e \in Watched(K)
  BY <1>1, <1>4, EntriesAre DEF Watched
<1>8. SameAs(e, K, F)
  BY <1>6, <1>7 DEF Faithful
<1>9. CASE e \in K
  BY <1>5, <1>8, <1>9 DEF SameAs, HoldsBelow
<1>10. CASE InitFile(e) \in K
  <2>1. InitFile(e) \in Path /\ IsStrictPrefix(e, InitFile(e))
    BY InitFiles
  <2>2. InitFile(e) \in F
    BY <1>8, <1>10, <2>1 DEF SameAs, HoldsBelow
  <2>3. IsStrictPrefix(d, InitFile(e))
    BY <1>5, <2>1, BelowBelow
  <2> QED
    BY <2>2, <2>3 DEF HoldsBelow
<1> QED
  BY <1>4, <1>9, <1>10

LEMMA NamespaceStays ==
  ASSUME NEW K, NEW F, Faithful(K, F), NEW t \in Path, ~ InCache(t), IsNamespace(t, K)
  PROVE  IsNamespace(t, F)
<1>1. Neat(K) /\ K \in SUBSET Path
  BY DEF Faithful, Neat
<1>2. Len(t) = 1 /\ Top(t) = t /\ t \notin K /\ InitFile(t) \notin K /\ HoldsBelow(t, K)
  BY Tops DEF IsNamespace
<1>3. Open(t, K)
  <2>1. \A a \in Path : ~ IsStrictPrefix(a, t)
    <3>1. \A a \in Path : IsStrictPrefix(a, t) => Len(t) >= 2
      BY Tops
    <3>2. ~ Len(t) >= 2
      BY <1>2
    <3> QED
      BY <3>1, <3>2
  <2> QED
    BY <2>1 DEF Open
<1>4. HoldsBelow(t, F)
  BY <1>2, <1>3, SkeletonStays
<1>5. t \in Watched(K)
  BY <1>1, <1>2, TopLevelsAre DEF Watched
<1>6. SameAs(t, K, F)
  BY <1>5 DEF Faithful
<1> QED
  BY <1>2, <1>4, <1>6 DEF SameAs, IsNamespace

LEMMA OpenStays ==
  ASSUME NEW K, NEW F, Faithful(K, F), NEW d \in Path, ~ InCache(d),
         IsNamespace(Top(d), K), Open(d, K), d \in K \/ HoldsBelow(d, K)
  PROVE  IsNamespace(Top(d), F) /\ Open(d, F)
<1>1. Neat(K) /\ K \in SUBSET Path
  BY DEF Faithful, Neat
<1>2. Top(d) \in Path /\ ~ InCache(Top(d))
  BY Tops, RealTop
<1>3. IsNamespace(Top(d), F)
  BY <1>2, NamespaceStays
<1>4. ASSUME NEW a \in Path, IsStrictPrefix(a, d)
      PROVE  InitFile(a) \notin F
  <2>1. Top(a) = Top(d) /\ ~ InCache(a) /\ InitFile(a) \notin K
    BY <1>4, Tops, RealAbove DEF Open
  <2>2. HoldsBelow(a, K)
    <3>1. CASE d \in K
      BY <1>4, <3>1 DEF HoldsBelow
    <3>2. CASE HoldsBelow(d, K)
      BY <1>1, <1>4, <3>2, BelowBelow DEF HoldsBelow
    <3> QED
      BY <3>1, <3>2
  <2>3. Open(a, K)
    BY <1>4, BelowBelow DEF Open
  <2>4. Len(a) \in Nat /\ Len(a) >= 1
    BY PathShape
  <2>5. a \in Watched(K)
    <3>1. CASE Len(a) = 1
      BY <1>1, <2>2, <3>1, TopLevelsAre DEF Watched
    <3>2. CASE Len(a) >= 2
      BY <1>1, <2>1, <2>2, <2>3, <3>2, RootsAre DEF Watched
    <3>3. \A k \in Nat : k >= 1 => k = 1 \/ k >= 2
      OBVIOUS
    <3> QED
      BY <2>4, <3>1, <3>2, <3>3, Zenon
  <2>6. SameAs(a, K, F)
    BY <2>1, <2>5 DEF Faithful
  <2> QED
    BY <2>1, <2>2, <2>6 DEF SameAs
<1> QED
  BY <1>3, <1>4 DEF Open

LEMMA RootsStay ==
  ASSUME NEW K, NEW F, Faithful(K, F), NEW d, ~ InCache(d)
  PROVE  /\ d \in Roots(K).regular => d \in Roots(F).regular
         /\ d \in Roots(K).namespace => d \in Roots(F).namespace
<1>1. Neat(K) /\ K \in SUBSET Path /\ Neat(F) /\ F \in SUBSET Path
  BY DEF Faithful, Neat
<1>2. ASSUME d \in Roots(K).regular
      PROVE  d \in Roots(F).regular
  <2>1. d \in Path /\ IsNamespace(Top(d), K) /\ Open(d, K) /\ InitFile(d) \in K
    BY <1>1, <1>2, RootsAre
  <2>2. HoldsBelow(d, K)
    BY <2>1, InitFiles DEF HoldsBelow
  <2>3. IsNamespace(Top(d), F) /\ Open(d, F)
    BY <2>1, <2>2, OpenStays
  <2>4. SameAs(d, K, F)
    BY <1>2 DEF Faithful, Watched
  <2>5. InitFile(d) \in F
    BY <2>1, <2>2, <2>4 DEF SameAs
  <2> QED
    BY <1>1, <2>1, <2>3, <2>5, RootsAre
<1>3. ASSUME d \in Roots(K).namespace
      PROVE  d \in Roots(F).namespace
  <2>1. /\ d \in Path /\ IsNamespace(Top(d), K) /\ Open(d, K) /\ InitFile(d) \notin K
        /\ Len(d) >= 2 /\ HoldsBelow(d, K)
    BY <1>1, <1>3, RootsAre
  <2>2. IsNamespace(Top(d), F) /\ Open(d, F) /\ HoldsBelow(d, F)
    BY <2>1, OpenStays, SkeletonStays
  <2>3. SameAs(d, K, F)
    BY <1>3 DEF Faithful, Watched
  <2>4. InitFile(d) \notin F
    BY <2>1, <2>3 DEF SameAs
  <2> QED
    BY <1>1, <2>1, <2>2, <2>4, RootsAre
<1> QED
  BY <1>2, <1>3

LEMMA EntriesStay ==
  ASSUME NEW K, NEW F, Faithful(K, F), NEW e \in NamespaceEntries(K), ~ InCache(e)
  PROVE  e \in NamespaceEntries(F)
<1>1. Neat(K) /\ K \in SUBSET Path /\ Neat(F)
  BY DEF Faithful, Neat
<1>2. /\ e \in Path /\ Len(e) >= 2 /\ IsNamespace(Top(e), K) /\ Open(e, K)
      /\ e \in K \/ InitFile(e) \in K
  BY <1>1, EntriesAre
<1>3. InitFile(e) \in K => HoldsBelow(e, K)
  BY <1>2, InitFiles DEF HoldsBelow
<1>4. IsNamespace(Top(e), F) /\ Open(e, F)
  BY <1>2, <1>3, OpenStays
<1>5. SameAs(e, K, F)
  BY DEF Faithful, Watched
<1>6. e \in F \/ InitFile(e) \in F
  BY <1>2, <1>3, <1>5 DEF SameAs
<1> QED
  BY <1>1, <1>2, <1>4, <1>6, EntriesAre

\* A top level that is a directory of modules or data stays one.
LEMMA TopDirStays ==
  ASSUME NEW K, NEW F, Faithful(K, F), NEW t \in Path, ~ InCache(t), Len(t) = 1,
         HoldsBelow(t, K), t[1] \notin Metadata
  PROVE  HoldsBelow(t, F)
<1>1. Neat(K) /\ K \in SUBSET Path /\ Top(t) = t
  BY Tops DEF Faithful, Neat
<1>2. t \in Watched(K)
  BY <1>1, TopLevelsAre DEF Watched
<1>3. SameAs(t, K, F)
  BY <1>2 DEF Faithful
<1>4. CASE InitFile(t) \in K
  <2>1. InitFile(t) \in F
    BY <1>3, <1>4 DEF SameAs
  <2> QED
    BY <2>1, InitFiles DEF HoldsBelow
<1>5. CASE t \in K
  <2>1. t \in F
    BY <1>3, <1>5 DEF SameAs
  <2> QED
    BY <1>3, <2>1 DEF SameAs
<1>6. CASE InitFile(t) \notin K /\ t \notin K
  <2>1. IsNamespace(t, K)
    BY <1>6 DEF IsNamespace
  <2> QED
    BY <2>1, NamespaceStays DEF IsNamespace
<1> QED
  BY <1>4, <1>5, <1>6

LEMMA NativeRootsStay ==
  ASSUME NEW K, NEW F, Faithful(K, F), NEW r \in Path, ~ InCache(r)
  PROVE  LET dirs(S) == {t \in TopLevels(S) \cap Dirs(S) : t[1] \notin Metadata}
                          \cup Roots(S).namespace \cup Roots(S).regular
         IN r \in NativeRoots(K) <=> r \in NativeRoots(F) /\ r \in dirs(K)
<1> DEFINE dirs(S) == {t \in TopLevels(S) \cap Dirs(S) : t[1] \notin Metadata}
                        \cup Roots(S).namespace \cup Roots(S).regular
<1>1. Neat(K) /\ K \in SUBSET Path /\ Neat(F) /\ F \in SUBSET Path
  BY DEF Faithful, Neat
<1>2. \A d \in Roots(K).namespace \cup Roots(K).regular :
        d \in Path /\ HoldsBelow(d, K) /\ d \in Watched(K)
  <2>1. \A d \in Roots(K).regular : d \in Path /\ InitFile(d) \in K
    BY <1>1, RootsAre
  <2>2. \A d \in Path : InitFile(d) \in K => HoldsBelow(d, K)
    BY InitFiles DEF HoldsBelow
  <2>3. \A d \in Roots(K).namespace : d \in Path /\ HoldsBelow(d, K)
    BY <1>1, RootsAre
  <2> QED
    BY <2>1, <2>2, <2>3 DEF Watched
<1>3. ASSUME NEW t \in Path
      PROVE  t \in {u \in TopLevels(K) \cap Dirs(K) : u[1] \notin Metadata} <=>
               Len(t) = 1 /\ HoldsBelow(t, K) /\ t[1] \notin Metadata
  BY <1>1, TopLevelsAre, DirsAre
<1>4. ASSUME NEW t \in Path, Len(t) = 1, HoldsBelow(t, K)
      PROVE  t \in Watched(K)
  BY <1>1, <1>4, TopLevelsAre DEF Watched
<1>5. ASSUME NEW f \in Path, Last(f) \in NativeLib, r \in Watched(K), HoldsBelow(r, K), IsStrictPrefix(r, f)
      PROVE  f \in F <=> f \in K
  <2>1. SameAs(r, K, F)
    BY <1>5 DEF Faithful
  <2> QED
    BY <1>5, <2>1 DEF SameAs
<1>6. ASSUME r \in NativeRoots(K)
      PROVE  r \in NativeRoots(F) /\ r \in dirs(K)
  <2>1. PICK f \in K :
          /\ Len(f) >= 2 /\ Last(f) \in NativeLib
          /\ r = Top(f) \/ (r \in Roots(K).regular \cup Roots(K).namespace /\ IsStrictPrefix(r, f))
    BY <1>1, <1>6, NativeRootsAre
  <2>2. f \in Path
    BY <1>1
  <2>3. CASE r = Top(f)
    <3>1. Len(r) = 1 /\ r[1] = f[1] /\ IsStrictPrefix(r, f)
      BY <2>1, <2>2, <2>3, Tops
    <3>2. f[1] \notin Metadata
      BY <2>1 DEF Faithful
    <3>3. HoldsBelow(r, K)
      BY <3>1 DEF HoldsBelow
    <3>4. r \in dirs(K)
      BY <1>3, <3>1, <3>2, <3>3
    <3>5. f \in F
      BY <1>4, <1>5, <2>1, <2>2, <3>1, <3>3
    <3> QED
      BY <1>1, <2>1, <2>3, <3>4, <3>5, NativeRootsAre
  <2>4. CASE r \in Roots(K).regular \cup Roots(K).namespace /\ IsStrictPrefix(r, f)
    <3>1. f \in F
      BY <1>2, <1>5, <2>1, <2>2, <2>4
    <3>2. r \in Roots(F).regular \cup Roots(F).namespace
      BY <2>4, RootsStay
    <3> QED
      BY <1>1, <2>1, <2>4, <3>1, <3>2, NativeRootsAre
  <2> QED
    BY <2>1, <2>3, <2>4
<1>7. ASSUME r \in NativeRoots(F), r \in dirs(K)
      PROVE  r \in NativeRoots(K)
  <2>1. PICK f \in F :
          /\ Len(f) >= 2 /\ Last(f) \in NativeLib
          /\ r = Top(f) \/ (r \in Roots(F).regular \cup Roots(F).namespace /\ IsStrictPrefix(r, f))
    BY <1>1, <1>7, NativeRootsAre
  <2>2. f \in Path /\ IsStrictPrefix(r, f)
    BY <1>1, <2>1, Tops
  <2>3. CASE r \in Roots(K).regular \cup Roots(K).namespace
    <3>1. f \in K
      BY <1>2, <1>5, <2>1, <2>2, <2>3
    <3> QED
      BY <1>1, <2>1, <2>2, <2>3, <3>1, NativeRootsAre
  <2>4. CASE r \in {u \in TopLevels(K) \cap Dirs(K) : u[1] \notin Metadata}
    <3>1. Len(r) = 1 /\ HoldsBelow(r, K)
      BY <1>3, <2>4
    <3>2. f \in K
      BY <1>4, <1>5, <2>1, <2>2, <3>1
    <3>3. r = Top(f)
      BY <2>2, <3>1, Tops
    <3> QED
      BY <1>1, <2>1, <3>2, <3>3, NativeRootsAre
  <2> QED
    BY <1>7, <2>3, <2>4
<1> QED
  BY <1>6, <1>7

LEMMA ToldIsThere ==
  ASSUME NEW K, NEW F, Faithful(K, F), NEW data
  PROVE  LET told == WheelRecord(K, data)
             there == WheelRecord(F, {})
             dirs == told.top_level_dirs \cup told.namespace_dirs \cup told.regular_roots
             real(S) == {p \in S : ~ InCache(p)}
         IN /\ real(told.top_levels) \subseteq there.top_levels
            /\ real(told.top_level_dirs) \subseteq there.top_level_dirs
            /\ real(told.namespace_top_levels) = there.namespace_top_levels \cap told.top_levels
            /\ real(told.namespace_entries) \subseteq there.namespace_entries
            /\ real(told.namespace_dirs) \subseteq there.namespace_dirs
            /\ real(told.regular_roots) \subseteq there.regular_roots
            /\ real(told.native_roots) = there.native_roots \cap dirs
<1> DEFINE real(S) == {p \in S : ~ InCache(p)}
           TopDirs(S) == {t \in TopLevels(S) \cap Dirs(S) : t[1] \notin Metadata}
<1>1. Neat(K) /\ K \in SUBSET Path /\ Neat(F) /\ F \in SUBSET Path
  BY DEF Faithful, Neat
<1>2. ASSUME NEW t \in TopLevels(K), ~ InCache(t)
      PROVE  /\ t \in Path /\ Len(t) = 1 /\ (t \in K \/ HoldsBelow(t, K))
             /\ SameAs(t, K, F)
  BY <1>1, <1>2, TopLevelsAre DEF Watched, Faithful
<1>3. real(TopDirs(K)) \subseteq TopDirs(F)
  <2>1. SUFFICES ASSUME NEW t \in TopDirs(K), ~ InCache(t)
                 PROVE  t \in TopDirs(F)
    OBVIOUS
  <2>2. t \in Path /\ Len(t) = 1 /\ HoldsBelow(t, K) /\ t[1] \notin Metadata
    BY <1>1, <2>1, TopLevelsAre, DirsAre
  <2>3. HoldsBelow(t, F)
    BY <2>1, <2>2, TopDirStays
  <2> QED
    BY <1>1, <2>2, <2>3, TopLevelsAre, DirsAre
<1>4. real(TopLevels(K)) \subseteq TopLevels(F)
  <2>1. SUFFICES ASSUME NEW t \in TopLevels(K), ~ InCache(t)
                 PROVE  t \in TopLevels(F)
    OBVIOUS
  <2>2. t \in Path /\ Len(t) = 1 /\ (t \in K \/ HoldsBelow(t, K)) /\ SameAs(t, K, F)
    BY <1>2, <2>1
  <2>3. CASE t \in K
    BY <1>1, <2>2, <2>3, TopLevelsAre DEF SameAs
  <2>4. CASE HoldsBelow(t, K) /\ t[1] \notin Metadata
    BY <1>1, <2>1, <2>2, <2>4, TopDirStays, TopLevelsAre
  <2>5. CASE HoldsBelow(t, K) /\ t[1] \in Metadata
    <3>1. PICK f \in K : IsStrictPrefix(t, f)
      BY <2>5 DEF HoldsBelow
    <3>2. f \in Path /\ Top(f) = t /\ f[1] = t[1]
      BY <1>1, <2>2, <3>1, Tops
    <3>3. PICK g \in F : Top(g) = t
      BY <2>5, <3>2 DEF Faithful
    <3> QED
      BY <1>1, <3>3, TopLevelsAre
  <2> QED
    BY <2>2, <2>3, <2>4, <2>5
<1>5. real(NamespaceTopLevels(K)) = NamespaceTopLevels(F) \cap TopLevels(K)
  <2>1. ASSUME NEW t \in NamespaceTopLevels(K), ~ InCache(t)
        PROVE  t \in NamespaceTopLevels(F) /\ t \in TopLevels(K)
    <3>1. t \in Path /\ IsNamespace(t, K)
      BY <1>1, <2>1, NamespacesAre
    <3>2. IsNamespace(t, F)
      BY <2>1, <3>1, NamespaceStays
    <3> QED
      BY <1>1, <2>1, <3>1, <3>2, NamespacesAre DEF NamespaceTopLevels
  <2>2. ASSUME NEW t \in NamespaceTopLevels(F), t \in TopLevels(K)
        PROVE  t \in NamespaceTopLevels(K) /\ ~ InCache(t)
    <3>1. t \in Path /\ IsNamespace(t, F)
      BY <1>1, <2>2, NamespacesAre
    <3>2. ~ InCache(t)
      <4>1. PICK f \in F : IsStrictPrefix(t, f)
        BY <3>1 DEF IsNamespace, HoldsBelow
      <4>2. f \in Path /\ ~ InCache(f)
        BY <1>1 DEF Faithful
      <4> QED
        BY <3>1, <4>1, <4>2, RealAbove
    <3>3. (t \in K \/ HoldsBelow(t, K)) /\ SameAs(t, K, F)
      BY <1>2, <2>2, <3>2
    <3>4. t \notin K /\ HoldsBelow(t, K) /\ InitFile(t) \notin K
      BY <3>1, <3>3 DEF SameAs, IsNamespace
    <3>5. IsNamespace(t, K)
      BY <3>1, <3>4 DEF IsNamespace
    <3> QED
      BY <1>1, <3>1, <3>2, <3>5, NamespacesAre
  <2> QED
    BY <2>1, <2>2
<1>6. real(NamespaceEntries(K)) \subseteq NamespaceEntries(F)
  BY EntriesStay
<1>7. /\ real(Roots(K).namespace) \subseteq Roots(F).namespace
      /\ real(Roots(K).regular) \subseteq Roots(F).regular
  BY RootsStay
<1>8. real(NativeRoots(K)) = NativeRoots(F) \cap (TopDirs(K) \cup Roots(K).namespace \cup Roots(K).regular)
  <2> DEFINE dirs == TopDirs(K) \cup Roots(K).namespace \cup Roots(K).regular
  <2>1. \A r : r \in NativeRoots(F) => r \in Path /\ ~ InCache(r)
    <3>1. SUFFICES ASSUME NEW r \in NativeRoots(F) PROVE r \in Path /\ ~ InCache(r)
      OBVIOUS
    <3>2. PICK f \in F :
            r = Top(f) \/ (r \in Roots(F).regular \cup Roots(F).namespace /\ IsStrictPrefix(r, f))
      BY <1>1, NativeRootsAre
    <3>3. f \in Path /\ ~ InCache(f)
      BY <1>1 DEF Faithful
    <3>4. r \in Path
      BY <1>1, <3>2, <3>3, Tops, RootsAre
    <3> QED
      BY <3>2, <3>3, <3>4, RealAbove, RealTop
  <2>2. \A r : r \in NativeRoots(K) => r \in Path
    BY <1>1, NativeRootsAre, Tops, RootsAre
  <2>3. \A r \in Path : ~ InCache(r) => (r \in NativeRoots(K) <=> r \in NativeRoots(F) /\ r \in dirs)
    BY NativeRootsStay
  <2> HIDE DEF dirs, TopDirs
  <2> QED
    BY <2>1, <2>2, <2>3 DEF dirs
<1> QED
  BY <1>3, <1>4, <1>5, <1>6, <1>7, <1>8 DEF WheelRecord

-----------------------------------------------------------------------------
(* What analysis was given and what is left of it.                         *)

WrittenPaths == {<<DistInfo, "INSTALLER">>, <<DistInfo, "REQUESTED">>}
TouchedPaths == {Rel(f) : f \in {g \in UNION {DOMAIN job.patches[i] : i \in DOMAIN job.patches} : InSite(g)}}
Flat(S) == \A p, q \in S : ~ IsStrictPrefix(p, q)

LEMMA JobLayout ==
  ASSUME job \in Jobs
  PROVE  /\ \A i \in 1 .. MemberCount : InSite(Dest(members[i])) => members[i].at \in {"root", "purelib"}
         /\ Flat(RecordPaths \cup WrittenPaths)
         /\ \A p \in RecordPaths :
              /\ InCache(p) => /\ IsCache(p) /\ cache_source_path(p) \in RecordPaths
                               /\ ~ InCache(cache_source_path(p))
              /\ p[1] \in Metadata => p[1] = DistInfo /\ Last(p) \notin NativeLib
         /\ \A p \in RecordPaths \cup TouchedPaths : \A i \in 1 .. Len(p) - 1 :
              p[i] # InitPy /\ (p[i] \in Metadata => p[i + 1] # InitPy)
         /\ \A p \in TouchedPaths : ~ InCache(p)
<1>1. DOMAIN job.wheel.members = 1 .. MemberCount
  BY JobFacts DEF members
<1>2. \A i \in DOMAIN job.wheel.members :
        InSite(Dest(job.wheel.members[i])) => job.wheel.members[i].at \in {"root", "purelib"}
  BY LayoutAssumption
<1>3. \A p, q \in RecordPaths \cup WrittenPaths : ~ IsStrictPrefix(p, q)
  BY LayoutAssumption DEF RecordPaths, WrittenPaths
<1>4. \A p \in RecordPaths :
        /\ InCache(p) => /\ IsCache(p) /\ cache_source_path(p) \in RecordPaths
                         /\ ~ InCache(cache_source_path(p))
        /\ p[1] \in Metadata => p[1] = DistInfo /\ Last(p) \notin NativeLib
  BY LayoutAssumption DEF RecordPaths
<1>5. \A p \in RecordPaths \cup TouchedPaths : \A i \in 1 .. Len(p) - 1 :
        p[i] # InitPy /\ (p[i] \in Metadata => p[i + 1] # InitPy)
  BY LayoutAssumption DEF RecordPaths, TouchedPaths
<1>6. \A p \in TouchedPaths : ~ InCache(p)
  BY LayoutAssumption DEF TouchedPaths
<1> QED
  BY <1>1, <1>2, <1>3, <1>4, <1>5, <1>6 DEF Flat, members

LEMMA LayoutPaths ==
  ASSUME job \in Jobs
  PROVE  /\ RecordPaths \subseteq Path /\ WrittenPaths \subseteq Path
         /\ \A p \in Path : Ships(p, MemberCount) <=> p \in RecordPaths
         /\ \A p \in Path : Written(p) <=> p \in WrittenPaths
         /\ \A p \in Path : Touched(p, PatchCount) <=> p \in TouchedPaths
         /\ <<DistInfo, "RECORD">> \in RecordPaths
<1>1. RecordPaths = {members[i].rel : i \in {k \in 1 .. MemberCount : members[k].at \in {"root", "purelib"}}}
  BY JobFacts DEF RecordPaths, PathsOf, members
<1>2. \A i \in 1 .. MemberCount : members[i] \in Member /\ members[i].rel \in Path
  BY JobFacts DEF Member
<1>3. \A i \in 1 .. MemberCount :
        members[i].at \in {"root", "purelib"} => Dest(members[i]) = Site(members[i].rel)
  BY <1>2, MemberPath
<1>4. ASSUME NEW p \in Path
      PROVE  Ships(p, MemberCount) <=> p \in RecordPaths
  <2>1. ASSUME NEW i \in 1 .. MemberCount, Dest(members[i]) = Site(p)
        PROVE  p \in RecordPaths
    <3>1. members[i].at \in {"root", "purelib"}
      BY <2>1, SitePath, JobLayout
    <3>2. members[i].rel = p
      BY <1>2, <1>3, <2>1, <3>1, SiteInjective
    <3> QED
      BY <1>1, <3>1, <3>2
  <2>2. ASSUME p \in RecordPaths
        PROVE  Ships(p, MemberCount)
    BY <1>1, <1>3, <2>2 DEF Ships
  <2> QED
    BY <2>1, <2>2 DEF Ships
<1>5. WrittenPaths \subseteq Path
  BY MetadataFiles DEF WrittenPaths
<1>6. ASSUME NEW p \in Path
      PROVE  Written(p) <=> p \in WrittenPaths
  <2>1. \A q \in WrittenPaths : Site(p) = Site(q) <=> p = q
    BY <1>5, SiteInjective
  <2> QED
    BY <2>1 DEF Written, InstallerFile, RequestedFile, WrittenPaths
<1>7. ASSUME NEW p \in Path
      PROVE  Touched(p, PatchCount) <=> p \in TouchedPaths
  <2> DEFINE all == UNION {DOMAIN job.patches[i] : i \in DOMAIN job.patches}
  <2>1. \A f \in all : f \in Path
    BY PatchesAssumption
  <2>2. Touched(p, PatchCount) <=> Site(p) \in all
    BY JobFacts DEF Touched
  <2> HIDE DEF all
  <2>3. \A f \in all : InSite(f) => Site(Rel(f)) = f
    BY <2>1, PathInSite
  <2>4. InSite(Site(p)) /\ Rel(Site(p)) = p
    BY SitePath
  <2>5. p \in {Rel(f) : f \in {g \in all : InSite(g)}} <=> Site(p) \in all
    BY <2>3, <2>4
  <2> QED
    BY <2>2, <2>5 DEF TouchedPaths, all
<1>8. <<DistInfo, "RECORD">> \in RecordPaths
  <2> DEFINE r == <<DistInfo, "RECORD">>
  <2>1. PICK i \in DOMAIN members : Name(members[i]) = <<"root", r>>
    BY WheelsAssumption DEF members
  <2>2. i \in 1 .. MemberCount
    BY JobFacts
  <2> HIDE DEF r
  <2>3. members[i].at = "root" /\ members[i].rel = r
    BY <2>1 DEF Name
  <2> QED
    BY <1>1, <2>2, <2>3 DEF r
<1>9. RecordPaths \subseteq Path
  BY <1>1, <1>2
<1> QED
  BY <1>4, <1>5, <1>6, <1>7, <1>8, <1>9

\* The real paths of an install: no cache holds them, and the installer's own
\* are none that a check looks for.
LEMMA CacheIsInCache ==
  ASSUME NEW p \in Path, IsCache(p)
  PROVE  InCache(p)
<1>1. /\ Len(p) \in Nat /\ DOMAIN p = 1 .. Len(p)
      /\ Len(p) >= 2 /\ p[Len(p) - 1] = "__pycache__"
  BY PathShape DEF IsCache, Path
<1>2. Len(p) - 1 \in 1 .. Len(p)
  BY <1>1
<1> QED
  BY <1>1, <1>2 DEF InCache

LEMMA MetadataReal ==
  ASSUME NEW s \in {"RECORD", "INSTALLER", "REQUESTED"}
  PROVE  ~ InCache(<<DistInfo, s>>)
<1>1. DistInfo # "__pycache__" /\ s # "__pycache__"
  BY SegmentAssumption
<1>2. DOMAIN <<DistInfo, s>> = 1 .. 2 /\ <<DistInfo, s>>[1] = DistInfo /\ <<DistInfo, s>>[2] = s
  OBVIOUS
<1>3. \A i \in 1 .. 2 : i = 1 \/ i = 2
  OBVIOUS
<1> QED
  BY <1>1, <1>2, <1>3 DEF InCache

LEMMA WrittenLasts ==
  ASSUME NEW p \in WrittenPaths
  PROVE  /\ p \in Path /\ ~ InCache(p) /\ Last(p) # InitPy /\ Last(p) \notin NativeLib
         /\ Len(p) = 2 /\ p[1] = DistInfo /\ p[2] = Last(p)
<1>1. PICK s \in {"INSTALLER", "REQUESTED"} : p = <<DistInfo, s>>
  BY DEF WrittenPaths
<1>2. /\ p \in Path /\ Last(p) = s /\ Len(p) = 2 /\ p[1] = DistInfo /\ p[2] = s
  BY <1>1, MetadataFiles
<1>3. s \notin NativeLib /\ s # InitPy
  BY SegmentAssumption
<1>4. ~ InCache(p)
  BY <1>1, MetadataReal
<1> QED
  BY <1>2, <1>3, <1>4

\* What is unpacked, whether the globs apply then or later.
LEMMA RealUnpacked ==
  ASSUME job \in Jobs, NEW p \in Path
  PROVE  /\ Unpacked(p) => p \in RecordPaths \cup WrittenPaths
         /\ p \in RecordPaths \cup WrittenPaths /\ ~ InCache(p) /\ ~ Excluded(p) => Unpacked(p)
         /\ Patched /\ Unpacked(p) => ~ InCache(p)
<1>1. /\ Ships(p, MemberCount) <=> p \in RecordPaths
      /\ Written(p) <=> p \in WrittenPaths
  BY LayoutPaths
<1>2. ~ InCache(p) /\ ~ Excluded(p) => ~ Skipped(p)
  BY CacheIsInCache DEF Skipped, Excluded
<1>3. ASSUME Patched, Ships(p, MemberCount), ~ Skipped(p)
      PROVE  ~ InCache(p)
  <2>1. ~ IsCache(p)
    BY <1>3 DEF Skipped, drop_pycache
  <2> QED
    BY <1>1, <1>3, <2>1, JobLayout
<1>4. Written(p) => ~ InCache(p)
  BY <1>1, WrittenLasts
<1> QED
  BY <1>1, <1>2, <1>3, <1>4 DEF Unpacked

\* No directory is named __init__.py, and none of metadata has one.
LEMMA AfterNeat ==
  ASSUME job \in Jobs, NEW p \in Path, p \in RecordPaths \/ Unpacked(p) \/ Touched(p, PatchCount)
  PROVE  \A i \in 1 .. Len(p) - 1 : p[i] # InitPy /\ (p[i] \in Metadata => p[i + 1] # InitPy)
<1>1. CASE p \in RecordPaths \cup TouchedPaths
  BY <1>1, JobLayout
<1>2. CASE p \in WrittenPaths
  <2>1. Len(p) = 2 /\ p[1] = DistInfo /\ p[2] # InitPy
    BY <1>2, WrittenLasts
  <2>2. DistInfo # InitPy
    <3> DEFINE r == <<DistInfo, "RECORD">>
    <3>1. r \in Path /\ Len(r) = 2 /\ r[1] = DistInfo
      BY MetadataFiles
    <3>2. r \in RecordPaths
      BY LayoutPaths
    <3> HIDE DEF r
    <3>3. 1 \in 1 .. Len(r) - 1
      BY <3>1
    <3> QED
      BY <3>1, <3>2, <3>3, JobLayout
  <2>3. \A i \in 1 .. Len(p) - 1 : i = 1
    BY <2>1
  <2> QED
    BY <2>1, <2>2, <2>3
<1> QED
  BY <1>1, <1>2, RealUnpacked, LayoutPaths

\* A shape told of the files of site-packages.
Retained(d, S) == Last(d) \notin Metadata /\ InitFile(d) \in S /\ ~ Excluded(InitFile(d))
NativesBelow(d, S) == {p \in S : IsStrictPrefix(d, p) /\ Last(p) \in NativeLib /\ ~ Excluded(p)}
ShapeOf(S, p) ==
  IF HoldsBelow(p, S) THEN <<"dir", Retained(p, S), NativesBelow(p, S)>>
  ELSE IF p \in S THEN <<"file">> ELSE <<"none">>

LEMMA ShapeIs ==
  ASSUME NEW t, NEW p
  PROVE  Shape(t, p) = ShapeOf(SiteFiles(t), p)
<1>1. IsDir(t, p) <=> HoldsBelow(p, SiteFiles(t))
  BY DEF IsDir, HoldsBelow
<1>2. (Last(p) \notin Metadata /\ _retained_init(t, p)) = Retained(p, SiteFiles(t))
  BY DEF _retained_init, Retained, InitFile, Excluded
<1>3. _native_descendants(t, p) = NativesBelow(p, SiteFiles(t))
  BY DEF _native_descendants, NativesBelow, Excluded
<1> QED
  BY <1>1, <1>2, <1>3, Zenon DEF Shape, ShapeOf

LEMMA SameShape ==
  ASSUME NEW p, NEW S, NEW T, ShapeOf(S, p) = ShapeOf(T, p), ShapeOf(S, p) # <<"none">>
  PROVE  /\ HoldsBelow(p, S) => /\ HoldsBelow(p, T)
                                /\ Retained(p, S) <=> Retained(p, T)
                                /\ NativesBelow(p, S) = NativesBelow(p, T)
         /\ ~ HoldsBelow(p, S) => p \in S /\ p \in T /\ ~ HoldsBelow(p, T)
<1>1. Retained(p, S) \in BOOLEAN /\ Retained(p, T) \in BOOLEAN
  BY DEF Retained
<1>2. \A x, y : <<"dir", x, y>> # <<"file">> /\ <<"dir", x, y>> # <<"none">>
  OBVIOUS
<1>3. <<"file">> # <<"none">>
  OBVIOUS
<1>4. \A a, b, x, y : <<"dir", a, x>> = <<"dir", b, y>> => a = b /\ x = y
  OBVIOUS
<1>5. CASE HoldsBelow(p, S)
  <2>1. ShapeOf(S, p) = <<"dir", Retained(p, S), NativesBelow(p, S)>>
    BY <1>5 DEF ShapeOf
  <2>2. HoldsBelow(p, T)
    <3>1. ~ HoldsBelow(p, T) => ShapeOf(T, p) = <<"file">> \/ ShapeOf(T, p) = <<"none">>
      BY DEF ShapeOf
    <3>2. ShapeOf(S, p) # <<"file">>
      BY <1>2, <2>1, Zenon
    <3> QED
      BY <3>1, <3>2
  <2>3. ShapeOf(T, p) = <<"dir", Retained(p, T), NativesBelow(p, T)>>
    BY <2>2 DEF ShapeOf
  <2>4. <<"dir", Retained(p, S), NativesBelow(p, S)>> = <<"dir", Retained(p, T), NativesBelow(p, T)>>
    BY <2>1, <2>3, Zenon
  <2>5. Retained(p, S) = Retained(p, T) /\ NativesBelow(p, S) = NativesBelow(p, T)
    BY <1>4, <2>4, Zenon
  <2> QED
    BY <1>5, <2>2, <2>5
<1>6. CASE ~ HoldsBelow(p, S)
  <2>1. p \in S /\ ShapeOf(S, p) = <<"file">>
    BY <1>6 DEF ShapeOf
  <2>2. ~ HoldsBelow(p, T)
    BY <1>2, <2>1 DEF ShapeOf
  <2>3. p \in T
    BY <1>3, <2>1, <2>2 DEF ShapeOf
  <2> QED
    BY <1>6, <2>1, <2>2, <2>3
<1> QED
  BY <1>5, <1>6

\* What analysis is told of, what is unpacked, what is there after the patches
\* and what is left of that.
Told == {p \in RecordPaths : ~ Excluded(p)}
Before == {p \in Path : Unpacked(p)}
Later == {p \in Path : After(p, PatchCount)}
Left == {p \in Later : ~ Excluded(p) /\ ~ InCache(p)}

LEMMA BeforeFlat ==
  ASSUME job \in Jobs
  PROVE  Flat(Before) /\ Flat(Told) /\ Neat(Told) /\ Neat(Left)
<1>1. Before \subseteq RecordPaths \cup WrittenPaths
  BY RealUnpacked DEF Before
<1>2. \A p \in Later : p \in Path /\ (Unpacked(p) \/ Touched(p, PatchCount))
  BY DEF Later, After
<1>3. Left \subseteq Path /\ \A p \in Left : Unpacked(p) \/ Touched(p, PatchCount)
  BY <1>2 DEF Left
<1>4. Told \subseteq Path /\ \A p \in Told : p \in RecordPaths
  BY LayoutPaths DEF Told
<1>5. Neat(Told)
  BY <1>4, AfterNeat DEF Neat
<1>6. Neat(Left)
  BY <1>3, AfterNeat DEF Neat
<1> QED
  BY <1>1, <1>4, <1>5, <1>6, JobLayout DEF Flat

\* Bytecode that analysis is told of lies beside a module that it is told of.
LEMMA CachedBeside ==
  ASSUME job \in Jobs, NEW f \in Told, InCache(f)
  PROVE  /\ Last(f) \notin NativeLib
         /\ \E g \in Told : /\ ~ InCache(g)
                            /\ \A a \in Path : IsStrictPrefix(a, f) /\ ~ InCache(a) => IsStrictPrefix(a, g)
<1> DEFINE s == cache_source_path(f)
           x == SourceOf[Last(f)]
           front == SubSeq(f, 1, Len(f) - 2)
           end == <<x>>
<1>1. f \in RecordPaths /\ ~ Excluded(f) /\ f \in Path
  BY LayoutPaths DEF Told
<1>2. IsCache(f) /\ s \in RecordPaths /\ s \in Path /\ ~ InCache(s)
  BY <1>1, JobLayout, LayoutPaths
<1>3. /\ IsBytecode(f) /\ Last(f) \in DOMAIN SourceOf /\ Len(f) \in Nat /\ Len(f) >= 2
      /\ f[Len(f) - 1] = "__pycache__" /\ DOMAIN f = 1 .. Len(f)
  BY <1>1, <1>2, PathShape DEF IsCache, IsBytecode, Path
<1>4. Last(f) \notin NativeLib /\ x \notin DOMAIN SourceOf /\ x \in STRING
  BY <1>3, SegmentAssumption
<1>5. s = front \o end
  BY <1>2 DEF cache_source_path
<1>6. front \in Seq(STRING) /\ Len(front) = Len(f) - 2 /\ \A i \in 1 .. Len(f) - 2 : front[i] = f[i]
  <2> DEFINE k == Len(f) - 2
  <2>1. k \in Nat /\ k <= Len(f) /\ f \in Seq(STRING) /\ \A i \in 1 .. k : f[i] \in STRING
    BY <1>1, <1>3, PathShape
  <2>2. /\ SubSeq(f, 1, k) \in Seq(STRING) /\ Len(SubSeq(f, 1, k)) = IF 1 <= k THEN k - 1 + 1 ELSE 0
        /\ \A i \in 1 .. k - 1 + 1 : SubSeq(f, 1, k)[i] = f[1 + i - 1]
    BY <2>1, SubSeqProperties
  <2> HIDE DEF k
  <2>3. \A i \in 1 .. k : i \in 1 .. k - 1 + 1 /\ 1 + i - 1 = i
    BY <2>1
  <2>4. (IF 1 <= k THEN k - 1 + 1 ELSE 0) = k
    BY <2>1
  <2>5. SubSeq(f, 1, k) \in Seq(STRING) /\ Len(SubSeq(f, 1, k)) = k /\ \A i \in 1 .. k : SubSeq(f, 1, k)[i] = f[i]
    BY <2>2, <2>3, <2>4
  <2> QED
    BY <2>5 DEF k
<1>7. end \in Path /\ Len(end) = 1 /\ Last(end) = x
  <2>1. end \in Seq(STRING) /\ Len(end) = 1 /\ end[1] = x
    BY <1>4
  <2>2. end # << >>
    BY <2>1
  <2> QED
    BY <2>1, <2>2 DEF Path, Last
<1> HIDE DEF front, end, x
<1>8. /\ Len(s) = Len(f) - 1 /\ Last(s) = x
      /\ \A i \in 1 .. Len(f) - 2 : s[i] = f[i]
  <2>1. /\ Len(front \o end) = Len(front) + Len(end) /\ Last(front \o end) = Last(end)
        /\ \A i \in 1 .. Len(front) : (front \o end)[i] = front[i]
    BY <1>6, <1>7, JoinPath
  <2> QED
    BY <1>3, <1>5, <1>6, <1>7, <2>1
<1> HIDE DEF s
<1>9. s \in Told
  <2>1. ~ IsBytecode(s)
    BY <1>4, <1>8 DEF IsBytecode
  <2>2. ~ Within(s, job.exclude)
    BY <1>1, <1>3 DEF Excluded, _path_excluded, SourceExcluded, s
  <2> QED
    BY <1>2, <2>1, <2>2 DEF Told, Excluded, _path_excluded, SourceExcluded
<1>10. ASSUME NEW a \in Path, IsStrictPrefix(a, f), ~ InCache(a)
       PROVE  IsStrictPrefix(a, s)
  <2>1. /\ Len(a) \in Nat /\ Len(a) >= 1 /\ DOMAIN a = 1 .. Len(a)
        /\ Len(a) < Len(f) /\ \A i \in 1 .. Len(a) : a[i] = f[i]
    BY <1>1, <1>10, Strict, PathShape DEF Path
  <2>2. ~ Len(f) - 1 \in 1 .. Len(a)
    BY <1>3, <1>10, <2>1 DEF InCache
  <2>3. Len(a) <= Len(f) - 2
    BY <1>3, <2>1, <2>2
  <2>4. Len(a) < Len(s) /\ \A i \in 1 .. Len(a) : i \in 1 .. Len(f) - 2
    BY <1>3, <1>8, <2>1, <2>3
  <2>5. \A i \in 1 .. Len(a) : a[i] = s[i]
    BY <1>8, <2>1, <2>4
  <2> QED
    BY <1>2, <2>4, <2>5, Strict
<1> QED
  BY <1>2, <1>4, <1>9, <1>10

\* A wheel keeps a file of its metadata, or the install is refused.
Kept == job.exclude # {} => <<DistInfo, "RECORD">> \in Left
ShapesKept == Patched => \A p \in preserve_paths : ShapeOf(Later, p) = ShapeOf(Before, p)
                                                   /\ ShapeOf(Before, p) # <<"none">>

LEMMA PatchedReal ==
  ASSUME job \in Jobs, Patched
  PROVE  \A p \in Later : ~ InCache(p)
<1>1. \A p \in Path : Unpacked(p) => ~ InCache(p)
  BY RealUnpacked
<1>2. \A p \in Path : Touched(p, PatchCount) => ~ InCache(p)
  BY LayoutPaths, JobLayout
<1> QED
  BY <1>1, <1>2 DEF Later, After

LEMMA Unpatched ==
  ASSUME job \in Jobs, ~ Patched
  PROVE  Later = Before
<1>1. PatchCount = 0
  BY JobFacts
<1>2. \A p : ~ Touched(p, PatchCount) /\ ~ Away(p, PatchCount)
  BY <1>1 DEF Touched, Away
<1> QED
  BY <1>2 DEF Later, Before, After

LEMMA InitReal ==
  ASSUME NEW p \in Path, ~ InCache(p)
  PROVE  ~ InCache(InitFile(p))
<1>1. /\ InitFile(p) \in Path /\ Len(InitFile(p)) = Len(p) + 1 /\ Len(p) \in Nat
      /\ InitFile(p)[Len(p) + 1] = InitPy
      /\ \A i \in 1 .. Len(p) : InitFile(p)[i] = p[i]
  BY InitFiles, PathShape
<1>2. DOMAIN InitFile(p) = 1 .. Len(p) + 1 /\ DOMAIN p = 1 .. Len(p)
  BY <1>1 DEF Path
<1>3. \A i \in 1 .. Len(p) + 1 : i \in 1 .. Len(p) \/ i = Len(p) + 1
  BY <1>1
<1>4. InitPy # "__pycache__"
  BY SegmentAssumption
<1> QED
  BY <1>1, <1>2, <1>3, <1>4 DEF InCache

\* What analysis is told of, but for bytecode, is unpacked, and but for what the
\* installer writes nothing else is.
LEMMA ToldUnpacked ==
  ASSUME job \in Jobs, NEW p \in Path, ~ InCache(p), ~ Excluded(p)
  PROVE  /\ p \in Told => p \in Before
         /\ p \in Before => p \in Told \/ p \in WrittenPaths
BY RealUnpacked DEF Told, Before

\* Every top level, entry, directory and root is seen by the checks.
LEMMA WatchedPaths ==
  ASSUME job \in Jobs, NEW p \in Watched(Told)
  PROVE  /\ p \in Path /\ p \in preserve_paths
         /\ p \in Told \/ HoldsBelow(p, Told)
<1>1. Neat(Told) /\ Told \in SUBSET Path
  BY BeforeFlat DEF Neat
<1>2. Layout = WheelRecord(Told, DataFiles)
  BY DEF Layout, Told, Excluded
<1>3. /\ Layout.top_levels = TopLevels(Told)
      /\ Layout.namespace_entries = NamespaceEntries(Told)
      /\ Layout.namespace_dirs = Roots(Told).namespace
      /\ Layout.regular_roots = Roots(Told).regular
  BY <1>2 DEF WheelRecord
<1>4. CASE p \in TopLevels(Told)
  BY <1>1, <1>3, <1>4, TopLevelsAre DEF preserve_paths
<1>5. \A d \in Path : InitFile(d) \in Told => HoldsBelow(d, Told)
  BY InitFiles DEF HoldsBelow
<1>6. CASE p \notin TopLevels(Told)
  <2>1. p \in NamespaceEntries(Told) \cup Roots(Told).namespace \cup Roots(Told).regular
    BY <1>6 DEF Watched
  <2>2. p \in Path /\ IsNamespace(Top(p), Told) /\ (p \in Told \/ HoldsBelow(p, Told))
    BY <1>1, <1>5, <2>1, EntriesAre, RootsAre
  <2>3. p[1] \notin Metadata
    BY <2>2, Tops DEF IsNamespace
  <2> QED
    BY <1>3, <2>1, <2>2, <2>3 DEF preserve_paths
<1> QED
  BY <1>4, <1>6

LEMMA MetadataLeft ==
  ASSUME job \in Jobs, ShapesKept, Kept, NEW f \in Told, f[1] \in Metadata
  PROVE  \E g \in Left : Top(g) = Top(f)
<1> DEFINE r == <<DistInfo, "RECORD">>
<1>1. f \in Path /\ f[1] = DistInfo /\ f \in RecordPaths /\ ~ Excluded(f)
  BY LayoutPaths, JobLayout DEF Told
<1>2. r \in Path /\ r[1] = DistInfo /\ ~ InCache(r) /\ r \in RecordPaths
  BY MetadataFiles, MetadataReal, LayoutPaths
<1> HIDE DEF r
<1>3. Top(r) = Top(f)
  <2>1. /\ Top(r) \in Path /\ Len(Top(r)) = 1 /\ Top(r)[1] = DistInfo
        /\ Top(f) \in Path /\ Len(Top(f)) = 1 /\ Top(f)[1] = DistInfo
    BY <1>1, <1>2, Tops
  <2>2. \A i \in 1 .. Len(Top(r)) : Top(r)[i] = Top(f)[i]
    BY <2>1
  <2> QED
    BY <2>1, <2>2, SamePath
<1>4. CASE job.exclude # {}
  BY <1>3, <1>4 DEF Kept, r
<1>5. CASE job.exclude = {}
  <2>1. \A p : ~ Excluded(p)
    BY <1>5 DEF Excluded, _path_excluded, SourceExcluded, Within
  <2>2. CASE ~ Patched
    <3>1. r \in Before
      BY <1>2, <2>1, ToldUnpacked DEF Told
    <3> QED
      BY <1>2, <1>3, <2>1, <2>2, <3>1, Unpatched DEF Left
  <2>3. CASE Patched
    <3>1. Top(f) \in Watched(Told)
      BY DEF Watched, TopLevels, Top
    <3>2. ShapeOf(Later, Top(f)) # <<"none">>
      BY <2>3, <3>1, WatchedPaths DEF ShapesKept
    <3>3. Top(f) \in Path
      BY <1>1, Tops
    <3>4. PICK g \in Later : g = Top(f) \/ IsStrictPrefix(Top(f), g)
      BY <3>2 DEF ShapeOf, HoldsBelow
    <3>5. g \in Path /\ ~ InCache(g)
      BY <2>3, PatchedReal DEF Later
    <3>6. Top(g) = Top(f)
      BY <3>3, <3>4, <3>5, <1>1, Tops
    <3> QED
      BY <2>1, <3>5, <3>6 DEF Left
  <2> QED
    BY <2>2, <2>3
<1> QED
  BY <1>4, <1>5

LEMMA WatchedSame ==
  ASSUME job \in Jobs, Flat(Later), ShapesKept, NEW p \in Watched(Told), ~ InCache(p)
  PROVE  SameAs(p, Told, Left)
<1>1. p \in Path /\ p \in preserve_paths /\ (p \in Told \/ HoldsBelow(p, Told))
  BY WatchedPaths
<1>2. \A f \in Told : f \in Path /\ ~ Excluded(f) /\ f \in RecordPaths
  BY LayoutPaths DEF Told
<1>3. HoldsBelow(p, Told) => HoldsBelow(p, Before)
  <2>1. SUFFICES ASSUME NEW f \in Told, IsStrictPrefix(p, f) PROVE HoldsBelow(p, Before)
    BY DEF HoldsBelow
  <2>2. PICK g \in Told : ~ InCache(g) /\ IsStrictPrefix(p, g)
    BY <1>1, <2>1, CachedBeside
  <2> QED
    BY <1>2, <2>2, ToldUnpacked DEF HoldsBelow
<1>4. p \in Told => p \in Before
  BY <1>2, ToldUnpacked
<1>5. ShapeOf(Later, p) = ShapeOf(Before, p) /\ ShapeOf(Before, p) # <<"none">>
  <2>1. CASE Patched
    BY <1>1, <2>1 DEF ShapesKept
  <2>2. CASE ~ Patched
    <3>1. Later = Before
      BY <2>2, Unpatched
    <3>2. ShapeOf(Before, p) # <<"none">>
      <4>1. \A x, y : <<"dir", x, y>> # <<"none">>
        OBVIOUS
      <4>2. <<"file">> # <<"none">>
        OBVIOUS
      <4>3. HoldsBelow(p, Before) \/ p \in Before
        BY <1>1, <1>3, <1>4
      <4> QED
        BY <4>1, <4>2, <4>3, Zenon DEF ShapeOf
    <3> QED
      BY <3>1, <3>2
  <2> QED
    BY <2>1, <2>2
<1>6. /\ HoldsBelow(p, Before) =>
           /\ HoldsBelow(p, Later) /\ (Retained(p, Before) <=> Retained(p, Later))
           /\ NativesBelow(p, Before) = NativesBelow(p, Later)
      /\ ~ HoldsBelow(p, Before) => p \in Later
  BY <1>5, SameShape
<1>7. \A f \in Left : f \in Later /\ f \in Path /\ ~ Excluded(f) /\ ~ InCache(f)
                      /\ (Unpacked(f) \/ Touched(f, PatchCount))
  BY DEF Left, Later, After
<1>8. ASSUME p \in Told
      PROVE  p \in Left
  <2>1. ~ HoldsBelow(p, Before)
    BY <1>4, <1>8, BeforeFlat DEF Flat, HoldsBelow
  <2> QED
    BY <1>2, <1>6, <1>8, <2>1 DEF Left
<1>9. ASSUME HoldsBelow(p, Told)
      PROVE  p \notin Left
  <2>1. HoldsBelow(p, Later)
    BY <1>3, <1>6, <1>9
  <2> QED
    BY <1>7, <2>1 DEF Flat, HoldsBelow
<1>10. ASSUME HoldsBelow(p, Told)
       PROVE  InitFile(p) \in Left <=> InitFile(p) \in Told
  <2> DEFINE i == InitFile(p)
  <2>1. /\ i \in Path /\ ~ InCache(i) /\ Last(i) = InitPy /\ Len(i) = Len(p) + 1
        /\ Len(p) \in Nat /\ Len(p) >= 1 /\ i[Len(p)] = Last(p) /\ i[Len(p) + 1] = InitPy
    <3>1. /\ Len(p) \in Nat /\ Len(p) >= 1 /\ Last(p) = p[Len(p)]
      BY <1>1, PathShape
    <3>2. Len(p) \in 1 .. Len(p)
      BY <3>1
    <3> QED
      BY <1>1, <3>1, <3>2, InitFiles, InitReal
  <2> HIDE DEF i
  <2>2. CASE Last(p) \in Metadata
    <3>1. ASSUME i \in RecordPaths \/ Unpacked(i) \/ Touched(i, PatchCount)
          PROVE  FALSE
      <4>1. Len(p) \in 1 .. Len(i) - 1
        BY <2>1
      <4>2. i[Len(p) + 1] # InitPy
        BY <2>1, <2>2, <3>1, <4>1, AfterNeat
      <4> QED
        BY <2>1, <4>2
    <3> QED
      BY <1>2, <1>7, <3>1 DEF i
  <2>3. CASE Last(p) \notin Metadata
    <3>1. Retained(p, Before) <=> Retained(p, Later)
      BY <1>3, <1>6, <1>10
    <3>2. i \in Before /\ ~ Excluded(i) <=> i \in Later /\ ~ Excluded(i)
      BY <2>3, <3>1 DEF Retained, i
    <3>3. i \notin WrittenPaths
      BY <2>1, WrittenLasts
    <3>4. i \in Told <=> i \in Before /\ ~ Excluded(i)
      BY <1>2, <2>1, <3>3, ToldUnpacked
    <3>5. i \in Left <=> i \in Later /\ ~ Excluded(i)
      BY <2>1 DEF Left
    <3> QED
      BY <3>2, <3>4, <3>5 DEF i
  <2> QED
    BY <2>2, <2>3
<1>11. ASSUME HoldsBelow(p, Told), NEW f, Last(f) \in NativeLib, IsStrictPrefix(p, f)
       PROVE  f \in Left <=> f \in Told
  <2>1. NativesBelow(p, Before) = NativesBelow(p, Later)
    BY <1>3, <1>6, <1>11
  <2>2. f \in Before /\ ~ Excluded(f) <=> f \in Later /\ ~ Excluded(f)
    BY <1>11, <2>1 DEF NativesBelow
  <2>3. f \in Told => f \in Path /\ ~ InCache(f) /\ f \in Before /\ ~ Excluded(f)
    BY <1>2, <1>11, CachedBeside, ToldUnpacked
  <2>4. f \in Left => f \in Path /\ ~ InCache(f) /\ f \in Before /\ ~ Excluded(f)
    BY <1>7, <2>2
  <2>5. f \in WrittenPaths => FALSE
    BY <1>11, WrittenLasts
  <2>6. f \in Left => f \in Told
    BY <2>4, <2>5, ToldUnpacked
  <2>7. f \in Told => f \in Left
    BY <2>2, <2>3 DEF Left
  <2> QED
    BY <2>6, <2>7
<1> QED
  BY <1>8, <1>9, <1>10, <1>11 DEF SameAs

LEMMA ToldFaithful ==
  ASSUME job \in Jobs, Flat(Later), ShapesKept, Kept
  PROVE  Faithful(Told, Left)
<1>1. Neat(Told) /\ Neat(Left)
  BY BeforeFlat
<1>2. \A p \in Left : ~ InCache(p)
  BY DEF Left
<1>3. \A f \in Told : InCache(f) =>
        /\ Last(f) \notin NativeLib
        /\ \E g \in Told : ~ InCache(g) /\ \A a \in Path : IsStrictPrefix(a, f) /\ ~ InCache(a) => IsStrictPrefix(a, g)
  BY CachedBeside
<1>4. \A f \in Told : f[1] \in Metadata => Last(f) \notin NativeLib
  BY JobLayout DEF Told
<1>5. \A f \in Told : f[1] \in Metadata => \E g \in Left : Top(g) = Top(f)
  BY MetadataLeft
<1>6. \A p \in Watched(Told) : ~ InCache(p) => SameAs(p, Told, Left)
  BY WatchedSame
<1> QED
  BY <1>1, <1>2, <1>3, <1>4, <1>5, <1>6, Zenon DEF Faithful

-----------------------------------------------------------------------------
(* The steps of an install that keep to what analysis was told.            *)

LayoutInv ==
  /\ pc = "patch" => Flat(SiteFiles(tree))
  /\ pc = "patch" /\ Patched =>
       \A p \in preserve_paths : /\ p \in DOMAIN observed /\ observed[p] = ShapeOf(Before, p)
                                 /\ ShapeOf(Before, p) # <<"none">>
  /\ pc \in {"exclude", "rewrite", "compile", "done"} =>
       Flat(Later) /\ ShapesKept /\ _prefix_data_files(DOMAIN tree) = Expected
  /\ pc \in {"compile", "done"} => Kept
  /\ pc = "done" => {p \in SiteFiles(tree) : ~ InCache(p)} = Left

LEMMA LayoutKept ==
  ASSUME job' = job
  PROVE  /\ Before' = Before /\ Later' = Later /\ Left' = Left
         /\ preserve_paths' = preserve_paths /\ Expected' = Expected /\ Patched' = Patched
         /\ \A S, p : ShapeOf(S, p)' = ShapeOf(S, p)
         /\ ShapesKept' = ShapesKept /\ Kept' = Kept
<1>1. Before' = Before
  BY StagesKept DEF Before
<1>2. PatchCount' = PatchCount /\ Patched' = Patched /\ Members' = Members /\ \A p : Excluded(p)' = Excluded(p)
  BY JobKept
<1>3. Later' = Later
  BY <1>2, StagesKept DEF Later
<1>4. Left' = Left
  BY <1>2, <1>3 DEF Left
<1>5. DataFiles' = DataFiles /\ Layout' = Layout
  BY <1>2 DEF DataFiles, Layout, RecordPaths
<1>6. preserve_paths' = preserve_paths
  BY <1>5 DEF preserve_paths
<1>7. \A S, p : ShapeOf(S, p)' = ShapeOf(S, p)
  BY <1>2 DEF ShapeOf, Retained, NativesBelow
<1>8. \A p : ShapeOf(Later, p)' = ShapeOf(Later, p) /\ ShapeOf(Before, p)' = ShapeOf(Before, p)
  BY <1>1, <1>2, <1>3 DEF ShapeOf, Retained, NativesBelow
<1>9. ShapesKept' = ShapesKept
  BY <1>2, <1>6, <1>8 DEF ShapesKept
<1> QED
  BY <1>1, <1>2, <1>3, <1>4, <1>5, <1>6, <1>7, <1>9 DEF Expected, Kept

\* What is below site-packages is in no place of data files.
LEMMA DataOutside ==
  ASSUME NEW f \in Path, Prefixed(f)
  PROVE  ~ InSite(f)
<1>1. InSite(f) => f[1] = "lib"
  BY PathInSite, SitePath
<1> QED
  BY <1>1 DEF Prefixed, _AMBIGUOUS_PREFIX_ROOTS

LEMMA SameData ==
  ASSUME NEW A \in SUBSET Path, NEW B \in SUBSET Path, \A f \in Path : ~ InSite(f) => (f \in A <=> f \in B)
  PROVE  _prefix_data_files(A) = _prefix_data_files(B)
<1>1. \A f \in Path : Prefixed(f) => (f \in A <=> f \in B)
  BY DataOutside
<1> QED
  BY <1>1 DEF _prefix_data_files, Prefixed

LEMMA SiteOrder ==
  ASSUME NEW p \in Path, NEW q \in Path, IsStrictPrefix(p, q)
  PROVE  IsStrictPrefix(Site(p), Site(q))
<1>1. /\ Len(p) \in Nat /\ Len(q) \in Nat /\ Len(p) < Len(q) /\ \A i \in 1 .. Len(p) : p[i] = q[i]
  BY Strict, PathShape
<1>2. /\ Site(p) \in Path /\ Len(Site(p)) = Len(p) + 2 /\ Site(p)[1] = "lib" /\ Site(p)[2] = "site"
      /\ \A i \in 1 .. Len(p) : Site(p)[i + 2] = p[i]
      /\ Site(q) \in Path /\ Len(Site(q)) = Len(q) + 2 /\ Site(q)[1] = "lib" /\ Site(q)[2] = "site"
      /\ \A i \in 1 .. Len(q) : Site(q)[i + 2] = q[i]
  BY SitePath
<1>3. ASSUME NEW i \in 1 .. Len(p) + 2
      PROVE  Site(p)[i] = Site(q)[i]
  <2>1. CASE i = 1 \/ i = 2
    BY <1>2, <2>1
  <2>2. CASE i > 2
    <3>1. i - 2 \in 1 .. Len(p) /\ i - 2 \in 1 .. Len(q) /\ i = (i - 2) + 2
      BY <1>1, <2>2
    <3>2. Site(p)[(i - 2) + 2] = p[i - 2] /\ Site(q)[(i - 2) + 2] = q[i - 2] /\ p[i - 2] = q[i - 2]
      BY <1>1, <1>2, <3>1
    <3> QED
      BY <3>1, <3>2
  <2> QED
    BY <1>1, <2>1, <2>2
<1>4. Len(Site(p)) < Len(Site(q)) /\ \A i \in 1 .. Len(Site(p)) : Site(p)[i] = Site(q)[i]
  BY <1>1, <1>2, <1>3
<1> QED
  BY <1>2, <1>4, Strict

LEMMA LayoutObserve ==
  ASSUME TreeInv, LayoutInv, TypeOK', Observe
  PROVE  LayoutInv'
<1>1. CASE Fail
  BY <1>1 DEF Fail, LayoutInv
<1>2. CASE ~ Fail
  <2> DEFINE paths == IF Patched THEN preserve_paths ELSE {}
  <2>1. /\ pc = "observe" /\ pc' = "patch" /\ job' = job /\ tree' = tree /\ job \in Jobs
        /\ ~ \E p \in paths : Shape(tree, p) = <<"none">>
        /\ observed' = [p \in paths |-> Shape(tree, p)]
    BY <1>2 DEF Observe, TreeInv, TypeOK
  <2>2. SiteFiles(tree) = Before
    <3>1. SiteFiles(tree) = {p \in Path : Site(p) \in DOMAIN tree}
      BY SiteFilesOf DEF TreeInv, TypeOK
    <3> QED
      BY <2>1, <3>1 DEF TreeInv, TreeExact, Before
  <2>3. SiteFiles(tree)' = Before
    BY <2>1, <2>2 DEF SiteFiles
  <2>4. Flat(SiteFiles(tree))'
    BY <2>1, <2>3, BeforeFlat DEF Flat
  <2>5. ASSUME Patched, NEW p \in preserve_paths
        PROVE  p \in DOMAIN observed' /\ observed'[p] = ShapeOf(Before, p) /\ ShapeOf(Before, p) # <<"none">>
    <3>1. p \in paths
      BY <2>5
    <3>2. Shape(tree, p) = ShapeOf(Before, p)
      BY <2>2, ShapeIs
    <3> HIDE DEF paths
    <3> QED
      BY <2>1, <3>1, <3>2
  <2>6. Before' = Before /\ preserve_paths' = preserve_paths /\ Patched' = Patched
        /\ \A S, p : ShapeOf(S, p)' = ShapeOf(S, p)
    BY <2>1, LayoutKept
  <2>7. \A p : ShapeOf(Before, p)' = ShapeOf(Before, p)
    BY <2>1, <2>6 DEF ShapeOf, Retained, NativesBelow, Excluded
  <2> QED
    BY <2>1, <2>4, <2>5, <2>6, <2>7 DEF LayoutInv
<1> QED
  BY <1>1, <1>2

LEMMA LayoutPatch ==
  ASSUME TreeInv, LayoutInv, TypeOK', ApplyPatch
  PROVE  LayoutInv'
<1> DEFINE patch == job.patches[n]
<1>1. CASE Fail
  BY <1>1 DEF Fail, LayoutInv
<1>2. CASE ~ Fail
  <2>1. /\ pc = "patch" /\ pc' = "patch" /\ job' = job /\ observed' = observed
        /\ Fits(patch) /\ DOMAIN tree' = PatchedFiles(patch)
    BY <1>2 DEF ApplyPatch
  <2>2. /\ SiteFiles(tree) = {p \in Path : Site(p) \in DOMAIN tree}
        /\ SiteFiles(tree') = {p \in Path : Site(p) \in DOMAIN tree'}
    BY SiteFilesOf DEF TreeInv, TypeOK
  <2>3. ASSUME NEW p \in SiteFiles(tree'), NEW q \in SiteFiles(tree'), IsStrictPrefix(p, q)
        PROVE  FALSE
    <3>1. /\ p \in Path /\ Site(p) \in PatchedFiles(patch)
          /\ q \in Path /\ Site(q) \in PatchedFiles(patch)
      BY <2>1, <2>2
    <3>2. IsStrictPrefix(Site(p), Site(q))
      BY <2>3, <3>1, SiteOrder
    <3>3. CASE Site(p) \in DOMAIN tree /\ Site(q) \in DOMAIN tree
      BY <2>1, <2>2, <2>3, <3>1, <3>3 DEF LayoutInv, Flat
    <3>4. CASE Site(p) \notin DOMAIN tree
      <4>1. Site(p) \in DOMAIN patch /\ patch[Site(p)][1] = "add"
        BY <2>1, <3>1, <3>4 DEF Fits, PatchedFiles
      <4> QED
        BY <2>1, <3>1, <3>2, <4>1 DEF Fits
    <3>5. CASE Site(q) \notin DOMAIN tree
      <4>1. Site(q) \in DOMAIN patch /\ patch[Site(q)][1] = "add"
        BY <2>1, <3>1, <3>5 DEF Fits, PatchedFiles
      <4> QED
        BY <2>1, <3>1, <3>2, <4>1 DEF Fits
    <3> QED
      BY <3>3, <3>4, <3>5
  <2>4. Flat(SiteFiles(tree))'
    BY <2>3 DEF Flat, SiteFiles
  <2>5. Before' = Before /\ preserve_paths' = preserve_paths /\ Patched' = Patched
    BY <2>1, LayoutKept
  <2>6. \A p : ShapeOf(Before, p)' = ShapeOf(Before, p)
    BY <2>1, <2>5 DEF ShapeOf, Retained, NativesBelow, Excluded
  <2> QED
    BY <2>1, <2>4, <2>5, <2>6 DEF LayoutInv
<1> QED
  BY <1>1, <1>2

LEMMA LayoutCheck ==
  ASSUME TreeInv, PreserveInv, LayoutInv, TypeOK', CheckPatched
  PROVE  LayoutInv'
<1>1. CASE Fail
  BY <1>1 DEF Fail, LayoutInv
<1>2. CASE ~ Fail
  <2>1. /\ pc = "patch" /\ pc' = "exclude" /\ job' = job /\ tree' = tree /\ job \in Jobs
        /\ \A p \in DOMAIN observed : Shape(tree, p) = observed[p]
        /\ Patched => _prefix_data_files(DOMAIN tree) = Expected
        /\ n - 1 = PatchCount
    <3>1. /\ pc = "patch" /\ pc' = "exclude" /\ job' = job /\ tree' = tree /\ n > PatchCount
          /\ \A p \in DOMAIN observed : Shape(tree, p) = observed[p]
          /\ Patched => _prefix_data_files(DOMAIN tree) = Expected
      BY <1>2 DEF CheckPatched, PatchCount
    <3> QED
      BY <3>1, JobFacts DEF TreeInv, TypeOK
  <2>2. SiteFiles(tree) = Later
    <3>1. SiteFiles(tree) = {p \in Path : Site(p) \in DOMAIN tree}
      BY SiteFilesOf DEF TreeInv, TypeOK
    <3> QED
      BY <2>1, <3>1 DEF TreeInv, TreeExact, Later
  <2>3. Flat(Later)
    BY <2>1, <2>2 DEF LayoutInv
  <2>4. ShapesKept
    <3>1. \A p : Shape(tree, p) = ShapeOf(Later, p)
      BY <2>2, ShapeIs
    <3> QED
      BY <2>1, <3>1 DEF LayoutInv, ShapesKept
  <2>5. _prefix_data_files(DOMAIN tree) = Expected
    BY <2>1, DataThere DEF Steady
  <2>6. Later' = Later /\ ShapesKept' = ShapesKept /\ Expected' = Expected
    BY <2>1, LayoutKept
  <2> QED
    BY <2>1, <2>3, <2>4, <2>5, <2>6 DEF LayoutInv, Flat
<1> QED
  BY <1>1, <1>2

LEMMA LayoutRemove ==
  ASSUME TreeInv, LayoutInv, TypeOK', RemoveExcluded
  PROVE  LayoutInv'
<1>1. CASE Fail
  BY <1>1 DEF Fail, LayoutInv
<1>2. CASE ~ Fail
  <2>1. pc = "exclude" /\ pc' = "rewrite" /\ job' = job /\ tree' = _remove_excluded(tree)
    BY <1>2 DEF RemoveExcluded
  <2>2. \A f : ~ InSite(f) => (f \in DOMAIN tree' <=> f \in DOMAIN tree)
    BY <2>1 DEF _remove_excluded, Keep
  <2>3. DOMAIN tree \subseteq Path /\ DOMAIN tree' \subseteq Path
    BY DEF TreeInv, TypeOK
  <2>4. _prefix_data_files(DOMAIN tree') = _prefix_data_files(DOMAIN tree)
    BY <2>2, <2>3, SameData
  <2>5. Later' = Later /\ ShapesKept' = ShapesKept /\ Expected' = Expected
    BY <2>1, LayoutKept
  <2> QED
    BY <2>1, <2>4, <2>5 DEF LayoutInv, Flat
<1> QED
  BY <1>1, <1>2

LEMMA LayoutRewrite ==
  ASSUME TreeInv, LayoutInv, TypeOK', RewriteRecord
  PROVE  LayoutInv'
<1>1. CASE Fail
  BY <1>1 DEF Fail, LayoutInv
<1>2. CASE ~ Fail
  <2>1. /\ pc = "rewrite" /\ pc' = "compile" /\ job' = job
        /\ DOMAIN tree' = DOMAIN tree
        /\ job.exclude # {} => RecordFile \in DOMAIN tree
    <3>1. pc = "rewrite"
      BY DEF RewriteRecord
    <3> QED
      BY <1>2, <3>1, NothingStale DEF RewriteRecord, Keep
  <2>2. Kept
    <3> DEFINE r == <<DistInfo, "RECORD">>
    <3>1. r \in Path /\ ~ InCache(r)
      BY MetadataFiles, MetadataReal
    <3>2. job.exclude # {} => Site(r) \in DOMAIN tree
      BY <2>1 DEF RecordFile
    <3> HIDE DEF r
    <3>3. job.exclude # {} => After(r, PatchCount) /\ ~ Excluded(r)
      BY <2>1, <3>1, <3>2 DEF TreeInv, TreeExact
    <3>4. job.exclude # {} => r \in Left
      BY <3>1, <3>3 DEF Left, Later
    <3> QED
      BY <3>4 DEF Kept, r
  <2>3. Later' = Later /\ ShapesKept' = ShapesKept /\ Expected' = Expected /\ Kept' = Kept
    BY <2>1, LayoutKept
  <2> QED
    BY <2>1, <2>2, <2>3 DEF LayoutInv, Flat
<1> QED
  BY <1>1, <1>2

LEMMA LayoutCompile ==
  ASSUME TreeInv, LayoutInv, TypeOK', Compile
  PROVE  LayoutInv'
<1>1. pc = "compile" /\ pc' = "done" /\ job' = job /\ DOMAIN tree \subseteq Path /\ DOMAIN tree' \subseteq Path
  BY DEF Compile, TreeInv, TypeOK
<1>2. _prefix_data_files(DOMAIN tree') = _prefix_data_files(DOMAIN tree)
  BY <1>1, CompiledOutside, SameData
<1>3. \A p \in Path : Site(p) \in DOMAIN tree <=> p \in Later /\ ~ Excluded(p)
  BY <1>1 DEF TreeInv, TreeExact, Later
<1>4. ASSUME NEW p \in Path, ~ InCache(p)
      PROVE  Site(p) \in DOMAIN tree' <=> p \in Later /\ ~ Excluded(p)
  <2>1. CASE job.compile
    <3>1. ~ Made(p)
      BY <1>4, MadePath, CacheIsInCache
    <3> QED
      BY <1>3, <2>1, <3>1, CompiledTree
  <2>2. CASE ~ job.compile
    BY <1>3, <2>2 DEF Compile
  <2> QED
    BY <2>1, <2>2
<1>5. SiteFiles(tree') = {p \in Path : Site(p) \in DOMAIN tree'}
  BY <1>1, SiteFilesOf
<1>6. {p \in SiteFiles(tree') : ~ InCache(p)} = Left
  BY <1>4, <1>5 DEF Left, Later
<1>7. SiteFiles(tree)' = SiteFiles(tree')
  BY DEF SiteFiles
<1>8. /\ Later' = Later /\ Left' = Left /\ ShapesKept' = ShapesKept /\ Expected' = Expected
      /\ Kept' = Kept
  BY <1>1, LayoutKept
<1> QED
  BY <1>1, <1>2, <1>6, <1>7, <1>8 DEF LayoutInv, Flat

LEMMA LayoutNext == TreeInv /\ PreserveInv /\ LayoutInv /\ [Next]_vars => LayoutInv'
<1> SUFFICES ASSUME TreeInv, PreserveInv, LayoutInv, [Next]_vars PROVE LayoutInv'
  OBVIOUS
<1>1. TypeOK'
  BY TypeNext DEF TreeInv
<1>2. CASE Install \/ EntryPoints \/ WriteRecord
  <2>1. pc' \in {"install", "record", "observe"}
    BY <1>2 DEF Install, EntryPoints, WriteRecord
  <2> QED
    BY <2>1 DEF LayoutInv
<1>3. CASE UNCHANGED vars
  <2>1. job' = job /\ tree' = tree /\ observed' = observed /\ pc' = pc
    BY <1>3 DEF vars
  <2>2. /\ Before' = Before /\ Later' = Later /\ Left' = Left
        /\ preserve_paths' = preserve_paths /\ Expected' = Expected /\ Patched' = Patched
        /\ ShapesKept' = ShapesKept /\ Kept' = Kept
    BY <2>1, LayoutKept
  <2>3. SiteFiles(tree)' = SiteFiles(tree) /\ \A p : ShapeOf(Before, p)' = ShapeOf(Before, p)
    BY <2>1, <2>2 DEF SiteFiles, ShapeOf, Retained, NativesBelow, Excluded
  <2> QED
    BY <2>1, <2>2, <2>3 DEF LayoutInv, Flat
<1> QED
  BY <1>1, <1>2, <1>3, LayoutObserve, LayoutPatch, LayoutCheck, LayoutRemove, LayoutRewrite,
     LayoutCompile DEF Next, Terminating

\* The tree of an install that is done, and what analysis was told of.
LEMMA LayoutDone ==
  ASSUME job \in Jobs, LayoutInv
  PROVE  LayoutHolds
<1> SUFFICES ASSUME pc = "done"
             PROVE  LayoutHolds
  BY DEF LayoutHolds
<1>1. {p \in SiteFiles(tree) : ~ InCache(p)} = Left
  BY DEF LayoutInv
<1>2. Faithful(Told, Left)
  BY ToldFaithful DEF LayoutInv
<1>3. Layout = WheelRecord(Told, DataFiles)
  BY DEF Layout, Told, Excluded
<1> DEFINE told == Layout
           there == WheelRecord(Left, {})
           dirs == told.top_level_dirs \cup told.namespace_dirs \cup told.regular_roots
           real(S) == {p \in S : ~ InCache(p)}
<1>4. /\ real(told.top_levels) \subseteq there.top_levels
      /\ real(told.top_level_dirs) \subseteq there.top_level_dirs
      /\ real(told.namespace_top_levels) = there.namespace_top_levels \cap told.top_levels
      /\ real(told.namespace_entries) \subseteq there.namespace_entries
      /\ real(told.namespace_dirs) \subseteq there.namespace_dirs
      /\ real(told.regular_roots) \subseteq there.regular_roots
      /\ real(told.native_roots) = there.native_roots \cap dirs
  BY <1>2, <1>3, ToldIsThere
<1>5. _prefix_data_files(told.data_files) = _prefix_data_files(DOMAIN tree)
  BY <1>3 DEF LayoutInv, Expected, WheelRecord
<1> QED
  BY <1>1, <1>4, <1>5 DEF LayoutHolds

\* What analysis told venv assembly of the wheel before it was unpacked
\* (rule.bzl:230-240) is true of the tree: whatever the globs and the patches
\* are, the checks around them (unpack.py:531-659) refuse every other install.
THEOREM LayoutHoldsCorrect == Spec => []LayoutHolds
<1>1. Init => TreeInv /\ PreserveInv /\ LayoutInv
  BY TreeInit, PreserveInit DEF Init, LayoutInv
<1>2. TreeInv /\ PreserveInv /\ LayoutInv /\ [Next]_vars => TreeInv' /\ PreserveInv' /\ LayoutInv'
  BY TreeNext, PreserveNext, LayoutNext
<1>3. TreeInv /\ LayoutInv => LayoutHolds
  BY LayoutDone DEF TreeInv, TypeOK
<1> QED
  BY <1>1, <1>2, <1>3, PTL DEF Spec
=============================================================================
