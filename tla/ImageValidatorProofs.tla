------------------------ MODULE ImageValidatorProofs ------------------------
(***************************************************************************)
(* The verdict of the image validator is that of the tars, for every list  *)
(* of rows, every set of exclusions and every file system, and its advice  *)
(* is consistent for packages of any number, files and sizes.              *)
(***************************************************************************)
EXTENDS ImageValidator, SequenceTheorems, FiniteSetTheorems, WellFoundedInduction, TLAPS

-----------------------------------------------------------------------------
(* Rows. *)

LEMMA SourceSeq ==
  ASSUME NEW s \in DOMAIN Fs
  PROVE  s \in Seq(STRING) /\ Len(s) \in Nat \ {0} /\ Fs[s].is \in {"file", "link"}
BY FsAssumption

\* The validator leaves out the rows that the awk script leaves out.
LEMMA SkipMatchesAwk ==
  ASSUME NEW s \in DOMAIN Fs
  PROVE  _skip_match(s) <=> path_in_set(s, job.skip_paths, job.skip_dirs)
<1>1. s \in Seq(STRING) /\ Len(s) \in Nat \ {0}
  BY SourceSeq
<1>2. SubSeq(s, 1, Len(s)) = s
  BY <1>1, SubSeqFull
<1>3. ASSUME NEW n \in 1 .. Len(s) - 1
      PROVE  SubSeq(s, 1, n) # << >> /\ n # Len(s) /\ n \in 0 .. Len(s) - 1
  <2>1. Len(SubSeq(s, 1, n)) = n
    <3>1. \A i \in 1 .. n : s[i] \in STRING
      BY <1>1
    <3>2. Len(SubSeq(s, 1, n)) = IF 1 <= n THEN n - 1 + 1 ELSE 0
      BY <3>1, SubSeqProperties
    <3> QED BY <1>1, <3>2
  <2> QED BY <1>1, <2>1
<1>4. SubSeq(s, 1, 0) = << >>
  BY SubSeqEmpty
<1>5. Above(s) \ {<< >>} = {SubSeq(s, 1, n) : n \in 1 .. Len(s) - 1}
  <2>1. \A n \in 0 .. Len(s) - 1 : n = 0 \/ n \in 1 .. Len(s) - 1
    BY <1>1
  <2> QED BY <1>3, <1>4, <2>1 DEF Above
<1>6. path_in_set(s, job.skip_paths, job.skip_dirs) <=> \/ s \in job.skip_paths
                         \/ \E n \in 1 .. Len(s) - 1 : SubSeq(s, 1, n) \in job.skip_dirs
  <2>1. \A n \in 1 .. Len(s) : n = Len(s) \/ n \in 1 .. Len(s) - 1
    BY <1>1
  <2>2. \A n \in 1 .. Len(s) - 1 : n \in 1 .. Len(s) /\ n # Len(s)
    BY <1>1
  <2>3. Len(s) \in 1 .. Len(s)
    BY <1>1
  <2> QED BY <1>2, <2>1, <2>2, <2>3 DEF path_in_set
<1> QED BY <1>5, <1>6 DEF _skip_match

\* What would stand in a tar for a row as a mapper wrote it.
Written(row) == Shown(row, row.mode)
RowsDisagree ==
  \E m, n \in InTars : IF Dest(m) = Dest(n) THEN Written(Rows[m]) # Written(Rows[n])
                       ELSE Dest(m) \in Above(Dest(n))

\* Rows that the validator takes for the same show the same.
LEMMA SameShown ==
  ASSUME NEW r \in Row, NEW s \in Row, r.kind # None, s.kind # None,
         Same(Entry(r), Entry(s))
  PROVE  Written(r) = Written(s) /\ r.type = s.type
<1>1. /\ Entry(r).kind = r.kind /\ Entry(r).source = r.source
      /\ Entry(r).type = r.type /\ Entry(r).mode = r.mode
      /\ Entry(s).kind = s.kind /\ Entry(s).source = s.source
      /\ Entry(s).type = s.type /\ Entry(s).mode = s.mode
  BY DEF Entry, Row
<1>2. CASE Entry(r) = Entry(s)
  BY <1>1, <1>2 DEF Written, Shown
<1>3. CASE /\ r.type = s.type /\ r.mode = s.mode /\ r.type = "file"
           /\ _comparable_file(Entry(r)) # None
           /\ _comparable_file(Entry(r)) = _comparable_file(Entry(s))
  <2>1. ASSUME NEW q \in Row, q.type = "file", _comparable_file(Entry(q)) # None
        PROVE  Written(q) = [is |-> "file", mode |-> q.mode,
                           what |-> _comparable_file(Entry(q)), of |-> << >>]
    <3>1. Entry(q).kind = q.kind /\ Entry(q).source = q.source
      BY DEF Entry, Row
    <3>2. CASE q.kind = "contents"
      BY <2>1, <3>1, <3>2 DEF Written, Shown, _comparable_file
    <3>3. CASE q.kind = "content" /\ Fs[q.source].is = "file"
      BY <2>1, <3>1, <3>3 DEF Written, Shown, _comparable_file, _peel_sandbox_symlink
    <3> QED BY <2>1, <3>1, <3>2, <3>3 DEF _comparable_file, _peel_sandbox_symlink
  <2> QED BY <1>3, <2>1
<1>4. CASE /\ r.type = s.type /\ r.mode = s.mode
           /\ _comparable_symlink_target(Entry(r)) # None
           /\ _comparable_symlink_target(Entry(r)) = _comparable_symlink_target(Entry(s))
  <2>1. ASSUME NEW q \in Row, _comparable_symlink_target(Entry(q)) # None
        PROVE  Written(q) = [is |-> "link", mode |-> q.mode,
                           what |-> _comparable_symlink_target(Entry(q)), of |-> << >>]
    <3>1. Entry(q).kind = q.kind /\ Entry(q).source = q.source
      BY DEF Entry, Row
    <3> QED BY <2>1, <3>1 DEF Written, Shown, _comparable_symlink_target, _peel_sandbox_symlink
  <2> QED BY <1>4, <2>1
<1> QED BY <1>1, <1>2, <1>3, <1>4 DEF Same

\* Rows of one type that show the same at one destination are the same.
LEMMA ShownSame ==
  ASSUME NEW r \in Row, NEW s \in Row, r.kind # None, s.kind # None,
         Destination(r.dest) = Destination(s.dest), r.type = s.type, Written(r) = Written(s)
  PROVE  Same(Entry(r), Entry(s))
<1>1. ASSUME NEW q \in Row
      PROVE  /\ Entry(q) = [dest |-> Destination(q.dest), kind |-> q.kind, mode |-> q.mode,
                            source |-> q.source, type |-> q.type]
             /\ q.source \in DOMAIN Fs /\ q.type \in {"file", "link"}
             /\ q.kind \in {"contents", "content", "link", None}
             /\ q.kind # None => (q.type = "link") = (q.kind = "link")
  <2>1. q = [dest |-> q.dest, kind |-> q.kind, mode |-> q.mode, source |-> q.source, type |-> q.type]
    BY DEF Row
  <2>2. Entry(q) = [dest |-> Destination(q.dest), kind |-> q.kind, mode |-> q.mode,
                    source |-> q.source, type |-> q.type]
    BY <2>1 DEF Entry
  <2> QED BY <2>2 DEF Row
<1>2. /\ Entry(r).type = r.type /\ Entry(r).mode = r.mode
      /\ Entry(s).type = s.type /\ Entry(s).mode = s.mode
  BY <1>1
<1>3. r.mode = s.mode /\ Written(r).what = Written(s).what /\ Written(r).is = Written(s).is
      /\ Written(r).of = Written(s).of
  BY DEF Written, Shown
<1>4. CASE Written(r).what = None
  <2>1. <<r.kind, r.source>> = <<s.kind, s.source>>
    BY <1>3, <1>4 DEF Written, Shown
  <2> QED BY <1>1, <1>3, <2>1 DEF Same
<1>5. CASE Written(r).what # None /\ Written(r).is = "link"
  <2>1. ASSUME NEW q \in Row, q.kind # None, Written(q).what # None, Written(q).is = "link"
        PROVE  _comparable_symlink_target(Entry(q)) = Written(q).what
    <3>1. q.kind # "contents" /\ Fs[q.source].is = "link"
      BY <1>1, <2>1 DEF Written, Shown
    <3> QED BY <1>1, <2>1, <3>1 DEF Written, Shown, _comparable_symlink_target, _peel_sandbox_symlink
  <2>2. /\ _comparable_symlink_target(Entry(r)) # None
        /\ _comparable_symlink_target(Entry(r)) = _comparable_symlink_target(Entry(s))
    BY <1>3, <1>5, <2>1
  <2> QED BY <1>2, <1>3, <2>2 DEF Same
<1>6. CASE Written(r).what # None /\ Written(r).is # "link"
  <2>1. ASSUME NEW q \in Row, q.kind # None, Written(q).what # None, Written(q).is # "link"
        PROVE  q.type = "file" /\ _comparable_file(Entry(q)) = Written(q).what
    <3>1. q.kind = "contents" \/ Fs[q.source].is = "file"
      BY <1>1, <2>1, SourceSeq DEF Written, Shown
    <3>2. q.type = "file" /\ q.kind \in {"contents", "content"}
      BY <1>1, <2>1, <3>1 DEF Written, Shown
    <3>3. Written(q).what = Fs[q.source].behind
      BY <1>1, <2>1, <3>1, <3>2 DEF Written, Shown
    <3>4. _comparable_file(Entry(q)) = Fs[q.source].behind
      <4>1. Entry(q).kind = q.kind /\ Entry(q).source = q.source
        BY <1>1
      <4>2. CASE q.kind = "contents"
        BY <4>1, <4>2 DEF _comparable_file
      <4>3. CASE q.kind = "content" /\ Fs[q.source].is = "file"
        BY <4>1, <4>3 DEF _comparable_file, _peel_sandbox_symlink
      <4> QED BY <3>1, <3>2, <4>2, <4>3
    <3> QED BY <3>2, <3>3, <3>4
  <2>2. /\ r.type = "file" /\ _comparable_file(Entry(r)) # None
        /\ _comparable_file(Entry(r)) = _comparable_file(Entry(s))
    BY <1>3, <1>6, <2>1
  <2> QED BY <1>2, <1>3, <2>2 DEF Same
<1> QED BY <1>4, <1>5, <1>6

-----------------------------------------------------------------------------
(* The inductive invariant.                                                *)

\* The rows of the tars that were read.
Read == {n \in InTars : n < at}

Agreed ==
  \A m, n \in Read :
    IF Dest(m) = Dest(n) THEN Written(Rows[m]) = Written(Rows[n]) /\ Rows[m].type = Rows[n].type
    ELSE Dest(m) \notin Above(Dest(n))

\* The tables hold the destinations that were read, and one row for each.
RowsRead ==
  /\ at \in 1 .. Len(Rows) + 1
  /\ skipping = (\A m \in 1 .. at - 1 : Rows[m] # Marker)
  /\ \A m \in 1 .. at - 1 : Rows[m] # Marker => Rows[m].kind # None /\ Dest(m) # Escapes
  /\ DOMAIN paths = {Dest(n) : n \in Read}
  /\ \A d \in DOMAIN paths : \E n \in Read : d = Dest(n) /\ paths[d] = Entry(Rows[n])
  /\ descendants = UNION {Above(Dest(n)) : n \in Read}
  /\ Agreed

Judged ==
  /\ Malformed \/ RowsDisagree \/ Unmarked => collision # None
  /\ collision # None => Malformed \/ RowsDisagree \/ Unmarked \/ Mixed

IInv ==
  /\ job \in Jobs
  /\ stage = "rows" => RowsRead
  /\ stage # "rows" => Judged
  /\ stage \notin {"rows", "layers"} => ("collision" \in messages <=> collision # None)
  /\ Ended => (stage = "exit 1" <=> messages \cap Errors # {})

\* Where the rows as they were written disagree and the tars do not, or the
\* other way round, the tar of a group has rewritten a mode.
LEMMA WrittenAndShown ==
  ASSUME NEW m \in InTars, NEW n \in InTars, Dest(m) = Dest(n)
  PROVE  /\ Disagree(m, n) /\ ~Recast(m, n) => Written(Rows[m]) # Written(Rows[n])
         /\ Written(Rows[m]) # Written(Rows[n]) =>
              Disagree(m, n) \/ (Recast(m, n) /\ Rows[m].mode # Rows[n].mode)
<1>1. \A r, s, a, b : Shown(r, a) = Shown(s, b) <=> a = b /\ Shown(r, "0755") = Shown(s, "0755")
  BY DEF Shown
<1> DEFINE alike == Shown(Rows[m], "0755") = Shown(Rows[n], "0755")
<1>2. /\ Written(Rows[m]) = Written(Rows[n]) <=> Rows[m].mode = Rows[n].mode /\ alike
      /\ Disagree(m, n) <=> ~(Mode(m) = Mode(n) /\ alike)
      /\ Recast(m, n) <=> {m, n} \cap Rewritten # {} /\ alike
  BY <1>1 DEF Written, Disagree, Recast
<1>3. {m, n} \cap Rewritten = {} => Mode(m) = Rows[m].mode /\ Mode(n) = Rows[n].mode
  BY DEF Rewritten
<1> QED BY <1>2, <1>3

LEMMA IInvImplies == IInv => CollisionsExact
<1> SUFFICES ASSUME IInv, Ended PROVE CollisionsExact
  BY DEF CollisionsExact
<1>1. /\ Judged
      /\ stage = "exit 1" <=> messages \cap Errors # {}
      /\ "collision" \in messages <=> collision # None
  BY DEF IInv, Ended
<1>2. (\E m, n \in InTars : Disagree(m, n) /\ ~Recast(m, n)) => RowsDisagree
  <2>1. ASSUME NEW m \in InTars, NEW n \in InTars, Disagree(m, n), ~Recast(m, n)
        PROVE  RowsDisagree
    <3>1. CASE Dest(m) = Dest(n)
      BY <2>1, <3>1, WrittenAndShown DEF RowsDisagree
    <3>2. CASE Dest(m) # Dest(n)
      BY <2>1, <3>2 DEF RowsDisagree, Disagree
    <3> QED BY <3>1, <3>2
  <2> QED BY <2>1
<1>3. RowsDisagree => \E m, n \in InTars : Disagree(m, n) \/ (Recast(m, n) /\ Rows[m].mode # Rows[n].mode)
  <2>1. ASSUME NEW m \in InTars, NEW n \in InTars,
               IF Dest(m) = Dest(n) THEN Written(Rows[m]) # Written(Rows[n])
               ELSE Dest(m) \in Above(Dest(n))
        PROVE  Disagree(m, n) \/ (Recast(m, n) /\ Rows[m].mode # Rows[n].mode)
    <3>1. CASE Dest(m) = Dest(n)
      BY <2>1, <3>1, WrittenAndShown
    <3>2. CASE Dest(m) # Dest(n)
      BY <2>1, <3>2 DEF Disagree
    <3> QED BY <3>1, <3>2
  <2> QED BY <2>1 DEF RowsDisagree
<1>4. "collision" \in messages => stage = "exit 1"
  BY <1>1 DEF Errors
<1>5. Malformed \/ Unmarked \/ RowsDisagree => stage = "exit 1" /\ "collision" \in messages
  BY <1>1, <1>4 DEF Judged
<1>6. "collision" \in messages => Malformed \/ Unmarked \/ Mixed \/ RowsDisagree
  BY <1>1 DEF Judged
<1> QED BY <1>2, <1>3, <1>5, <1>6 DEF CollisionsExact

LEMMA RowIsRow ==
  ASSUME job \in Jobs, NEW n \in 1 .. Len(Rows)
  PROVE  /\ Rows \in Seq(Row \cup {Marker}) /\ DOMAIN Rows = 1 .. Len(Rows) /\ Len(Rows) \in Nat
         /\ Rows[n] # Marker => Rows[n] \in Row /\ Rows[n].source \in DOMAIN Fs
<1>1. Rows \in Seq(Row \cup {Marker})
  BY RowsAssumption DEF Rows
<1>2. \A r \in Row : r.source \in DOMAIN Fs
  BY DEF Row
<1> QED BY <1>1, <1>2

LEMMA InitIInv == Init => IInv
<1> SUFFICES ASSUME Init PROVE IInv
  OBVIOUS
<1>1. job \in Jobs /\ Rows \in Seq(Row \cup {Marker})
  BY RowsAssumption DEF Init, Rows
<1>2. Len(Rows) \in Nat /\ at = 1
  BY <1>1 DEF Init
<1>3. Read = {}
  BY <1>1, <1>2 DEF Read, InTars
<1>4. RowsRead
  BY <1>2, <1>3 DEF RowsRead, Agreed, Init
<1> QED BY <1>1, <1>4 DEF Init, IInv, Ended

\* What the properties say of the rows depends on the job alone.
LEMMA JobStays ==
  ASSUME job' = job
  PROVE  /\ Rows' = Rows /\ InTars' = InTars
         /\ Malformed' = Malformed /\ RowsDisagree' = RowsDisagree /\ Mixed' = Mixed /\ Unmarked' = Unmarked
<1>1. Rows' = Rows
  BY DEF Rows
<1>2. InTars' = InTars
  BY <1>1 DEF InTars, InTar, path_in_set
<1> QED BY <1>1, <1>2 DEF Malformed, RowsDisagree, Mixed, Unmarked, Dest

\* At the end every row of a tar was read.
LEMMA EndRowsStep == ASSUME IInv, EndRows PROVE IInv'
<1>1. /\ job' = job /\ job \in Jobs /\ stage = "rows" /\ stage' = "layers" /\ RowsRead /\ at > Len(Rows)
  BY DEF IInv, EndRows
<1>2. Rows \in Seq(Row \cup {Marker}) /\ Len(Rows) \in Nat /\ DOMAIN Rows = 1 .. Len(Rows)
  BY <1>1, RowsAssumption DEF Rows
<1>3. at = Len(Rows) + 1 /\ 1 .. at - 1 = DOMAIN Rows
  BY <1>1, <1>2 DEF RowsRead
<1>4. Read = InTars
  BY <1>2, <1>3 DEF Read, InTars
<1>5. ~Malformed /\ ~RowsDisagree
  BY <1>1, <1>3, <1>4 DEF RowsRead, Agreed, Malformed, RowsDisagree
<1>6. skipping <=> Marker \notin ToSet(Rows)
  BY <1>1, <1>3 DEF RowsRead, ToSet
<1>7. collision' # None <=> Unmarked
  BY <1>1, <1>6, NoneAssumption DEF EndRows, Unmarked
<1>8. Judged'
  BY <1>1, <1>5, <1>7, JobStays DEF Judged
<1> QED BY <1>1, <1>8 DEF IInv, Ended

LEMMA ReadMarkerStep == ASSUME IInv, ReadMarker PROVE IInv'
<1>1. /\ job' = job /\ job \in Jobs /\ stage = "rows" /\ stage' = "rows" /\ RowsRead
      /\ at <= Len(Rows) /\ Rows[at] = Marker /\ at' = at + 1 /\ skipping' = FALSE
      /\ paths' = paths /\ descendants' = descendants
  BY DEF IInv, ReadMarker
<1>2. Len(Rows) \in Nat /\ at \in 1 .. Len(Rows)
  BY <1>1, RowsAssumption DEF Rows, RowsRead
<1>3. at' \in 1 .. Len(Rows) + 1 /\ \A m \in 1 .. at' - 1 : m \in 1 .. at - 1 \/ m = at
  BY <1>1, <1>2
<1>4. Rows' = Rows /\ InTars' = InTars
  BY <1>1, JobStays
<1>5. Read' = Read
  BY <1>1, <1>2, <1>3, <1>4 DEF Read, InTars
<1>6. RowsRead'
  <2>1. (at \in 1 .. Len(Rows) + 1)' /\ at \in 1 .. at' - 1
    BY <1>1, <1>2, <1>3, <1>4
  <2>2. (skipping = (\A m \in 1 .. at - 1 : Rows[m] # Marker))'
    BY <1>1, <1>4, <2>1
  <2>3. (\A m \in 1 .. at - 1 : Rows[m] # Marker => Rows[m].kind # None /\ Dest(m) # Escapes)'
    BY <1>1, <1>3, <1>4 DEF RowsRead, Dest
  <2>4. Agreed'
    BY <1>1, <1>4, <1>5 DEF RowsRead, Agreed, Dest
  <2>5. (DOMAIN paths = {Dest(n) : n \in Read})' /\ (descendants = UNION {Above(Dest(n)) : n \in Read})'
    BY <1>1, <1>4, <1>5 DEF RowsRead, Dest
  <2>6. (\A d \in DOMAIN paths : \E n \in Read : d = Dest(n) /\ paths[d] = Entry(Rows[n]))'
    BY <1>1, <1>4, <1>5 DEF RowsRead, Dest
  <2> QED BY <2>1, <2>2, <2>3, <2>4, <2>5, <2>6, Zenon DEF RowsRead
<1> QED BY <1>1, <1>6 DEF IInv, Ended

\* What the two steps that read a row and go on have in common.
LEMMA RowGoesOn ==
  ASSUME job \in Jobs, RowsRead, job' = job, at <= Len(Rows), Rows[at] # Marker,
         Rows[at].kind # None, Dest(at) # Escapes, at' = at + 1, skipping' = skipping
  PROVE  /\ (at \in 1 .. Len(Rows) + 1)'
         /\ (skipping = (\A m \in 1 .. at - 1 : Rows[m] # Marker))'
         /\ (\A m \in 1 .. at - 1 : Rows[m] # Marker => Rows[m].kind # None /\ Dest(m) # Escapes)'
         /\ at \in InTars <=> ~(skipping /\ _skip_match(Rows[at].source))
         /\ Read' = IF at \in InTars THEN Read \cup {at} ELSE Read
         /\ at \notin Read
<1>1. /\ Rows \in Seq(Row \cup {Marker}) /\ Len(Rows) \in Nat
      /\ DOMAIN Rows = 1 .. Len(Rows) /\ at \in 1 .. Len(Rows)
  BY RowsAssumption DEF Rows, RowsRead
<1>2. Rows' = Rows /\ InTars' = InTars
  BY JobStays
<1>3. /\ at' \in 1 .. Len(Rows) + 1 /\ at \in 1 .. at' - 1
      /\ \A m \in 1 .. at' - 1 : m \in 1 .. at - 1 \/ m = at
      /\ \A m \in 1 .. at - 1 : m \in 1 .. at' - 1
  BY <1>1
<1>4. (skipping = (\A m \in 1 .. at - 1 : Rows[m] # Marker))'
  BY <1>2, <1>3 DEF RowsRead
<1>5. (\A m \in 1 .. at - 1 : Rows[m] # Marker => Rows[m].kind # None /\ Dest(m) # Escapes)'
  BY <1>2, <1>3 DEF RowsRead, Dest
<1>6. at \in InTars <=> ~(skipping /\ _skip_match(Rows[at].source))
  <2>1. Rows[at].source \in DOMAIN Fs
    BY <1>1, RowIsRow
  <2>2. skipping <=> ~ \E m \in 1 .. at : Rows[m] = Marker
    <3>1. \A m \in 1 .. at : m \in 1 .. at - 1 \/ m = at
      BY <1>1
    <3>2. \A m \in 1 .. at - 1 : m \in 1 .. at
      BY <1>1
    <3> QED BY <3>1, <3>2 DEF RowsRead
  <2> QED BY <1>1, <2>1, <2>2, SkipMatchesAwk DEF InTars, InTar
<1>7. Read' = IF at \in InTars THEN Read \cup {at} ELSE Read
  BY <1>1, <1>2 DEF Read, InTars
<1>8. at \notin Read
  BY <1>1 DEF Read
<1> QED BY <1>2, <1>3, <1>4, <1>5, <1>6, <1>7, <1>8

LEMMA ReadRowStep == ASSUME IInv, ReadRow PROVE IInv'
<1> DEFINE row == Rows[at]
           dest == Destination(row.dest)
           verdict == Verdict(row)
<1>1. /\ job' = job /\ job \in Jobs /\ stage = "rows" /\ RowsRead
      /\ at <= Len(Rows) /\ row # Marker /\ at' = at + 1 /\ skipping' = skipping
      /\ paths' = IF verdict = "new"
                  THEN [d \in DOMAIN paths \cup {dest} |-> IF d = dest THEN Entry(row) ELSE paths[d]]
                  ELSE paths
      /\ descendants' = IF verdict = "new" THEN descendants \cup Above(dest) ELSE descendants
      /\ verdict \in {"new", "same", "skipped"} => stage' = stage
      /\ verdict \notin {"new", "same", "skipped"} => stage' = "layers" /\ collision' = verdict
  BY DEF IInv, ReadRow
<1>2. at \in 1 .. Len(Rows) /\ Rows' = Rows /\ DOMAIN Rows = 1 .. Len(Rows)
  BY <1>1, JobStays, RowsAssumption DEF RowsRead, Rows
<1>3. row \in Row /\ dest = Dest(at)
  BY <1>1, <1>2, RowIsRow DEF Dest
<1>4. ASSUME stage' = "layers", collision' # None, Malformed \/ RowsDisagree \/ Mixed
      PROVE  IInv'
  <2>1. Judged'
    BY <1>1, <1>4, JobStays DEF Judged
  <2> QED BY <1>1, <1>4, <2>1 DEF IInv, Ended
<1>5. ASSUME stage' = stage, RowsRead'
      PROVE  IInv'
  BY <1>1, <1>5 DEF IInv, Ended
<1>6. CASE dest = Escapes
  <2>1. verdict = "escapes" /\ Malformed
    BY <1>1, <1>2, <1>3, <1>6 DEF Verdict, Malformed
  <2> QED BY <1>1, <1>4, <2>1, NoneAssumption
<1>7. CASE dest # Escapes /\ row.kind = None
  <2>1. verdict = "invalid" /\ Malformed
    BY <1>1, <1>2, <1>3, <1>7 DEF Verdict, Malformed
  <2> QED BY <1>1, <1>4, <2>1, NoneAssumption
<1>8. CASE dest # Escapes /\ row.kind # None /\ at \notin InTars
  <2>1. skipping /\ _skip_match(row.source)
    BY <1>1, <1>3, <1>8, RowGoesOn
  <2>2. verdict = "skipped"
    BY <1>8, <2>1 DEF Verdict
  <2>3. Read' = Read
    BY <1>1, <1>3, <1>8, RowGoesOn
  <2>4. Agreed'
    BY <1>1, <1>2, <2>3 DEF RowsRead, Agreed, Dest
  <2>5. RowsRead'
    BY <1>1, <1>2, <1>3, <1>8, <2>2, <2>3, <2>4, RowGoesOn DEF RowsRead, Dest
  <2> QED BY <1>1, <1>5, <2>2, <2>5
<1>9. CASE dest # Escapes /\ row.kind # None /\ at \in InTars
  <2>1. /\ verdict = IF dest \in DOMAIN paths
                      THEN IF Same(paths[dest], Entry(row)) THEN "same" ELSE "collides"
                      ELSE IF Above(dest) \cap DOMAIN paths # {} \/ dest \in descendants THEN "collides"
                      ELSE "new"
        /\ Read' = Read \cup {at} /\ at \notin Read
    <3>1. ~(skipping /\ _skip_match(row.source))
      BY <1>1, <1>3, <1>9, RowGoesOn
    <3>2. Read' = Read \cup {at} /\ at \notin Read
      BY <1>1, <1>3, <1>9, RowGoesOn
    <3> QED BY <1>9, <3>1, <3>2 DEF Verdict
  <2>2. ASSUME NEW n \in Read
        PROVE  n \in InTars /\ Rows[n] \in Row /\ Rows[n].kind # None
    <3>1. n \in 1 .. at - 1 /\ n \in 1 .. Len(Rows) /\ Rows[n] # Marker /\ n \in InTars
      BY <1>2 DEF Read, InTars
    <3> QED BY <1>1, <3>1, RowIsRow DEF RowsRead
  <2>3. CASE verdict = "new"
    <3>1. dest \notin DOMAIN paths /\ dest \notin descendants /\ Above(dest) \cap DOMAIN paths = {}
      BY <2>1, <2>3
    <3>2. \A n \in Read : Dest(n) # Dest(at) /\ Dest(at) \notin Above(Dest(n)) /\ Dest(n) \notin Above(Dest(at))
      BY <1>1, <1>3, <3>1 DEF RowsRead
    <3>3. Agreed'
      BY <1>1, <1>2, <2>1, <3>2 DEF RowsRead, Agreed, Dest
    <3>4. /\ DOMAIN paths' = DOMAIN paths \cup {dest} /\ paths'[dest] = Entry(row)
          /\ \A d \in DOMAIN paths : paths'[d] = paths[d]
      BY <1>1, <2>3, <3>1
    <3>5. DOMAIN paths' = {Dest(n) : n \in Read}'
      BY <1>1, <1>2, <1>3, <2>1, <3>4 DEF RowsRead, Dest
    <3>6. (\A d \in DOMAIN paths : \E n \in Read : d = Dest(n) /\ paths[d] = Entry(Rows[n]))'
      BY <1>1, <1>2, <1>3, <2>1, <3>4 DEF RowsRead, Dest
    <3>7. descendants' = UNION {Above(Dest(n)) : n \in Read}'
      BY <1>1, <1>2, <1>3, <2>1, <2>3 DEF RowsRead, Dest
    <3>8. RowsRead'
      BY <1>1, <1>3, <1>9, <3>3, <3>5, <3>6, <3>7, RowGoesOn DEF RowsRead
    <3> QED BY <1>1, <1>5, <2>3, <3>8
  <2>4. CASE dest \in DOMAIN paths
    <3>1. PICK n \in Read : dest = Dest(n) /\ paths[dest] = Entry(Rows[n])
      BY <1>1, <2>4 DEF RowsRead
    <3>2. /\ Rows[n] \in Row /\ Rows[n].kind # None /\ n \in InTars
          /\ Destination(Rows[n].dest) = Destination(row.dest)
      BY <2>2, <3>1 DEF Dest
    <3>3. CASE Same(paths[dest], Entry(row))
      <4>1. verdict = "same"
        BY <2>1, <2>4, <3>3
      <4>2. Written(Rows[n]) = Written(row) /\ Rows[n].type = row.type
        BY <1>3, <1>9, <3>1, <3>2, <3>3, SameShown
      <4>3. Agreed'
        <5>1. ASSUME NEW m \in Read
              PROVE  /\ Dest(m) = Dest(at) => Written(Rows[m]) = Written(row) /\ Rows[m].type = row.type
                     /\ Dest(m) # Dest(at) => Dest(m) \notin Above(Dest(at)) /\ Dest(at) \notin Above(Dest(m))
          BY <1>1, <1>3, <3>1, <4>2 DEF RowsRead, Agreed
        <5> QED BY <1>1, <1>2, <2>1, <5>1 DEF RowsRead, Agreed, Dest
      <4>4. {Dest(m) : m \in Read}' = {Dest(m) : m \in Read}
        BY <1>2, <1>3, <2>1, <3>1 DEF Dest
      <4>5. (UNION {Above(Dest(m)) : m \in Read})' = UNION {Above(Dest(m)) : m \in Read}
        BY <1>2, <1>3, <2>1, <3>1 DEF Dest
      <4>6. (\A d \in DOMAIN paths : \E m \in Read : d = Dest(m) /\ paths[d] = Entry(Rows[m]))'
        BY <1>1, <1>2, <2>1, <4>1 DEF RowsRead, Dest
      <4>7. RowsRead'
        BY <1>1, <1>3, <1>9, <4>1, <4>3, <4>4, <4>5, <4>6, RowGoesOn DEF RowsRead
      <4> QED BY <1>1, <1>5, <4>1, <4>7
    <3>4. CASE ~Same(paths[dest], Entry(row))
      <4>1. verdict = "collides"
        BY <2>1, <2>4, <3>4
      <4>2. Written(Rows[n]) # Written(row) \/ Rows[n].type # row.type
        BY <1>3, <1>9, <3>1, <3>2, <3>4, ShownSame
      <4>3. RowsDisagree \/ Mixed
        BY <1>3, <1>9, <3>1, <3>2, <4>2 DEF RowsDisagree, Mixed
      <4> QED BY <1>1, <1>4, <4>1, <4>3, NoneAssumption
    <3> QED BY <3>3, <3>4
  <2>5. CASE dest \notin DOMAIN paths /\ verdict # "new"
    <3>1. verdict = "collides" /\ (Above(dest) \cap DOMAIN paths # {} \/ dest \in descendants)
      BY <2>1, <2>5
    <3>2. \E n \in Read : Dest(n) \in Above(dest) \/ dest \in Above(Dest(n))
      BY <1>1, <3>1 DEF RowsRead
    <3>3. \A n \in Read : Dest(n) # dest
      BY <1>1, <2>5 DEF RowsRead
    <3>4. RowsDisagree
      BY <1>3, <1>9, <2>2, <3>2, <3>3 DEF RowsDisagree
    <3> QED BY <1>1, <1>4, <3>1, <3>4, NoneAssumption
  <2> QED BY <2>3, <2>4, <2>5
<1> QED BY <1>6, <1>7, <1>8, <1>9

\* Once the rows are judged, no check changes the verdict or takes it back.
LEMMA CheckStep ==
  ASSUME IInv, job' = job, collision' = collision, stage # "rows", stage' \notin {"rows", "layers"},
         "collision" \in messages' <=> collision # None,
         Ended' => (stage' = "exit 1" <=> messages' \cap Errors # {})
  PROVE  IInv'
<1>1. Judged
  BY DEF IInv
<1>2. Malformed' = Malformed /\ RowsDisagree' = RowsDisagree /\ Mixed' = Mixed /\ Unmarked' = Unmarked
  BY JobStays
<1>3. Judged'
  BY <1>1, <1>2 DEF Judged
<1> QED BY <1>3 DEF IInv

LEMMA NextIInv == IInv /\ [Next]_vars => IInv'
<1> SUFFICES ASSUME IInv, [Next]_vars PROVE IInv'
  OBVIOUS
<1>1. CASE ReadRow
  BY <1>1, ReadRowStep
<1>2. CASE ReadMarker
  BY <1>2, ReadMarkerStep
<1>3. CASE EndRows
  BY <1>3, EndRowsStep
<1>4. CASE CheckCollision
  BY <1>4, CheckStep DEF CheckCollision, rowVars, Ended
<1>5. CASE CheckSquashed
  <2>1. /\ job' = job /\ collision' = collision /\ stage = "squashed" /\ stage' = "packages"
        /\ messages' \in {messages, messages \cup {"squashed layer too large"}}
    BY <1>5 DEF CheckSquashed
  <2> QED BY <2>1, CheckStep DEF IInv, Ended
<1>6. CASE \E label \in DOMAIN job.packages : CheckPackage(label)
  <2>1. /\ job' = job /\ collision' = collision /\ stage = "packages" /\ stage' = "packages"
        /\ \E m \in {"binary packages", "large package"} : messages' \in {messages, messages \cup {m}}
    BY <1>6 DEF CheckPackage
  <2> QED BY <2>1, CheckStep DEF IInv, Ended
<1>7. CASE Report
  <2>1. /\ job' = job /\ collision' = collision /\ messages' = messages /\ stage = "packages"
        /\ stage' = IF messages \cap Errors # {} THEN "exit 1" ELSE "exit 0"
    BY <1>7 DEF Report
  <2> QED BY <2>1, CheckStep DEF IInv
<1>8. CASE UNCHANGED vars
  <2>1. /\ job' = job /\ at' = at /\ Rows' = Rows /\ InTars' = InTars /\ stage' = stage
        /\ paths' = paths /\ descendants' = descendants /\ skipping' = skipping
        /\ collision' = collision /\ messages' = messages
    BY <1>8, JobStays DEF vars, rowVars
  <2>2. Read' = Read
    BY <2>1 DEF Read
  <2>3. RowsRead' = RowsRead
    BY <2>1, <2>2 DEF RowsRead, Agreed, Dest
  <2>4. Judged' = Judged
    BY <2>1, JobStays DEF Judged
  <2> QED BY <2>1, <2>3, <2>4 DEF IInv, Ended
<1> QED BY <1>1, <1>2, <1>3, <1>4, <1>5, <1>6, <1>7, <1>8 DEF Next, Terminating

-----------------------------------------------------------------------------

\* Whatever the rows, their order, the exclusions and the files behind them,
\* the validator ends with an error about a collision when the tars, as the awk
\* script rewrites them, disagree about a destination in more than a rewritten
\* mode; and with none when they agree, unless two rows of one destination
\* differ in their types or in modes of which the script rewrites one.
THEOREM ValidatorCorrect == Spec => []CollisionsExact
<1>1. Init => IInv
  BY InitIInv
<1>2. IInv /\ [Next]_vars => IInv'
  BY NextIInv
<1>3. IInv => CollisionsExact
  BY IInvImplies
<1> QED BY <1>1, <1>2, <1>3, PTL DEF Spec

-----------------------------------------------------------------------------
(* Finite sets, and what is folded over them.                              *)

\* The subsets of a finite set, ordered by inclusion, are well-founded.
LEMMA NatSets ==
  ASSUME NEW A, \A m \in Nat : (\A k \in Nat : k < m => k \in A) => m \in A
  PROVE  Nat \subseteq A
<1> SUFFICES ASSUME Nat \ A # {} PROVE FALSE
  OBVIOUS
<1>1. PICK m \in Nat \ A : \A k \in Nat \ A : ~ (<<k, m>> \in OpToRel(<, Nat))
  <2> DEFINE T == Nat \ A
  <2>1. T \subseteq Nat /\ T # {}
    OBVIOUS
  <2> HIDE DEF T
  <2>2. \E m \in T : \A k \in T : ~ (<<k, m>> \in OpToRel(<, Nat))
    BY <2>1, WFMin, NatLessThanWellFounded, Zenon
  <2> QED
    BY <2>2 DEF T
<1>2. \A k \in Nat \ A : ~ (k < m)
  BY <1>1 DEF OpToRel
<1> QED
  BY <1>2

\* What one element is taken from: the folds take any, the same each time.
Chosen(s) == CHOOSE x \in s : TRUE

LEMMA ChosenLess ==
  ASSUME NEW S, IsFiniteSet(S), NEW s \in SUBSET S
  PROVE  /\ IsFiniteSet(s) /\ Cardinality(s) \in Nat /\ (Cardinality(s) = 0 <=> s = {})
         /\ s # {} => /\ Chosen(s) \in s /\ s \ {Chosen(s)} \in SUBSET S
                      /\ Cardinality(s \ {Chosen(s)}) = Cardinality(s) - 1
<1>1. IsFiniteSet(s)
  BY FS_Subset
<1>2. s # {} => Chosen(s) \in s
  BY DEF Chosen
<1> QED BY <1>1, <1>2, FS_CardinalityType, FS_EmptySet, FS_RemoveElement

\* Two functions agree if both are given by what they are without the element
\* taken.
LEMMA FoldUnique ==
  ASSUME NEW S, IsFiniteSet(S), NEW f, NEW g, f[{}] = g[{}],
         \A s \in SUBSET S : s # {} /\ f[s \ {Chosen(s)}] = g[s \ {Chosen(s)}] => f[s] = g[s]
  PROVE  f[S] = g[S]
<1> DEFINE B == {k \in Nat : \A s \in SUBSET S : Cardinality(s) = k => f[s] = g[s]}
<1>1. ASSUME NEW m \in Nat, \A k \in Nat : k < m => k \in B
      PROVE  m \in B
  <2> SUFFICES ASSUME NEW s \in SUBSET S, Cardinality(s) = m PROVE f[s] = g[s]
    OBVIOUS
  <2>1. CASE s = {}
    BY <2>1
  <2>2. CASE s # {}
    <3>1. m - 1 \in Nat /\ m - 1 < m /\ s \ {Chosen(s)} \in SUBSET S /\ Cardinality(s \ {Chosen(s)}) = m - 1
      BY <2>2, ChosenLess
    <3>2. m - 1 \in B
      BY <1>1, <3>1
    <3> QED BY <2>2, <3>1, <3>2
  <2> QED BY <2>1, <2>2
<1> HIDE DEF B
<1>2. Cardinality(S) \in B
  BY <1>1, NatSets, ChosenLess
<1> QED BY <1>2 DEF B

\* f sums the sizes of each subset of S, element by element.
Sums(f, S, size) ==
  /\ f \in [SUBSET S -> Nat]
  /\ \A s \in SUBSET S : f[s] = IF s = {} THEN 0 ELSE size[Chosen(s)] + f[s \ {Chosen(s)}]

LEMMA SumExists ==
  ASSUME NEW S, IsFiniteSet(S), NEW size \in [S -> Nat]
  PROVE  \E f : Sums(f, S, size)
<1> DEFINE Next1(f, s) == IF s = {} THEN 0 ELSE size[Chosen(s)] + f[s \ {Chosen(s)}]
           UpTo(f, m) == \A s \in SUBSET S : Cardinality(s) <= m => f[s] = Next1(f, s)
           B == {m \in Nat : \E f \in [SUBSET S -> Nat] : UpTo(f, m)}
<1>1. ASSUME NEW f \in [SUBSET S -> Nat], NEW s \in SUBSET S
      PROVE  Next1(f, s) \in Nat
  <2>1. s # {} => size[Chosen(s)] \in Nat /\ f[s \ {Chosen(s)}] \in Nat
    <3>1. s # {} => Chosen(s) \in S /\ s \ {Chosen(s)} \in SUBSET S
      BY ChosenLess
    <3> QED BY <3>1
  <2> QED BY <2>1
<1>2. ASSUME NEW m \in Nat, \A k \in Nat : k < m => k \in B
      PROVE  m \in B
  <2>1. CASE m = 0
    <3> DEFINE f == [s \in SUBSET S |-> 0]
    <3>1. ASSUME NEW s \in SUBSET S, Cardinality(s) <= m PROVE s = {}
      <4>1. Cardinality(s) \in Nat /\ (Cardinality(s) = 0 <=> s = {})
        BY ChosenLess
      <4> QED BY <2>1, <3>1, <4>1
    <3>2. f \in [SUBSET S -> Nat] /\ UpTo(f, m)
      BY <3>1
    <3> QED BY <3>2
  <2>2. CASE m # 0
    <3>1. m - 1 \in B
      <4>1. m - 1 \in Nat /\ m - 1 < m
        BY <2>2
      <4> QED BY <1>2, <4>1
    <3>2. PICK g \in [SUBSET S -> Nat] : UpTo(g, m - 1)
      BY <3>1
    <3> DEFINE f == [s \in SUBSET S |-> IF Cardinality(s) <= m - 1 THEN g[s] ELSE Next1(g, s)]
    <3>3. f \in [SUBSET S -> Nat]
      BY <1>1
    <3>4. ASSUME NEW s \in SUBSET S, Cardinality(s) <= m PROVE f[s] = Next1(f, s)
      <4>1. f[s] = Next1(g, s)
        BY <3>2
      <4>2. s # {} => f[s \ {Chosen(s)}] = g[s \ {Chosen(s)}]
        BY ChosenLess, <3>4
      <4> QED BY <4>1, <4>2
    <3>5. UpTo(f, m)
      BY <3>4
    <3> HIDE DEF f
    <3> QED BY <3>3, <3>5
  <2> QED BY <2>1, <2>2
<1> HIDE DEF B
<1>3. Cardinality(S) \in B
  BY <1>2, NatSets, ChosenLess
<1>4. PICK f \in [SUBSET S -> Nat] : UpTo(f, Cardinality(S))
  BY <1>3 DEF B
<1>5. \A s \in SUBSET S : f[s] = Next1(f, s)
  BY <1>4, FS_Subset
<1> QED BY <1>5 DEF Sums

-----------------------------------------------------------------------------
(* Sizes.                                                                  *)

LEMMA FilesTotal ==
  ASSUME NEW files \in Seq([glob : STRING, size : Nat])
  PROVE  Total(LAMBDA f : files[f].size, DOMAIN files) \in Nat
<1> DEFINE Rec(h) == h = [s \in SUBSET DOMAIN files |->
                            IF s = {} THEN 0 ELSE files[Chosen(s)].size + h[s \ {Chosen(s)}]]
           iter == CHOOSE h : Rec(h)
<1>1. DOMAIN files = 1 .. Len(files) /\ IsFiniteSet(DOMAIN files)
  BY FS_Interval
<1>2. \A f \in DOMAIN files : files[f].size \in Nat
  <2> SUFFICES ASSUME NEW f \in 1 .. Len(files) PROVE files[f].size \in Nat
    BY <1>1
  <2>1. files[f] \in [glob : STRING, size : Nat]
    BY ElementOfSeq
  <2> QED BY <2>1
<1>3. PICK size \in [DOMAIN files -> Nat] : \A f \in DOMAIN files : size[f] = files[f].size
  <2> DEFINE size == [f \in DOMAIN files |-> files[f].size]
  <2>1. size \in [DOMAIN files -> Nat] /\ \A f \in DOMAIN files : size[f] = files[f].size
    BY <1>2
  <2> QED BY <2>1
<1>4. PICK g : Sums(g, DOMAIN files, size)
  BY <1>1, <1>3, SumExists
<1>5. \A s \in SUBSET DOMAIN files : s # {} => size[Chosen(s)] = files[Chosen(s)].size
  BY <1>1, <1>3, ChosenLess
<1>6. Rec(g)
  <2>1. g = [s \in SUBSET DOMAIN files |-> g[s]]
    BY <1>4 DEF Sums
  <2>2. \A s \in SUBSET DOMAIN files :
          g[s] = IF s = {} THEN 0 ELSE files[Chosen(s)].size + g[s \ {Chosen(s)}]
    BY <1>4, <1>5 DEF Sums
  <2> QED BY <2>1, <2>2
<1>7. Rec(iter)
  BY <1>6
<1>8. iter[DOMAIN files] = g[DOMAIN files]
  <2>1. \A s \in SUBSET DOMAIN files :
          s # {} /\ iter[s \ {Chosen(s)}] = g[s \ {Chosen(s)}] => iter[s] = g[s]
    BY <1>6, <1>7
  <2>2. iter[{}] = g[{}]
    BY <1>6, <1>7
  <2> HIDE DEF iter
  <2> QED BY <1>1, <2>1, <2>2, FoldUnique
<1>9. Total(LAMBDA f : files[f].size, DOMAIN files) = iter[DOMAIN files]
  BY Zenon DEF Total, MapThenSumSet, MapThenFoldSet, Chosen
<1> QED BY <1>4, <1>8, <1>9 DEF Sums

Size(p, n) ==
  IF p[n].record = None THEN Total(LAMBDA f : p[n].files[f].size, DOMAIN p[n].files) ELSE p[n].record

LEMMA PartsTotal ==
  ASSUME NEW p \in Seq(Installed)
  PROVE  Total(LAMBDA n : Size(p, n), DOMAIN p) \in Nat
<1> DEFINE Rec(h) == h = [s \in SUBSET DOMAIN p |->
                            IF s = {} THEN 0 ELSE Size(p, Chosen(s)) + h[s \ {Chosen(s)}]]
           iter == CHOOSE h : Rec(h)
<1>1. DOMAIN p = 1 .. Len(p) /\ IsFiniteSet(DOMAIN p)
  BY FS_Interval
<1>2. \A n \in DOMAIN p : Size(p, n) \in Nat
  <2> SUFFICES ASSUME NEW n \in 1 .. Len(p) PROVE Size(p, n) \in Nat
    BY <1>1
  <2>1. p[n] \in Installed
    BY ElementOfSeq
  <2>2. p[n].record \in Nat \cup {None} /\ p[n].files \in Seq([glob : STRING, size : Nat])
    BY <2>1 DEF Installed
  <2>3. Total(LAMBDA f : p[n].files[f].size, DOMAIN p[n].files) \in Nat
    BY <2>2, FilesTotal
  <2> QED BY <2>2, <2>3 DEF Size
<1>3. PICK size \in [DOMAIN p -> Nat] : \A n \in DOMAIN p : size[n] = Size(p, n)
  <2> DEFINE size == [n \in DOMAIN p |-> Size(p, n)]
  <2>1. size \in [DOMAIN p -> Nat] /\ \A n \in DOMAIN p : size[n] = Size(p, n)
    BY <1>2
  <2> QED BY <2>1
<1>4. PICK g : Sums(g, DOMAIN p, size)
  BY <1>1, <1>3, SumExists
<1>5. \A s \in SUBSET DOMAIN p : s # {} => size[Chosen(s)] = Size(p, Chosen(s))
  BY <1>1, <1>3, ChosenLess
<1>6. Rec(g)
  <2>1. g = [s \in SUBSET DOMAIN p |-> g[s]]
    BY <1>4 DEF Sums
  <2>2. \A s \in SUBSET DOMAIN p : g[s] = IF s = {} THEN 0 ELSE Size(p, Chosen(s)) + g[s \ {Chosen(s)}]
    BY <1>4, <1>5 DEF Sums
  <2> QED BY <2>1, <2>2
<1>7. Rec(iter)
  BY <1>6
<1>8. iter[DOMAIN p] = g[DOMAIN p]
  <2>1. \A s \in SUBSET DOMAIN p : s # {} /\ iter[s \ {Chosen(s)}] = g[s \ {Chosen(s)}] => iter[s] = g[s]
    BY <1>6, <1>7
  <2>2. iter[{}] = g[{}]
    BY <1>6, <1>7
  <2> HIDE DEF iter
  <2> QED BY <1>1, <2>1, <2>2, FoldUnique
<1>9. Total(LAMBDA n : Size(p, n), DOMAIN p) = iter[DOMAIN p]
  BY Zenon DEF Total, MapThenSumSet, MapThenFoldSet, Chosen
<1> QED BY <1>4, <1>8, <1>9 DEF Sums

\* What is read of the packages.
Labels == DOMAIN job.packages

LEMMA PackagesRead ==
  ASSUME job \in Jobs
  PROVE  /\ job.threshold \in Nat
         /\ IsFiniteSet(Labels)
         /\ \A label \in Labels :
              /\ job.packages[label] \in Seq(Installed)
              /\ label \in Seq(STRING) \ {<< >>}
              /\ \A other \in Labels : IsPrefix(label, other) => label = other
BY PackagesAssumption DEF Labels

LEMMA PackageSize ==
  ASSUME job \in Jobs, NEW label \in Labels
  PROVE  _pkg_size(label) \in Nat
<1>1. job.packages[label] \in Seq(Installed)
  BY PackagesRead
<1>2. Total(LAMBDA n : Size(job.packages[label], n), DOMAIN job.packages[label]) \in Nat
  BY <1>1, PartsTotal
<1>3. _pkg_size(label) = Total(LAMBDA n : Size(job.packages[label], n), DOMAIN job.packages[label])
  BY Zenon DEF _pkg_size, Size
<1> QED BY <1>2, <1>3

LEMMA SquashedTotal ==
  ASSUME job \in Jobs
  PROVE  Total(_pkg_size, Labels) \in Nat
<1> DEFINE Rec(h) == h = [s \in SUBSET Labels |->
                            IF s = {} THEN 0 ELSE _pkg_size(Chosen(s)) + h[s \ {Chosen(s)}]]
           iter == CHOOSE h : Rec(h)
<1>1. IsFiniteSet(Labels)
  BY PackagesRead
<1>2. PICK size \in [Labels -> Nat] : \A label \in Labels : size[label] = _pkg_size(label)
  <2> DEFINE size == [label \in Labels |-> _pkg_size(label)]
  <2>1. size \in [Labels -> Nat] /\ \A label \in Labels : size[label] = _pkg_size(label)
    BY PackageSize
  <2> QED BY <2>1
<1>3. PICK g : Sums(g, Labels, size)
  BY <1>1, <1>2, SumExists
<1>4. \A s \in SUBSET Labels : s # {} => size[Chosen(s)] = _pkg_size(Chosen(s))
  BY <1>1, <1>2, ChosenLess
<1>5. Rec(g)
  <2>1. g = [s \in SUBSET Labels |-> g[s]]
    BY <1>3 DEF Sums
  <2>2. \A s \in SUBSET Labels : g[s] = IF s = {} THEN 0 ELSE _pkg_size(Chosen(s)) + g[s \ {Chosen(s)}]
    BY <1>3, <1>4 DEF Sums
  <2> QED BY <2>1, <2>2
<1>6. Rec(iter)
  BY <1>5
<1>7. iter[Labels] = g[Labels]
  <2>1. \A s \in SUBSET Labels : s # {} /\ iter[s \ {Chosen(s)}] = g[s \ {Chosen(s)}] => iter[s] = g[s]
    BY <1>5, <1>6
  <2>2. iter[{}] = g[{}]
    BY <1>5, <1>6
  <2> HIDE DEF iter
  <2> QED BY <1>1, <2>1, <2>2, FoldUnique
<1>8. Total(_pkg_size, Labels) = iter[Labels]
  BY Zenon DEF Total, MapThenSumSet, MapThenFoldSet, Chosen
<1> QED BY <1>3, <1>7, <1>8 DEF Sums

-----------------------------------------------------------------------------
(* Labels and the keys of the advice.                                      *)

Key == Seq(STRING)
Pattern(label, g) == Append(label, g)

LEMMA Appends ==
  ASSUME NEW s \in Seq(STRING), NEW g \in STRING
  PROVE  /\ Append(s, g) \in Seq(STRING) /\ Len(Append(s, g)) = Len(s) + 1 /\ Len(s) \in Nat
         /\ \A i \in 1 .. Len(s) : Append(s, g)[i] = s[i]
         /\ Append(s, g)[Len(s) + 1] = g
OBVIOUS

LEMMA Begins ==
  ASSUME NEW s \in Key, NEW n \in Nat, n <= Len(s)
  PROVE  /\ Len(s) \in Nat
         /\ SubSeq(s, 1, n) \in Key /\ Len(SubSeq(s, 1, n)) = n
         /\ \A i \in 1 .. n : SubSeq(s, 1, n)[i] = s[i]
BY DEF Key

LEMMA SameKey ==
  ASSUME NEW s \in Key, NEW t \in Key, Len(s) = Len(t), \A i \in 1 .. Len(s) : s[i] = t[i]
  PROVE  s = t
BY SeqEqual DEF Key

LEMMA KeyLen ==
  ASSUME NEW s \in Key
  PROVE  Len(s) \in Nat /\ (s # << >> => Len(s) > 0)
BY DEF Key

LEMMA Prefixed ==
  ASSUME NEW s \in Key, NEW t \in Key
  PROVE  IsPrefix(s, t) <=> Len(s) <= Len(t) /\ \A i \in 1 .. Len(s) : s[i] = t[i]
<1>1. CASE Len(s) <= Len(t)
  <2> DEFINE u == SubSeq(s, 1, Len(s))
             v == SubSeq(t, 1, Len(s))
  <2>1. u \in Key /\ Len(u) = Len(s) /\ \A i \in 1 .. Len(s) : u[i] = s[i]
    BY KeyLen, Begins
  <2>2. v \in Key /\ Len(v) = Len(s) /\ \A i \in 1 .. Len(s) : v[i] = t[i]
    BY <1>1, KeyLen, Begins
  <2>3. IsPrefix(s, t) <=> u = v
    BY <1>1 DEF IsPrefix
  <2> HIDE DEF u, v
  <2>4. u = v <=> \A i \in 1 .. Len(s) : s[i] = t[i]
    BY <2>1, <2>2, SameKey
  <2> QED BY <1>1, <2>3, <2>4
<1>2. CASE ~(Len(s) <= Len(t))
  BY <1>2 DEF IsPrefix
<1> QED BY <1>1, <1>2

LEMMA Patterns ==
  ASSUME NEW s \in Key, NEW g \in STRING
  PROVE  /\ Pattern(s, g) \in Key /\ Len(Pattern(s, g)) = Len(s) + 1
         /\ \A i \in 1 .. Len(s) : Pattern(s, g)[i] = s[i]
         /\ Last(Pattern(s, g)) = g /\ Front(Pattern(s, g)) = s /\ Pattern(s, g) # s
         /\ IsPrefix(s, Pattern(s, g))
<1> DEFINE t == Pattern(s, g)
<1>1. /\ t \in Key /\ Len(t) = Len(s) + 1 /\ Len(s) \in Nat
      /\ \A i \in 1 .. Len(s) : t[i] = s[i]
      /\ t[Len(s) + 1] = g
  <2>1. s \in Seq(STRING)
    BY DEF Key
  <2> QED BY <2>1, Appends, Zenon DEF Key, Pattern
<1> HIDE DEF t
<1>2. Last(t) = g
  BY <1>1 DEF Last
<1>3. Front(t) = s
  <2> DEFINE u == SubSeq(t, 1, Len(s))
  <2>1. Front(t) = u
    BY <1>1 DEF Front
  <2>2. u \in Key /\ Len(u) = Len(s) /\ \A i \in 1 .. Len(s) : u[i] = t[i]
    BY <1>1, Begins
  <2> HIDE DEF u
  <2>3. \A i \in 1 .. Len(u) : u[i] = s[i]
    BY <1>1, <2>2
  <2>4. u = s
    BY <2>2, <2>3, SameKey
  <2> QED BY <2>1, <2>4
<1>4. t # s
  BY <1>1
<1>5. IsPrefix(s, t)
  BY <1>1, Prefixed
<1> QED BY <1>1, <1>2, <1>3, <1>4, <1>5 DEF t

LEMMA Fronts ==
  ASSUME NEW s \in Key, Len(s) > 0
  PROVE  /\ Front(s) \in Key /\ Len(Front(s)) = Len(s) - 1 /\ Front(s) # s
         /\ IsPrefix(Front(s), s)
<1> DEFINE t == Front(s)
<1>1. Len(s) \in Nat /\ Len(s) - 1 \in Nat /\ Len(s) - 1 <= Len(s)
  BY KeyLen
<1>2. t \in Key /\ Len(t) = Len(s) - 1 /\ \A i \in 1 .. Len(s) - 1 : t[i] = s[i]
  BY <1>1, Begins DEF Front
<1> HIDE DEF t
<1>3. IsPrefix(t, s)
  BY <1>1, <1>2, Prefixed
<1>4. t # s
  BY <1>1, <1>2
<1> QED BY <1>2, <1>3, <1>4 DEF t

\* What a pattern begins with.
LEMMA PrefixOfPattern ==
  ASSUME NEW s \in Key, NEW m \in Key, NEW g \in STRING, IsPrefix(s, Pattern(m, g))
  PROVE  IsPrefix(s, m) \/ s = Pattern(m, g)
<1>1. /\ Pattern(m, g) \in Key /\ Len(Pattern(m, g)) = Len(m) + 1
      /\ Len(s) <= Len(m) + 1 /\ \A i \in 1 .. Len(s) : s[i] = Pattern(m, g)[i]
  BY Patterns, Prefixed
<1>2. CASE Len(s) = Len(m) + 1
  BY <1>1, <1>2, SameKey
<1>3. CASE Len(s) # Len(m) + 1
  <2>1. Len(s) \in Nat /\ Len(m) \in Nat
    BY KeyLen
  <2>2. Len(s) <= Len(m) /\ \A i \in 1 .. Len(s) : i \in 1 .. Len(m)
    BY <1>1, <1>3, <2>1
  <2>3. \A i \in 1 .. Len(s) : s[i] = m[i]
    BY <1>1, <2>2, Patterns
  <2> QED BY <2>2, <2>3, Prefixed
<1> QED BY <1>2, <1>3

\* The keys that may be in the advice.
Advisable == {key \in Key : key \in Labels \/ \E label \in Labels, g \in STRING : key = Pattern(label, g)}

LEMMA AdvisableKeys ==
  ASSUME job \in Jobs
  PROVE  /\ Labels \subseteq Key /\ Advisable \subseteq Key
         /\ Labels \subseteq Advisable
         /\ \A label \in Labels, g \in STRING : Pattern(label, g) \in Advisable
<1>1. Labels \subseteq Key
  BY PackagesRead DEF Key
<1>2. \A label \in Labels, g \in STRING : Pattern(label, g) \in Key
  BY <1>1, Patterns
<1> QED BY <1>1, <1>2 DEF Advisable

LEMMA LabelKey ==
  ASSUME job \in Jobs, NEW label \in Labels
  PROVE  /\ label \in Key /\ Len(label) \in Nat /\ Len(label) > 0
         /\ \A other \in Labels : IsPrefix(label, other) => label = other
<1>1. label \in Key /\ label # << >> /\ \A other \in Labels : IsPrefix(label, other) => label = other
  BY PackagesRead DEF Key
<1> QED BY <1>1, KeyLen

\* Of all these keys only the patterns of a package go on from its label.
LEMMA GoesOn ==
  ASSUME job \in Jobs, NEW label \in Labels, NEW key \in Advisable, IsPrefix(label, key)
  PROVE  key = label \/ \E g \in STRING : key = Pattern(label, g)
<1>1. label \in Key
  BY LabelKey
<1>2. CASE key \in Labels
  BY <1>2, LabelKey
<1>3. ASSUME NEW m \in Labels, NEW g \in STRING, key = Pattern(m, g)
      PROVE  key = label \/ \E h \in STRING : key = Pattern(label, h)
  <2>1. m \in Key
    BY LabelKey
  <2>2. IsPrefix(label, m) \/ label = key
    BY <1>1, <1>3, <2>1, PrefixOfPattern
  <2>3. IsPrefix(label, m) => label = m
    BY LabelKey
  <2> QED BY <1>3, <2>2, <2>3
<1>4. key \in Labels \/ \E m \in Labels, g \in STRING : key = Pattern(m, g)
  BY DEF Advisable
<1> QED BY <1>2, <1>3, <1>4

\* No label is the pattern of a package, nor goes on where another key is.
LEMMA LabelsApart ==
  ASSUME job \in Jobs, NEW label \in Labels
  PROVE  /\ \A m \in Labels, g \in STRING : label # Pattern(m, g)
         /\ Front(label) \notin Advisable
<1>1. label \in Key /\ Len(label) > 0 /\ Len(label) \in Nat
  BY LabelKey
<1>2. ASSUME NEW m \in Labels, NEW g \in STRING, label = Pattern(m, g) PROVE FALSE
  <2>1. m \in Key
    BY LabelKey
  <2>2. IsPrefix(m, label) /\ label # m
    BY <1>2, <2>1, Patterns
  <2> QED BY <2>2, LabelKey
<1>3. /\ Front(label) \in Key /\ Len(Front(label)) = Len(label) - 1 /\ Front(label) # label
      /\ IsPrefix(Front(label), label)
  BY <1>1, Fronts
<1>4. ASSUME Front(label) \in Labels PROVE FALSE
  BY <1>3, <1>4, LabelKey
<1>5. ASSUME NEW m \in Labels, NEW g \in STRING, Front(label) = Pattern(m, g) PROVE FALSE
  <2>1. m \in Key /\ Len(m) \in Nat
    BY LabelKey
  <2>2. /\ Len(Front(label)) = Len(m) + 1
        /\ \A i \in 1 .. Len(m) : Front(label)[i] = m[i]
    BY <1>5, <2>1, Patterns
  <2>3. Len(Front(label)) <= Len(label) /\ \A i \in 1 .. Len(Front(label)) : Front(label)[i] = label[i]
    BY <1>1, <1>3, Prefixed
  <2>4. Len(m) <= Len(label) /\ \A i \in 1 .. Len(m) : m[i] = label[i]
    BY <1>1, <1>3, <2>1, <2>2, <2>3
  <2>5. IsPrefix(m, label)
    BY <1>1, <2>1, <2>4, Prefixed
  <2>6. m = label
    BY <2>5, LabelKey
  <2>7. Len(m) + 1 = Len(label) - 1
    BY <1>3, <2>2
  <2> QED BY <1>1, <2>6, <2>7
<1>6. Front(label) \in Advisable =>
        \/ Front(label) \in Labels \/ \E m \in Labels, g \in STRING : Front(label) = Pattern(m, g)
  BY DEF Advisable
<1> QED BY <1>2, <1>4, <1>5, <1>6

\* A whole package is added and nothing else changes; a pattern takes its
\* package's place.
LEMMA AddWhole ==
  ASSUME job \in Jobs, NEW label \in Labels, NEW keys \in SUBSET Advisable,
         \A g \in STRING : Pattern(label, g) \notin keys
  PROVE  add_group(keys, label) = keys \cup {label}
<1>1. label \in Key /\ Len(label) \in Nat /\ Len(label) > 0
  BY LabelKey
<1>2. CASE Len(label) > 1
  <2>1. Front(label) \notin keys
    BY LabelsApart
  <2> QED BY <1>2, <2>1 DEF add_group
<1>3. CASE ~(Len(label) > 1)
  <2>1. Len(label) = 1
    <3>1. \A n \in Nat : n > 0 /\ ~(n > 1) => n = 1
      OBVIOUS
    <3> QED BY <1>1, <1>3, <3>1, Zenon
  <2>2. ASSUME NEW k \in keys, Len(k) > 1, k[1] = label[1] PROVE FALSE
    <3>1. k \in Key /\ Len(k) \in Nat
      BY AdvisableKeys, KeyLen
    <3>2. IsPrefix(label, k)
      <4>1. Len(label) <= Len(k) /\ \A i \in 1 .. Len(label) : label[i] = k[i]
        BY <2>1, <2>2, <3>1
      <4> QED BY <1>1, <3>1, <4>1, Prefixed
    <3>3. k # label
      <4>1. ~(1 > 1)
        OBVIOUS
      <4> QED BY <2>1, <2>2, <4>1, Zenon
    <3> QED BY <3>2, <3>3, GoesOn
  <2> QED BY <1>3, <2>2 DEF add_group
<1> QED BY <1>2, <1>3

LEMMA AddPattern ==
  ASSUME job \in Jobs, NEW label \in Labels, NEW keys, NEW g \in STRING
  PROVE  add_group(keys, Pattern(label, g)) = (keys \ {label}) \cup {Pattern(label, g)}
<1>1. label \in Key /\ Len(label) \in Nat /\ Len(label) > 0
  BY LabelKey
<1>2. Len(Pattern(label, g)) = Len(label) + 1 /\ Front(Pattern(label, g)) = label
  BY <1>1, Patterns
<1>3. Len(Pattern(label, g)) > 1
  BY <1>1, <1>2
<1> QED BY <1>2, <1>3 DEF add_group

\* The patterns of a package that is split.
PerFile == Max({job.threshold \div 4, MinFile})
Globs(label) == _suggest_subpath_groups(label, PerFile)

LEMMA PerFileLeast ==
  ASSUME job \in Jobs
  PROVE  PerFile \in Nat /\ MinFile \in Nat /\ PerFile >= MinFile
<1> DEFINE q == job.threshold \div 4
<1>1. q \in Nat /\ MinFile \in Nat
  BY PackagesRead, LimitAssumption
<1> HIDE DEF q
<1>2. \E x \in {q, MinFile} : \A y \in {q, MinFile} : x >= y
  <2>1. q >= MinFile \/ MinFile >= q
    BY <1>1
  <2> QED BY <1>1, <2>1
<1>3. PerFile \in {q, MinFile} /\ \A y \in {q, MinFile} : PerFile >= y
  BY <1>2 DEF PerFile, Max, q
<1> QED BY <1>1, <1>3

LEMMA FiniteImage ==
  ASSUME NEW S, IsFiniteSet(S), NEW f, DOMAIN f = S, f = [x \in S |-> f[x]]
  PROVE  IsFiniteSet({f[x] : x \in S})
<1> DEFINE T == {f[x] : x \in S}
<1>1. f \in Surjection(S, T)
  BY DEF Surjection
<1> QED BY <1>1, FS_Surjection

LEMMA FileImage ==
  ASSUME NEW files \in Seq([glob : STRING, size : Nat])
  PROVE  IsFiniteSet(ToSet(files)) /\ ToSet(files) \subseteq [glob : STRING, size : Nat]
<1>1. IsFiniteSet(DOMAIN files) /\ DOMAIN files = 1 .. Len(files)
  BY FS_Interval
<1>2. \A n \in DOMAIN files : files[n] \in [glob : STRING, size : Nat]
  BY <1>1, ElementOfSeq
<1>3. ToSet(files) = {files[n] : n \in DOMAIN files}
  BY DEF ToSet
<1>4. IsFiniteSet({files[n] : n \in DOMAIN files})
  BY <1>1, FiniteImage
<1> QED BY <1>1, <1>2, <1>3, <1>4

LEMMA GlobsRead ==
  ASSUME job \in Jobs, NEW label \in Labels
  PROVE  /\ IsFiniteSet(Globs(label)) /\ Globs(label) \subseteq STRING
         /\ \A g \in Globs(label) : \E f \in _find_large_files(label, MinFile) : f.glob = g
<1> DEFINE p == job.packages[label]
           Sets == {ToSet(p[n].files) : n \in DOMAIN p}
           File == [glob : STRING, size : Nat]
           Large == _find_large_files(label, PerFile)
<1>1. p \in Seq(Installed)
  BY PackagesRead
<1> HIDE DEF p
<1>2. DOMAIN p = 1 .. Len(p) /\ IsFiniteSet(DOMAIN p)
  BY <1>1, FS_Interval
<1>3. ASSUME NEW n \in DOMAIN p
      PROVE  p[n].files \in Seq(File)
  <2>1. p[n] \in Installed
    BY <1>1, <1>2, ElementOfSeq
  <2> QED BY <2>1 DEF Installed
<1> HIDE DEF File
<1>4. \A n \in DOMAIN p : IsFiniteSet(ToSet(p[n].files)) /\ ToSet(p[n].files) \subseteq File
  BY <1>3, FileImage DEF File
<1>5. IsFiniteSet(Sets)
  <2> DEFINE f == [n \in DOMAIN p |-> ToSet(p[n].files)]
  <2>1. Sets = {f[n] : n \in DOMAIN p}
    OBVIOUS
  <2>2. DOMAIN f = DOMAIN p /\ f = [n \in DOMAIN p |-> f[n]]
    OBVIOUS
  <2> HIDE DEF f, Sets
  <2> QED BY <1>2, <2>1, <2>2, FiniteImage
<1>6. \A T \in Sets : IsFiniteSet(T)
  BY <1>4
<1>7. UNION Sets \subseteq File
  BY <1>4
<1>8. IsFiniteSet(UNION Sets)
  <2> HIDE DEF Sets
  <2> QED BY <1>5, <1>6, FS_UNION
<1>9. /\ Large = {f \in UNION Sets : f.size >= PerFile}
      /\ _find_large_files(label, MinFile) = {f \in UNION Sets : f.size >= MinFile}
  BY DEF _find_large_files, p
<1>10. Large \subseteq _find_large_files(label, MinFile)
  <2>1. \A f \in File : f.size \in Nat
    BY DEF File
  <2> HIDE DEF Large, Sets
  <2> QED BY <1>7, <1>9, <2>1, PerFileLeast
<1>11. IsFiniteSet(Large) /\ Large \subseteq File
  <2> HIDE DEF Large, Sets
  <2> QED BY <1>7, <1>8, <1>9, FS_Subset
<1>12. Globs(label) = {f.glob : f \in Large}
  BY DEF Globs, _suggest_subpath_groups
<1>13. IsFiniteSet(Globs(label))
  <2> DEFINE glob == [f \in Large |-> f.glob]
  <2>1. Globs(label) = {glob[f] : f \in Large}
    BY <1>12
  <2>2. DOMAIN glob = Large /\ glob = [f \in Large |-> glob[f]]
    OBVIOUS
  <2> HIDE DEF glob, Large
  <2> QED BY <1>11, <2>1, <2>2, FiniteImage
<1>14. Globs(label) \subseteq STRING
  <2> HIDE DEF Large
  <2> QED BY <1>11, <1>12 DEF File
<1> QED
  <2> HIDE DEF Large
  <2> QED BY <1>10, <1>12, <1>13, <1>14

\* What the folds over labels and over patterns add.
LEMMA WholeAdds ==
  ASSUME job \in Jobs, NEW labels \in SUBSET Labels, NEW keys \in SUBSET Advisable,
         \A label \in labels, g \in STRING : Pattern(label, g) \notin keys
  PROVE  Whole(keys, labels) = keys \cup labels
<1> DEFINE Rec(h) == h = [s \in SUBSET labels |->
                            IF s = {} THEN keys ELSE add_group(h[s \ {Chosen(s)}], Chosen(s))]
           iter == CHOOSE h : Rec(h)
           all == [s \in SUBSET labels |-> keys \cup s]
<1>1. IsFiniteSet(labels)
  BY PackagesRead, FS_Subset
<1>2. ASSUME NEW s \in SUBSET labels, s # {}
      PROVE  add_group(keys \cup (s \ {Chosen(s)}), Chosen(s)) = keys \cup s
  <2> DEFINE label == Chosen(s)
             rest == keys \cup (s \ {label})
  <2>1. label \in s /\ label \in Labels
    BY <1>2 DEF Chosen
  <2> HIDE DEF label
  <2>2. rest \in SUBSET Advisable
    BY AdvisableKeys
  <2>3. \A g \in STRING : Pattern(label, g) \notin rest
    BY <2>1, LabelsApart
  <2> HIDE DEF rest
  <2>4. add_group(rest, label) = rest \cup {label}
    BY <2>1, <2>2, <2>3, AddWhole
  <2>5. rest \cup {label} = keys \cup s
    BY <2>1 DEF rest
  <2> QED BY <2>4, <2>5 DEF rest, label
<1>3. Rec(all)
  <2>1. ASSUME NEW s \in SUBSET labels
        PROVE  all[s] = IF s = {} THEN keys ELSE add_group(all[s \ {Chosen(s)}], Chosen(s))
    <3>1. all[s] = keys \cup s /\ all[s \ {Chosen(s)}] = keys \cup (s \ {Chosen(s)})
      OBVIOUS
    <3> HIDE DEF all
    <3>2. CASE s = {}
      BY <3>1, <3>2
    <3>3. CASE s # {}
      BY <1>2, <3>1, <3>3
    <3> QED BY <3>2, <3>3
  <2>2. all = [s \in SUBSET labels |-> all[s]]
    OBVIOUS
  <2> HIDE DEF all
  <2> QED BY <2>1, <2>2
<1> HIDE DEF all
<1>4. Rec(iter)
  BY <1>3
<1>5. iter[labels] = all[labels]
  <2>1. \A s \in SUBSET labels : s # {} /\ iter[s \ {Chosen(s)}] = all[s \ {Chosen(s)}] => iter[s] = all[s]
    BY <1>3, <1>4
  <2>2. iter[{}] = all[{}]
    BY <1>3, <1>4
  <2> HIDE DEF iter
  <2> QED BY <1>1, <2>1, <2>2, FoldUnique
<1>6. Whole(keys, labels) = iter[labels]
  BY Zenon DEF Whole, FoldSet, MapThenFoldSet, Chosen
<1> QED BY <1>5, <1>6 DEF all

Split(keys, label, globs) == FoldSet(LAMBDA g, acc : add_group(acc, Pattern(label, g)), keys, globs)
LEMMA SplitAdds ==
  ASSUME job \in Jobs, NEW label \in Labels, NEW keys, NEW globs, globs \subseteq STRING, IsFiniteSet(globs)
  PROVE  Split(keys, label, globs) =
           IF globs = {} THEN keys ELSE (keys \ {label}) \cup {Pattern(label, g) : g \in globs}
<1> DEFINE Rec(h) == h = [s \in SUBSET globs |->
                            IF s = {} THEN keys ELSE add_group(h[s \ {Chosen(s)}], Pattern(label, Chosen(s)))]
           iter == CHOOSE h : Rec(h)
           With(s) == IF s = {} THEN keys ELSE (keys \ {label}) \cup {Pattern(label, g) : g \in s}
           all == [s \in SUBSET globs |-> With(s)]
<1>1. ASSUME NEW s \in SUBSET globs, s # {}
      PROVE  add_group(With(s \ {Chosen(s)}), Pattern(label, Chosen(s))) = With(s)
  <2> DEFINE g == Chosen(s)
  <2>1. g \in s /\ g \in STRING
    BY <1>1 DEF Chosen
  <2> HIDE DEF g
  <2>2. \A h \in STRING : Pattern(label, h) # label
    BY LabelsApart
  <2>3. add_group(With(s \ {g}), Pattern(label, g)) = (With(s \ {g}) \ {label}) \cup {Pattern(label, g)}
    BY <2>1, AddPattern
  <2>4. (With(s \ {g}) \ {label}) \cup {Pattern(label, g)} = With(s)
    <3>1. With(s \ {g}) \ {label} = (keys \ {label}) \cup {Pattern(label, h) : h \in s \ {g}}
      BY <2>2
    <3>2. {Pattern(label, h) : h \in s \ {g}} \cup {Pattern(label, g)} = {Pattern(label, h) : h \in s}
      BY <2>1
    <3> QED BY <1>1, <3>1, <3>2
  <2> QED BY <2>3, <2>4 DEF g
<1> HIDE DEF With
<1>2. Rec(all)
  <2>1. ASSUME NEW s \in SUBSET globs
        PROVE  all[s] = IF s = {} THEN keys ELSE add_group(all[s \ {Chosen(s)}], Pattern(label, Chosen(s)))
    <3>1. all[s] = With(s) /\ all[s \ {Chosen(s)}] = With(s \ {Chosen(s)})
      OBVIOUS
    <3> HIDE DEF all
    <3>2. CASE s = {}
      BY <3>1, <3>2 DEF With
    <3>3. CASE s # {}
      BY <1>1, <3>1, <3>3
    <3> QED BY <3>2, <3>3
  <2>2. all = [s \in SUBSET globs |-> all[s]]
    OBVIOUS
  <2> HIDE DEF all
  <2> QED BY <2>1, <2>2
<1> HIDE DEF all
<1>3. Rec(iter)
  BY <1>2
<1>4. iter[globs] = all[globs]
  <2>1. \A s \in SUBSET globs : s # {} /\ iter[s \ {Chosen(s)}] = all[s \ {Chosen(s)}] => iter[s] = all[s]
    BY <1>2, <1>3
  <2>2. iter[{}] = all[{}]
    BY <1>2, <1>3
  <2> HIDE DEF iter
  <2> QED BY <2>1, <2>2, FoldUnique
<1>5. Split(keys, label, globs) = iter[globs]
  BY Zenon DEF Split, FoldSet, MapThenFoldSet, Chosen
<1> QED BY <1>4, <1>5 DEF all, With

-----------------------------------------------------------------------------
(* The advice.                                                             *)

\* The packages over the threshold that were weighed.
Weighed == {label \in Labels \ packages : _pkg_size(label) > job.threshold}
TooLarge == Total(_pkg_size, Labels) > job.threshold
Refused == collision # None \/ job.layer_count > HardLimit
Failed == messages \cap Errors # {}

\* Of the packages weighed each is promoted whole or by all its patterns, and
\* no other package by pattern.
Promoted ==
  /\ groups \subseteq Advisable
  /\ \A label \in Labels, g \in STRING :
       Pattern(label, g) \in groups <=> label \in Weighed /\ g \in Globs(label)
  /\ \A label \in Weighed : label \in groups <=> Globs(label) = {}

\* What was said so far fails the action for the checks made so far.
Told ==
  /\ stage \in {"rows", "layers", "squashed", "packages", "exit 0", "exit 1"}
  /\ stage \in {"rows", "layers"} => messages = {}
  /\ stage = "squashed" => (Failed <=> Refused)
  /\ stage = "packages" => (Failed <=> Refused \/ TooLarge)
  /\ Ended => (stage = "exit 1" <=> Refused \/ TooLarge)

AdviceInv ==
  /\ job \in Jobs /\ packages \subseteq Labels
  /\ stage \in {"rows", "layers", "squashed"} => groups = {} /\ packages = Labels
  /\ Ended => packages = {}
  /\ Promoted
  /\ Told

LEMMA PackagesStay ==
  ASSUME job' = job
  PROVE  Labels' = Labels /\ Advisable' = Advisable /\ TooLarge' = TooLarge
<1>1. Total(_pkg_size, Labels)' = Total(_pkg_size, Labels)
  BY SMT DEF Total, _pkg_size, Labels, MapThenSumSet, MapThenFoldSet
<1>2. TooLarge' = TooLarge
  BY <1>1 DEF TooLarge
<1> QED BY <1>2 DEF Labels, Advisable

LEMMA PackageStays ==
  ASSUME job' = job, NEW label
  PROVE  _pkg_size(label)' = _pkg_size(label) /\ Globs(label)' = Globs(label)
<1>1. _pkg_size(label)' = _pkg_size(label)
  BY SMT DEF Total, _pkg_size, MapThenSumSet, MapThenFoldSet
<1>2. PerFile' = PerFile
  BY DEF PerFile
<1>3. Globs(label)' = Globs(label)
  BY <1>2 DEF Globs, _suggest_subpath_groups, _find_large_files
<1> QED BY <1>1, <1>3

LEMMA PromotedStays ==
  ASSUME job' = job, packages' = packages, groups' = groups, Promoted
  PROVE  Promoted'
<1>1. Labels' = Labels /\ Advisable' = Advisable
  BY PackagesStay
<1>2. \A label \in Labels : _pkg_size(label)' = _pkg_size(label) /\ Globs(label)' = Globs(label)
  BY PackageStays
<1>3. Weighed' = Weighed
  BY <1>1, <1>2 DEF Weighed
<1>4. Weighed \subseteq Labels
  BY DEF Weighed
<1>5. \A label \in Labels, g \in STRING :
        (Pattern(label, g) \in groups)' <=> (label \in Weighed)' /\ g \in Globs(label)'
  <2> SUFFICES ASSUME NEW label \in Labels, NEW g \in STRING
               PROVE  (Pattern(label, g) \in groups)' <=> (label \in Weighed)' /\ g \in Globs(label)'
    OBVIOUS
  <2>1. Pattern(label, g) \in groups <=> label \in Weighed /\ g \in Globs(label)
    BY DEF Promoted
  <2> QED BY <1>2, <1>3, <2>1
<1>6. \A label \in Weighed : (label \in groups)' <=> Globs(label)' = {}
  BY <1>2, <1>3, <1>4 DEF Promoted
<1> QED BY <1>1, <1>3, <1>5, <1>6, Zenon DEF Promoted

LEMMA ToldStays ==
  ASSUME job' = job, collision' = collision, stage' = stage, messages' = messages, Told
  PROVE  Told'
<1>1. TooLarge' = TooLarge
  BY PackagesStay
<1>2. Failed' = Failed /\ Refused' = Refused /\ Ended' = Ended
  BY DEF Failed, Refused, Ended
<1> QED BY <1>1, <1>2 DEF Told

LEMMA InitAdvice == Init => AdviceInv
<1> SUFFICES ASSUME Init PROVE AdviceInv
  OBVIOUS
<1>1. /\ job \in Jobs /\ stage = "rows" /\ packages = Labels /\ groups = {} /\ messages = {}
  BY DEF Init, Labels
<1>2. Weighed = {}
  BY <1>1 DEF Weighed
<1>3. Promoted
  BY <1>1, <1>2 DEF Promoted
<1>4. Told
  BY <1>1 DEF Told, Ended
<1> QED BY <1>1, <1>3, <1>4 DEF AdviceInv, Ended

\* While rows are read there is nothing to promote.
LEMMA RowsAdvice ==
  ASSUME AdviceInv, stage = "rows", stage' \in {"rows", "layers"},
         UNCHANGED <<job, messages, groups, packages>>
  PROVE  AdviceInv'
<1>1. Promoted' /\ Labels' = Labels
  BY PromotedStays, PackagesStay DEF AdviceInv
<1>2. Told'
  BY DEF AdviceInv, Told, Ended
<1> QED BY <1>1, <1>2 DEF AdviceInv, Ended

LEMMA CollisionAdvice ==
  ASSUME AdviceInv, CheckCollision
  PROVE  AdviceInv'
<1>1. /\ stage = "layers" /\ stage' = "squashed"
      /\ UNCHANGED <<job, collision, groups, packages>>
      /\ messages' = (IF collision = None THEN {} ELSE {"collision"}) \cup
           (IF job.layer_count > HardLimit THEN {"too many layers"}
            ELSE IF job.layer_count > job.warn_layer_count THEN {"many layers"} ELSE {})
  BY DEF CheckCollision
<1>2. Promoted' /\ Labels' = Labels
  BY <1>1, PromotedStays, PackagesStay DEF AdviceInv
<1>3. Failed' <=> Refused
  BY <1>1 DEF Failed, Refused, Errors
<1>4. Told'
  BY <1>1, <1>3 DEF Told, Refused, Ended
<1> QED BY <1>1, <1>2, <1>4 DEF AdviceInv, Ended

LEMMA SquashedAdvice ==
  ASSUME AdviceInv, CheckSquashed
  PROVE  AdviceInv'
<1>1. /\ stage = "squashed" /\ stage' = "packages"
      /\ UNCHANGED <<job, collision, packages>>
  BY DEF CheckSquashed
<1>2. Labels' = Labels /\ Advisable' = Advisable /\ TooLarge' = TooLarge
  BY <1>1, PackagesStay
<1>3. groups = {} /\ packages = Labels /\ job \in Jobs /\ (Failed <=> Refused)
  BY <1>1 DEF AdviceInv, Told
<1>4. /\ TooLarge => /\ messages' = messages \cup {"squashed layer too large"}
                     /\ \E named \in SUBSET Labels : groups' = Whole(groups, named)
      /\ ~TooLarge => messages' = messages /\ groups' = groups
  <2> DEFINE total == Total(_pkg_size, Labels)
  <2>1. total \in Nat /\ job.threshold \in Nat
    BY <1>3, SquashedTotal, PackagesRead
  <2>2. CASE ~(total <= job.threshold)
    <3>1. PICK top \in SUBSET Labels :
            /\ messages' = messages \cup {"squashed layer too large"}
            /\ groups' = Whole(groups, {label \in top : _pkg_size(label) >= Megabyte})
      BY <2>2, Zenon DEF CheckSquashed, Labels
    <3>2. TooLarge
      <4> HIDE DEF total
      <4>1. total > job.threshold
        BY <2>1, <2>2
      <4> QED BY <4>1 DEF TooLarge, total
    <3> QED BY <3>1, <3>2
  <2>3. CASE total <= job.threshold
    <3>1. messages' = messages /\ groups' = groups
      BY <2>3, Zenon DEF CheckSquashed, Labels
    <3>2. ~TooLarge
      <4> HIDE DEF total
      <4>1. ~(total > job.threshold)
        BY <2>1, <2>3
      <4> QED BY <4>1 DEF TooLarge, total
    <3> QED BY <3>1, <3>2
  <2> QED BY <2>2, <2>3
<1>5. groups' \subseteq Labels
  <2>1. ASSUME NEW named \in SUBSET Labels PROVE Whole({}, named) = named
    <3>1. {} \in SUBSET Advisable /\ \A label \in named, g \in STRING : Pattern(label, g) \notin {}
      OBVIOUS
    <3>2. Whole({}, named) = {} \cup named
      BY <1>3, <3>1, WholeAdds
    <3> QED BY <3>2
  <2> QED BY <1>3, <1>4, <2>1
<1>6. Promoted'
  <2>1. Weighed' = {}
    BY <1>1, <1>2, <1>3 DEF Weighed
  <2>2. \A label \in Labels, g \in STRING : Pattern(label, g) \notin groups'
    BY <1>3, <1>5, LabelsApart
  <2>3. groups' \subseteq Advisable
    BY <1>3, <1>5, AdvisableKeys
  <2> QED BY <1>2, <2>1, <2>2, <2>3 DEF Promoted
<1>7. Failed' <=> Refused \/ TooLarge
  BY <1>3, <1>4 DEF Failed, Errors
<1>8. Told'
  BY <1>1, <1>2, <1>7 DEF Told, Refused, Ended
<1> QED BY <1>1, <1>2, <1>3, <1>6, <1>8 DEF AdviceInv, Ended

LEMMA PatternsApart ==
  ASSUME job \in Jobs, NEW label \in Labels, NEW m \in Labels, NEW g \in STRING, NEW h \in STRING,
         Pattern(label, g) = Pattern(m, h)
  PROVE  label = m /\ g = h
<1>1. label \in Key /\ m \in Key
  BY LabelKey
<1>2. Front(Pattern(label, g)) = label /\ Last(Pattern(label, g)) = g
  BY <1>1, Patterns
<1>3. Front(Pattern(m, h)) = m /\ Last(Pattern(m, h)) = h
  BY <1>1, Patterns
<1> QED BY <1>2, <1>3

\* What is advised on one package leaves what is advised on the others.
LEMMA PackageAdvice ==
  ASSUME AdviceInv, NEW label \in Labels, CheckPackage(label)
  PROVE  AdviceInv'
<1>1. /\ stage = "packages" /\ label \in packages /\ UNCHANGED <<job, stage, collision>>
      /\ packages' = packages \ {label}
      /\ messages' \in {messages, messages \cup {"binary packages"}, messages \cup {"large package"}}
      /\ IF _pkg_size(label) <= job.threshold THEN groups' = groups
         ELSE groups' = IF Globs(label) = {} THEN Whole(groups, {label}) ELSE Split(groups, label, Globs(label))
  BY Zenon DEF CheckPackage, Globs, PerFile, Split, Pattern
<1>2. job \in Jobs /\ packages \subseteq Labels /\ Promoted /\ groups \subseteq Advisable
  BY DEF AdviceInv, Promoted
<1>3. Labels' = Labels /\ Advisable' = Advisable /\ TooLarge' = TooLarge
  BY <1>1, PackagesStay
<1>4. \A m \in Labels : _pkg_size(m)' = _pkg_size(m) /\ Globs(m)' = Globs(m)
  BY <1>1, PackageStays
<1>5. /\ _pkg_size(label) \in Nat /\ job.threshold \in Nat
      /\ IsFiniteSet(Globs(label)) /\ Globs(label) \subseteq STRING
  BY <1>2, PackageSize, PackagesRead, GlobsRead
<1>6. Weighed' = Weighed \cup (IF _pkg_size(label) <= job.threshold THEN {} ELSE {label})
  <2>1. _pkg_size(label) > job.threshold <=> ~(_pkg_size(label) <= job.threshold)
    BY <1>5
  <2> QED BY <1>1, <1>2, <1>3, <1>4, <2>1 DEF Weighed
<1>7. label \notin Weighed /\ \A g \in STRING : Pattern(label, g) \notin groups
  BY <1>1, <1>2 DEF Weighed, Promoted
<1>8. Weighed \subseteq Labels
  BY DEF Weighed
<1>9. Promoted'
  <2>1. SUFFICES
          /\ groups' \subseteq Advisable
          /\ \A m \in Labels, g \in STRING : Pattern(m, g) \in groups' <=> m \in Weighed' /\ g \in Globs(m)
          /\ \A m \in Weighed' : m \in groups' <=> Globs(m) = {}
    <3>1. \A m \in Labels, g \in STRING : (Pattern(m, g) \in groups)' <=> (m \in Weighed)' /\ g \in Globs(m)'
      <4> SUFFICES ASSUME NEW m \in Labels, NEW g \in STRING
                   PROVE  (Pattern(m, g) \in groups)' <=> (m \in Weighed)' /\ g \in Globs(m)'
        OBVIOUS
      <4>1. Pattern(m, g) \in groups' <=> m \in Weighed' /\ g \in Globs(m)
        BY <2>1
      <4> QED BY <1>4, <4>1
    <3>2. Weighed' \subseteq Labels
      BY <1>6, <1>8
    <3>3. \A m \in Weighed' : (m \in groups)' <=> Globs(m)' = {}
      BY <1>4, <2>1, <3>2
    <3> QED BY <1>3, <2>1, <3>1, <3>3, Zenon DEF Promoted
  <2>2. /\ \A m \in Labels, g \in STRING : Pattern(m, g) \in groups <=> m \in Weighed /\ g \in Globs(m)
        /\ \A m \in Weighed : m \in groups <=> Globs(m) = {}
    BY <1>2 DEF Promoted
  <2>3. CASE _pkg_size(label) <= job.threshold
    <3>1. groups' = groups /\ Weighed' = Weighed
      BY <1>1, <1>6, <2>3
    <3> QED BY <1>2, <2>2, <3>1
  <2>4. CASE ~(_pkg_size(label) <= job.threshold) /\ Globs(label) = {}
    <3>1. groups' = Whole(groups, {label}) /\ Weighed' = Weighed \cup {label}
      BY <1>1, <1>6, <2>4
    <3>2. groups' = groups \cup {label}
      <4>1. {label} \in SUBSET Labels /\ \A m \in {label}, g \in STRING : Pattern(m, g) \notin groups
        BY <1>7
      <4> QED BY <1>2, <3>1, <4>1, WholeAdds
    <3>3. \A m \in Labels, g \in STRING : Pattern(m, g) # label
      BY <1>2, LabelsApart
    <3>4. groups' \subseteq Advisable
      BY <1>2, <3>2, AdvisableKeys
    <3>5. ASSUME NEW m \in Labels, NEW g \in STRING
          PROVE  Pattern(m, g) \in groups' <=> m \in Weighed' /\ g \in Globs(m)
      <4>1. Pattern(m, g) \in groups' <=> Pattern(m, g) \in groups
        BY <3>2, <3>3
      <4>2. CASE m = label
        BY <1>7, <2>4, <4>1, <4>2
      <4>3. CASE m # label
        BY <2>2, <3>1, <4>1, <4>3
      <4> QED BY <4>2, <4>3
    <3>6. \A m \in Weighed' : m \in groups' <=> Globs(m) = {}
      BY <2>2, <2>4, <3>1, <3>2
    <3> QED BY <3>4, <3>5, <3>6
  <2>5. CASE ~(_pkg_size(label) <= job.threshold) /\ Globs(label) # {}
    <3>1. groups' = Split(groups, label, Globs(label)) /\ Weighed' = Weighed \cup {label}
      BY <1>1, <1>6, <2>5
    <3>2. groups' = (groups \ {label}) \cup {Pattern(label, g) : g \in Globs(label)}
      BY <1>2, <1>5, <2>5, <3>1, SplitAdds
    <3>3. \A m \in Labels, g \in STRING : Pattern(m, g) \notin Labels
      BY <1>2, LabelsApart
    <3>4. groups' \subseteq Advisable
      <4>1. \A g \in Globs(label) : Pattern(label, g) \in Advisable
        BY <1>2, <1>5, AdvisableKeys
      <4> QED BY <1>2, <3>2, <4>1
    <3>5. ASSUME NEW m \in Labels, NEW g \in STRING
          PROVE  Pattern(m, g) \in groups' <=> m \in Weighed' /\ g \in Globs(m)
      <4>1. CASE m = label
        <5>1. Pattern(m, g) \in groups' <=> \E h \in Globs(label) : Pattern(label, g) = Pattern(label, h)
          BY <1>7, <3>2, <4>1
        <5>2. Pattern(m, g) \in groups' <=> g \in Globs(label)
          BY <1>2, <1>5, <5>1, PatternsApart
        <5> QED BY <3>1, <4>1, <5>2
      <4>2. CASE m # label
        <5>1. \A h \in Globs(label) : Pattern(m, g) # Pattern(label, h)
          BY <1>2, <1>5, <4>2, PatternsApart
        <5>2. Pattern(m, g) \in groups' <=> Pattern(m, g) \in groups
          BY <3>2, <3>3, <5>1
        <5> QED BY <2>2, <3>1, <4>2, <5>2
      <4> QED BY <4>1, <4>2
    <3>6. ASSUME NEW m \in Weighed'
          PROVE  m \in groups' <=> Globs(m) = {}
      <4>1. m \in Labels /\ (m # label => m \in Weighed)
        BY <1>8, <3>1
      <4>2. m \in groups' <=> m # label /\ m \in groups
        BY <1>5, <3>2, <3>3, <4>1
      <4> QED BY <2>2, <2>5, <4>1, <4>2
    <3> QED BY <3>4, <3>5, <3>6
  <2> QED BY <2>3, <2>4, <2>5
<1>10. Failed' <=> Failed
  BY <1>1 DEF Failed, Errors
<1>11. Told'
  <2>1. Refused' = Refused /\ ~Ended'
    BY <1>1 DEF Refused, Ended
  <2> QED BY <1>1, <1>3, <1>10, <2>1 DEF AdviceInv, Told
<1> QED BY <1>1, <1>2, <1>3, <1>9, <1>11 DEF AdviceInv, Ended

LEMMA ReportAdvice ==
  ASSUME AdviceInv, Report
  PROVE  AdviceInv'
<1>1. /\ stage = "packages" /\ packages = {}
      /\ stage' = IF Failed THEN "exit 1" ELSE "exit 0"
      /\ UNCHANGED <<job, collision, messages, groups, packages>>
  BY DEF Report, Failed
<1>2. Promoted' /\ Labels' = Labels /\ TooLarge' = TooLarge
  BY <1>1, PromotedStays, PackagesStay DEF AdviceInv
<1>3. Refused' = Refused
  BY <1>1 DEF Refused
<1>4. Told'
  BY <1>1, <1>2, <1>3 DEF AdviceInv, Told, Ended
<1> QED BY <1>1, <1>2, <1>4 DEF AdviceInv, Ended

LEMMA NextAdvice == AdviceInv /\ [Next]_vars => AdviceInv'
<1> SUFFICES ASSUME AdviceInv, [Next]_vars PROVE AdviceInv'
  OBVIOUS
<1>1. CASE ReadRow
  <2>1. /\ stage = "rows" /\ stage' \in {"rows", "layers"}
        /\ UNCHANGED <<job, messages, groups, packages>>
    BY <1>1 DEF ReadRow, Rest
  <2> QED BY <2>1, RowsAdvice
<1>2. CASE ReadMarker
  BY <1>2, RowsAdvice DEF ReadMarker, Rest
<1>3. CASE EndRows
  BY <1>3, RowsAdvice DEF EndRows, Rest
<1>4. CASE CheckCollision
  BY <1>4, CollisionAdvice
<1>5. CASE CheckSquashed
  BY <1>5, SquashedAdvice
<1>6. CASE \E label \in DOMAIN job.packages : CheckPackage(label)
  BY <1>6, PackageAdvice DEF Labels
<1>7. CASE Report
  BY <1>7, ReportAdvice
<1>8. CASE UNCHANGED vars
  <2>1. UNCHANGED <<job, stage, collision, messages, groups, packages>>
    BY <1>8 DEF vars
  <2>2. Promoted' /\ Told' /\ Labels' = Labels
    BY <2>1, PromotedStays, ToldStays, PackagesStay DEF AdviceInv
  <2> QED BY <2>1, <2>2 DEF AdviceInv, Ended
<1> QED BY <1>1, <1>2, <1>3, <1>4, <1>5, <1>6, <1>7, <1>8 DEF Next, Terminating

LEMMA AdviceImplies == AdviceInv => AdviceConsistent
<1> SUFFICES ASSUME AdviceInv, Ended PROVE AdviceConsistent
  BY Zenon DEF AdviceConsistent
<1> DEFINE By(label) == {key \in groups : Len(key) > Len(label) /\ IsPrefix(label, key)}
<1>1. job \in Jobs /\ packages = {} /\ groups \subseteq Advisable
  BY DEF AdviceInv, Promoted
<1>2. Weighed = {label \in Labels : _pkg_size(label) > job.threshold}
  BY <1>1 DEF Weighed
<1>3. ASSUME NEW label \in Labels, NEW key \in By(label)
      PROVE  \E g \in STRING : key = Pattern(label, g) /\ label \in Weighed /\ g \in Globs(label)
  <2>1. key \in Advisable /\ key \in groups /\ IsPrefix(label, key) /\ Len(key) > Len(label)
    BY <1>1
  <2>2. key # label
    <3>1. Len(label) \in Nat /\ ~(Len(label) > Len(label))
      BY <1>1, LabelKey
    <3> QED BY <2>1, <3>1, Zenon
  <2>3. PICK g \in STRING : key = Pattern(label, g)
    BY <1>1, <2>1, <2>2, GoesOn
  <2> QED BY <2>1, <2>3 DEF AdviceInv, Promoted
<1>4. ASSUME NEW label \in Labels, label \in groups PROVE By(label) = {}
  <2> SUFFICES ASSUME NEW key \in By(label) PROVE FALSE
    OBVIOUS
  <2>1. label \in Weighed /\ Globs(label) # {}
    BY <1>3
  <2> QED BY <1>4, <2>1 DEF AdviceInv, Promoted
<1>5. ASSUME NEW label \in Weighed PROVE label \in groups \/ By(label) # {}
  <2>1. label \in Labels
    BY DEF Weighed
  <2>2. CASE Globs(label) = {}
    BY <2>2 DEF AdviceInv, Promoted
  <2>3. CASE Globs(label) # {}
    <3>1. PICK g \in Globs(label) : g \in STRING
      BY <1>1, <2>1, <2>3, GlobsRead
    <3>2. Pattern(label, g) \in groups
      BY <2>1, <3>1 DEF AdviceInv, Promoted
    <3>3. label \in Key /\ Len(label) \in Nat
      BY <1>1, <2>1, LabelKey
    <3>4. Len(Pattern(label, g)) > Len(label) /\ IsPrefix(label, Pattern(label, g))
      <4>1. Len(Pattern(label, g)) = Len(label) + 1 /\ IsPrefix(label, Pattern(label, g))
        BY <3>1, <3>3, Patterns
      <4>2. \A n \in Nat : n + 1 > n
        OBVIOUS
      <4> QED BY <3>3, <4>1, <4>2, Zenon
    <3> QED BY <3>2, <3>4
  <2> QED BY <2>2, <2>3
<1>6. ASSUME NEW label \in Weighed, NEW key \in By(label)
      PROVE  \E f \in _find_large_files(label, MinFile) : f.glob = Last(key)
  <2>1. label \in Labels
    BY DEF Weighed
  <2>2. PICK g \in STRING : key = Pattern(label, g) /\ g \in Globs(label)
    BY <1>3, <2>1
  <2>3. Last(key) = g
    BY <1>1, <2>1, <2>2, LabelKey, Patterns
  <2> QED BY <1>1, <2>1, <2>2, <2>3, GlobsRead
<1>7. stage = "exit 1" <=> Refused \/ TooLarge
  BY DEF AdviceInv, Told
<1> HIDE DEF By
<1> QED
  BY <1>2, <1>4, <1>5, <1>6, <1>7, Zenon DEF AdviceConsistent, By, Labels, Refused, TooLarge

\* Whatever the packages, their files and their sizes, the advice promotes each
\* package over the threshold one way, by patterns of its own large files if by
\* patterns, none both ways, and the action fails for an error only.
THEOREM AdviceConsistentCorrect == Spec => []AdviceConsistent
<1> QED BY InitAdvice, NextAdvice, AdviceImplies, PTL DEF Spec
=============================================================================
