--------------------------- MODULE MCImageValidator -------------------------
(* Small images for ImageValidator: rows that share destinations, in every   *)
(* order, and packages around the thresholds.                                *)
EXTENDS ImageValidator

MCHardLimit == 3
MCMegabyte == 2
MCMinFile == 4
MCMaxPromoted == 2

File(bytes) == [is |-> "file", target |-> None, behind |-> bytes]
Link(to, bytes) == [is |-> "link", target |-> to, behind |-> bytes]

MCFs ==
  (<<"wheel", "m">> :> File("one")) @@ (<<"app", "m">> :> File("one")) @@
  (<<"rule", "m">> :> File("one")) @@ (<<"lib", "m">> :> File("two")) @@ (<<"app", "l">> :> Link("../m", "one")) @@
  (<<"lib", "l">> :> Link("../m", "one")) @@
  (<<"lib", "abs">> :> Link(None, "one"))

RowOf(dest, kind, mode, source) ==
  [dest |-> dest, kind |-> kind, mode |-> mode, source |-> source,
   type |-> IF kind = "link" THEN "link" ELSE "file"]

SourceRows ==
  {RowOf(<<"a">>, "contents", "0755", <<"wheel", "m">>), RowOf(<<"x", "..", "a">>, "content", "0755", <<"app", "m">>),
   RowOf(<<"a">>, "content", "0755", <<"app", "l">>), RowOf(<<"a">>, "link", "0755", <<"app", "l">>),
   RowOf(<<"a">>, "link", "0755", <<"lib", "l">>), RowOf(<<"a">>, "link", "0755", <<"lib", "abs">>),
   RowOf(<<".", "a">>, "link", "0755", <<"lib", "abs">>),
   RowOf(<<".", "a", "b">>, "contents", "0755", <<"lib", "m">>)}
OwnedRows ==
  {RowOf(<<"a">>, "contents", "0755", <<"wheel", "m">>), RowOf(<<"a">>, "content", "0755", <<"app", "m">>),
   RowOf(<<"a">>, "content", "0755", <<"lib", "m">>), RowOf(<<"a", "c">>, "contents", "0755", <<"lib", "m">>),
   RowOf(<<"a">>, "content", "0755", <<"lib", "l">>)}
GroupRows ==
  {RowOf(<<"a">>, "content", "0644", <<"app", "m">>), RowOf(<<"a">>, "content", "0644", <<"rule", "m">>),
   RowOf(<<"a">>, "link", "0644", <<"app", "l">>)}
OddRows == {RowOf(<<"a", "..", "..">>, "content", "0755", <<"app", "m">>), RowOf(<<"b">>, None, "0755", <<"lib", "m">>)}

UpTo1(S) == {<< >>} \cup {<<r>> : r \in S}
UpTo2(S) == {<< >>} \cup {<<r>> : r \in S} \cup {<<r, s>> : r, s \in S}

NoPackages == [label \in {} |-> << >>]
RowJob(rows, exact, dirs) ==
  [rows |-> rows, skip_paths |-> exact, skip_dirs |-> dirs, packages |-> NoPackages,
   rule_groups |-> Len(rows) + 1, chmod_paths |-> {}, chmod_dirs |-> {},
   layer_count |-> 1, warn_layer_count |-> 1, threshold |-> 10, binary_globs |-> {"*.so"}]

Marked == {a \o <<Marker>> \o b : a \in UpTo2(SourceRows), b \in UpTo2(OwnedRows)}
Plain == UpTo2(SourceRows) \cup UpTo2(SourceRows \cup OddRows) \cup {<<r, s, t>> : r, s, t \in SourceRows}
RowJobs ==
  {RowJob(rows, s[1], s[2]) : rows \in Marked,
     s \in {<<{}, {}>>, <<{<<"wheel", "m">>}, {}>>, <<{<<"app", "m">>}, {<<"lib">>}>>}}
  \cup {RowJob(rows, {}, {}) : rows \in Plain}
  \cup {[RowJob(a \o <<Marker>> \o b \o c, skip, {}) EXCEPT !.rule_groups = Len(a) + Len(b) + 2,
                                                          !.chmod_paths = chmod[1], !.chmod_dirs = chmod[2]] :
           a \in UpTo1(SourceRows), b \in UpTo1(OwnedRows), c \in UpTo2(GroupRows),
           skip \in {{}, {<<"app", "m">>, <<"rule", "m">>}},
           chmod \in {<<{<<"app", "m">>}, {}>>, <<{}, {<<"app">>}>>}}
  \cup {RowJob(rows, {}, {<<"lib">>}) : rows \in UpTo2(OddRows)}

Part(record, binary, files) == [record |-> record, binary |-> binary, files |-> files]
Big(glob, size) == [glob |-> glob, size |-> size]
Packages ==
  {<<Part(None, b, <<f>>)>> : b \in BOOLEAN, f \in {Big("*.so", 1), Big("*.py", 6), Big("*.so", 11)}}
  \cup {<<Part(11, TRUE, <<Big("*.py", 2)>>)>>,
        <<Part(None, FALSE, <<Big("*.so", 5), Big("*.so", 4), Big("*.py", 3)>>), Part(1, FALSE, << >>)>>}
Labels == {<<"numpy", "numpy">>, <<"scipy", "scipy">>, <<"torch">>}
SizeJobs ==
  {[RowJob(<<RowOf(<<"a">>, "contents", "0755", <<"wheel", "m">>)>>, {}, {}) EXCEPT !.packages = p, !.layer_count = n] :
     p \in UNION {[S -> Packages] : S \in SUBSET Labels}, n \in {1, 2, 4}}

MCJobs == RowJobs \cup SizeJobs
=============================================================================
