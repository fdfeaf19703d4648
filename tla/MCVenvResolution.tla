-------------------------- MODULE MCVenvResolution --------------------------
EXTENDS ModuleManifest

\* Two wheels of up to three files each, and three of up to two, over a package
\* tree of three levels; the distributions are different or the same.

MCNative == {"n.so"}
MCMetadata == {"d1.dist-info", "d2.dist-info"}
Dist(d) == <<d, "METADATA">>

Small ==
  {<<"a", "__init__.py">>, <<"a", "b", "__init__.py">>, <<"a", "b", "m.py">>, <<"a", "b", "n.so">>,
   <<"a", "b", "c", "m.py">>, <<"z", "m.py">>}

Large ==
  {<<"a", "__init__.py">>, <<"a", "m.py">>, <<"a", "n.so">>, <<"a", "b", "__init__.py">>,
   <<"a", "b", "m.py">>, <<"a", "b", "n.so">>, <<"a", "b", "c", "__init__.py">>,
   <<"a", "b", "c", "m.py">>, <<"z.py">>}

Subsets(S, n) == {F \in SUBSET S : Cardinality(F) \in 1..n}
Few(d) == {WheelRecord(F \cup {Dist(d)}, {}) : F \in Subsets(Small, 2)}
Many(d) == {WheelRecord(F \cup {Dist(d)}, {}) : F \in Subsets(Large, 3)}
Few1 == Few("d1.dist-info")
Few2 == Few("d2.dist-info")
Many1 == Many("d1.dist-info")
Many2 == Many("d2.dist-info")

Layouts == (Many1 \X Many1) \cup (Many1 \X Many2)
  \cup (Few1 \X Few1 \X Few2) \cup (Few1 \X Few2 \X Few1)

\* Wheels described by hand, next to each other and to inspected ones.
Nest ==
  {<<"a", "__init__.py">>, <<"a", "m.py">>, <<"a", "b", "__init__.py">>, <<"a", "b", "m.py">>,
   <<"a", "b", "c", "__init__.py">>, <<"a", "b", "c", "m.py">>}
Hand(d) == {HandRecord(F \cup {Dist(d)}, e) : F \in Subsets(Nest, 2), e \in BOOLEAN}
Derived(d) == {WheelRecord(F \cup {Dist(d)}, {}) : F \in Subsets(Nest, 2)}
Hand1 == Hand("d1.dist-info")
Hand2 == Hand("d2.dist-info")
Single1 == {HandRecord({f, Dist("d1.dist-info")}, e) : f \in Nest, e \in BOOLEAN}
Derived1 == Derived("d1.dist-info")
Derived2 == Derived("d2.dist-info")

HandLayouts == (Hand1 \X Hand1) \cup (Hand1 \X Hand2) \cup (Hand1 \X Single1 \X Hand2)
  \cup (Hand1 \X Derived1) \cup (Derived1 \X Hand2)
  \cup (Derived1 \X Derived2 \X Single1) \cup (Single1 \X Derived2 \X Derived2)

\* Data files at one path and at three depths below it, and one that the
\* environment owns; a wheel cannot ship a file and a path below it.
Catalog ==
  {<<"share", "x">>, <<"share", "x", "y">>, <<"share", "x", "y", "z">>,
   <<"share", "w", "y">>, <<"etc">>, <<"bin", "tool">>}
MCOwned == {"pyvenv.cfg", "bin", "lib"}
Installable == {F \in SUBSET Catalog : \A f \in F : Ancestors(f) \cap F = {}}
DataLayouts == (Installable \X Installable) \cup (Installable \X Installable \X Installable)

\* The parts do not read each other's state, so one varies at a time.
Plain(i, d) == WheelRecord({<<IF i = 1 THEN "u" ELSE IF i = 2 THEN "v" ELSE "w">>}, d)
DataSets == {[i \in DOMAIN ds |-> Plain(i, ds[i])] : ds \in DataLayouts}

\* Modules and packages with private names, and a stub distribution.
Hidden ==
  {<<"_p.py">>, <<"a", "_p.py">>, <<"_q", "m.py">>, <<"a", "m.py">>,
   <<"a", "n.so">>, <<"a", "n.txt">>}
HiddenLayouts ==
  {WheelRecord(F \cup {Dist("d1.dist-info")}, {}) : F \in Subsets(Hidden, 2)} \X
    {WheelRecord(F \cup {Dist("d2.dist-info")}, {}) : F \in Subsets(Hidden, 2)}

\* A package that vendors a distribution, modules in its metadata directory
\* included, on either side of the vendored distribution itself.
Vendoring == {<<"a", "m.py">>, <<"a", "n.so">>, <<"a", "d2.dist-info", "m.py">>, <<"z", "m.py">>}
Vendored ==
  {WheelRecord(F \cup {Dist("d1.dist-info"), <<"a", "d2.dist-info", "METADATA">>}, {})
     : F \in Subsets(Vendoring, 2)}
Apart == {WheelRecord(F \cup {Dist("d2.dist-info")}, {}) : F \in Subsets(Vendoring, 2)}
VendoredLayouts == (Vendored \X Apart) \cup (Apart \X Vendored)

\* The first archive lists its own METADATA first, the second what it vendors.
MCFirstListed(w, S) ==
  CHOOSE m \in S : \A n \in S : IF w = 1 THEN Len(m) <= Len(n) ELSE Len(m) >= Len(n)

MCStem ==
  [f \in {"__init__.py", "m.py", "n.so", "z.py", "_p.py"} |->
     CASE f = "__init__.py" -> "__init__" [] f = "m.py" -> "m" [] f = "n.so" -> "n"
       [] f = "z.py" -> "z" [] f = "_p.py" -> "_p"]
MCImportable == DOMAIN MCStem
MCPrivate == {"__init__", "_p", "_q"}

MCWheelSets == Layouts \cup HandLayouts \cup HiddenLayouts \cup VendoredLayouts \cup DataSets
=============================================================================
