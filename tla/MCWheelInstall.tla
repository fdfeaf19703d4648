--------------------------- MODULE MCWheelInstall ---------------------------
(***************************************************************************)
(* Wheels of a package, a top-level module, their bytecode, native         *)
(* libraries and data files under every pair of a glob set and a patch;    *)
(* and archives whose RECORD, member names, scripts and console scripts    *)
(* compete for the rows of the new RECORD.                                 *)
(***************************************************************************)
EXTENDS WheelInstall, TLC

MCSourceOf == ("mod.311.pyc" :> "mod.py") @@ ("mod.312.pyc" :> "mod.py") @@ ("six.312.pyc" :> "six.py")
  @@ ("__init__.312.pyc" :> "__init__.py") @@ ("new.312.pyc" :> "new.py")
MCBytecodeOf == ("mod.py" :> "mod.312.pyc") @@ ("six.py" :> "six.312.pyc")
  @@ ("__init__.py" :> "__init__.312.pyc") @@ ("new.py" :> "new.312.pyc")
MCSizeOf == ("a" :> 1) @@ ("b" :> 1) @@ ("c" :> 2) @@ ("python" :> 3) @@ ("py2" :> 4)

M(at, rel, data) == [at |-> at, rel |-> rel, data |-> data]
R(rel) == M("root", rel, "a")
meta == R(<<"d.dist-info", "METADATA">>)
rec == R(<<"d.dist-info", "RECORD">>)
init == <<"p", "__init__.py">>
mod == <<"p", "mod.py">>
cache == <<"p", "__pycache__", "mod.311.pyc">>
so == <<"p", "x.so">>
submod == <<"p", "sub", "mod.py">>
six == <<"six.py">>
sixcache == <<"__pycache__", "six.312.pyc">>

Wheel(ms, claims, scripts) == [members |-> ms, claims |-> claims, scripts |-> scripts]

\* Layouts
Contents ==
  {F \in SUBSET {init, mod, cache, so, submod, six, sixcache} :
     F # {} /\ (cache \in F => mod \in F) /\ (sixcache \in F => six \in F)}
Globs ==
  {{}} \cup {{g} : g \in {<<"p">>, <<"p", "__pycache__">>, init, mod, so, <<"p", "sub">>, six,
                          <<"d.dist-info", "METADATA">>, <<"d.dist-info", "RECORD">>}}
  \cup {{init, so}, {mod, six}, {<<"p", "__pycache__">>, <<"__pycache__">>}}
OnePatch(f, e) == <<Site(f) :> e>>
Edit == <<"edit", "b">>
Add == <<"add", "b">>
Gone == <<"remove">>
Patches ==
  {<< >>} \cup {OnePatch(f, Edit) : f \in {mod, six}} \cup {OnePatch(f, Gone) : f \in {init, mod, so, six}}
  \cup {OnePatch(f, Add) : f \in {init, so, <<"p", "new.py">>, <<"p", "sub", "x.so">>,
                                  <<"p", "sub", "__init__.py">>}}
  \cup {OnePatch(mod, Edit) \o OnePatch(<<"d.dist-info", "RECORD">>, Gone),
        OnePatch(mod, Gone) \o OnePatch(mod, Add),
        <<(<<"share", "w">> :> Add)>>, <<(<<"share", "v">> :> Gone)>>}
Data == {<< >>, <<M("data", <<"share", "v">>, "a"), M("data", <<"bin", "v">>, "a")>>}
Listed(F) ==
  LET all == <<init, mod, cache, so, submod, six, sixcache>>
      kept == SelectSeq(all, LAMBDA p : p \in F)
  IN [i \in DOMAIN kept |-> R(kept[i])]
LayoutJobs ==
  [wheel : {Wheel(<<meta, rec>> \o Listed(F) \o D, Empty, {}) : F \in Contents, D \in Data},
   exclude : Globs, patches : Patches, compile : BOOLEAN]

\* Rows
H(c) == [digest |-> Shipped(c), size |-> SizeOf[c]]
Pool ==
  {M("root", mod, c) : c \in {"a", "b", "c"}} \cup {M("purelib", mod, "b"), M("root", mod, "py2")}
  \cup {M("scripts", <<"tool">>, c) : c \in {"a", "python"}}
  \cup {M("data", <<"bin", "tool">>, "b"), M("headers", <<"tool.h">>, "a")}
  \cup {R(<<"p", "v.dist-info", "RECORD">>), R(<<"d.dist-info", "INSTALLER">>),
        R(<<"d.dist-info", "entry_points.txt">>)}

\* A row of RECORD has the digest of the first or the last member of the
\* name; its size may be wrong, and the row may be missing.
Claim(s, kind) ==
  LET names == IF kind = "none" THEN {} ELSE {Name(s[i]) : i \in DOMAIN s}
      at(x) == {i \in DOMAIN s : Name(s[i]) = x}
      one(x) == IF kind = "first" THEN CHOOSE i \in at(x) : \A j \in at(x) : i <= j
                ELSE CHOOSE i \in at(x) : \A j \in at(x) : i >= j
  IN [x \in names |-> IF kind = "size" THEN [H(s[one(x)].data) EXCEPT !.size = 9] ELSE H(s[one(x)].data)]
RowJobs ==
  [wheel : {Wheel(<<rec>> \o s \o <<meta>>, Claim(s, kind), {"tool"}) :
              s \in [1..3 -> Pool], kind \in {"none", "first", "last", "size"}},
   exclude : {{}, {<<"p", "__pycache__">>}}, patches : {<< >>, OnePatch(mod, Edit)}, compile : {FALSE}]

MCJobs == LayoutJobs \cup RowJobs
=============================================================================
