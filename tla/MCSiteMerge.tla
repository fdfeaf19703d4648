---------------------------- MODULE MCSiteMerge ----------------------------
(***************************************************************************)
(* SiteMerge on a directory with a package, a module and its bytecode,     *)
(* four levels deep: every pair and every triple of wheels over it.        *)
(***************************************************************************)
EXTENDS SiteMerge, TLC

CONSTANTS c1, c2

ext == <<"ext">>
sub == <<"ext", "sub">>
cache == <<"ext", "sub", "__pycache__">>
pyc == <<"ext", "sub", "__pycache__", "mod.cpython-311.pyc">>
mod == <<"ext", "sub", "mod.py">>

MCPath == {ext, sub, cache, pyc, mod}
MCRank == (Root :> 0) @@ (ext :> 1) @@ (sub :> 2) @@ (cache :> 3) @@ (pyc :> 4) @@ (mod :> 5)
MCSource == [p \in Path |-> IF p = pyc THEN mod ELSE NoSource]

F(c) == <<"file", c, FALSE>>
T(e, s, k, b, m) == (ext :> e) @@ (sub :> s) @@ (cache :> k) @@ (pyc :> b) @@ (mod :> m)

Wheels ==
  {T(e, Missing, Missing, Missing, Missing) : e \in {Missing, Dir, F(c1)}}
  \cup {T(Dir, F(c1), Missing, Missing, Missing)}
  \cup {T(Dir, Dir, Dir, b, m) :
          b \in {Missing, F(c1), F(c2)},
          m \in {Missing, Dir, F(c1), F(c2), <<"file", c1, TRUE>>}}
  \cup {T(Dir, Dir, k, Missing, m) :
          k \in {Missing, F(c1)}, m \in {Missing, Dir, F(c1), F(c2)}}

MCMerges == {<<u, v>> : u, v \in Wheels} \cup {<<u, v, w>> : u, v, w \in Wheels}
=============================================================================
