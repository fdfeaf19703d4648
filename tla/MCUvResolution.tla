--------------------------- MODULE MCUvResolution ---------------------------
(***************************************************************************)
(* UvResolution on small locks over three packages, of which b has an      *)
(* extra and two versions.  The second group also asks for b in plain      *)
(* locks; in locks with both versions the first group pins one of them and *)
(* the second the other one, or none.                                      *)
(***************************************************************************)
EXTENDS UvResolution

CONSTANTS a, b, c, v1, v2, x, g1, g2, e1, e2, MaxDeps

MCReleases == [p \in Pkg |-> IF p = b THEN {v1, v2} ELSE {v1}]
MCExtras == [p \in Pkg |-> IF p = b THEN {x} ELSE {}]

N(p, v, e) == [pkg |-> p, ver |-> v, extra |-> e]
A == N(a, v1, Base)
B == N(b, v1, Base)
B2 == N(b, v2, Base)
C == N(c, v1, Base)

Entries(pairs) ==
  {[from |-> p[1], to |-> p[2], extras |-> p[3], marker |-> m] :
     p \in pairs, m \in {Env, {e1}}}

\* The sets of at most k entries.
RECURSIVE UpTo(_, _)
UpTo(entries, k) ==
  IF k = 0 THEN {{}}
  ELSE UpTo(entries, k - 1) \cup {s \cup {e} : s \in UpTo(entries, k - 1), e \in entries}

R(n, m) == [dep |-> n, marker |-> m]

\* One version of each package; what may depend on what: no package on
\* itself, but b[x] on b.
Bx == N(b, v1, x)
PlainEntries ==
  Entries({<<A, B, {}>>, <<A, B, {x}>>, <<A, C, {}>>, <<B, A, {}>>, <<B, C, {}>>,
           <<Bx, A, {}>>, <<Bx, B, {}>>, <<Bx, C, {}>>})
PlainRoots(m) ==
  [g \in {g1, g2} |-> IF g = g1 THEN {R(A, Env)} ELSE {R(A, Env), R(B, m), R(Bx, m)}]
PlainLocks(k, m) ==
  {[locked |-> {A, B, C, Bx}, deps |-> d, roots |-> PlainRoots(m)] : d \in UpTo(PlainEntries, k)}

\* Two versions of b.  No package depends on itself directly.
TwoVersions == {A, B, B2, C, Bx, N(b, v2, x)}
VersionEntries ==
  Entries({<<n, m, es>> \in TwoVersions \X {A, B, B2, C} \X {{}, {x}} :
             n.pkg # m.pkg /\ (m.pkg # b => es = {})})
VersionRoots ==
  {[g \in {g1, g2} |-> {R(A, Env), R(IF g = g1 THEN B ELSE n, Env)}] : n \in {B2, C}}
VersionLocks ==
  {[locked |-> TwoVersions, deps |-> d, roots |-> r] :
     d \in UpTo(VersionEntries, 2), r \in VersionRoots}

MCLocks == PlainLocks(MaxDeps, Env) \cup PlainLocks(2, {e1}) \cup VersionLocks
=============================================================================
