---------------------------- MODULE MCTestDriver ----------------------------
(***************************************************************************)
(* TestDriver with three tests: every selection and outcome in up to two   *)
(* shards, three shards of good tests, and the ways a process ends early.  *)
(***************************************************************************)
EXTENDS TestDriver

S(d, n, start, import, sel, out, ff) ==
  [driver |-> d, total |-> n, startable |-> start, importable |-> import,
   selected |-> sel, outcome |-> out, order |-> <<2, 3, 1>>,
   failfast |-> ff]

Drivers == {"pytest", "unittest"}
AllPass == [t \in Test |-> "pass"]

Early ==
  {S(d, n, start, FALSE, Test, AllPass, FALSE) :
     d \in Drivers, n \in 1 .. 2, start \in BOOLEAN}
Wide ==
  {S(d, 3, TRUE, TRUE, Test, AllPass, FALSE) : d \in Drivers}
Usual ==
  {S(d, n, TRUE, TRUE, sel, out, ff) :
     d \in Drivers, n \in 1 .. 2, sel \in SUBSET Test,
     out \in [Test -> {"pass", "sub"}], ff \in BOOLEAN}
Kinds ==
  {S(d, 1, TRUE, TRUE, Test, [t \in Test |-> o], FALSE) : d \in Drivers, o \in Outcome}

MCScenarios == Early \cup Wide \cup Usual \cup Kinds
=============================================================================
