----------------------------- MODULE TestDriver -----------------------------
(***************************************************************************)
(* The drivers that a py_test target runs under Bazel: pytest_main with    *)
(* its ShardPlugin, and unittest_main.  Bazel starts one process per shard *)
(* in the same environment; the shards share no state and agree on who     *)
(* runs which test only by what each of them collects.  Bazel reports the  *)
(* target as passed when every shard exits with 0.                         *)
(*                                                                         *)
(* A test is a number, its id; what a driver calls on the test frameworks  *)
(* is modelled by what it does to the driver's variables.                  *)
(***************************************************************************)
EXTENDS Naturals, Sequences, FiniteSets, SequencesExt

CONSTANTS
  Test,      \* the ids of the target's tests
  MaxShards, \* the bound on TEST_TOTAL_SHARDS
  Scenarios  \* the environments to run in

ASSUME TestAssumption == Test \subseteq Nat /\ IsFiniteSet(Test)
ASSUME MaxShardsAssumption == MaxShards \in Nat \ {0}

\* What a test does: "sub" passes but for a failing subtest.
Outcome == {"pass", "skip", "expected", "fail", "error", "sub", "unexpected"}
Bad == {"fail", "error", "sub", "unexpected"}

Scenario ==
  [driver : {"pytest", "unittest"},
   total : 1 .. MaxShards,    \* TEST_TOTAL_SHARDS
   startable : BOOLEAN,       \* pytest is importable, the arguments parse
   importable : BOOLEAN,      \* the test files can be imported
   selected : SUBSET Test,    \* the tests that -k and --test_filter leave
   outcome : [Test -> Outcome],
   order : SetToSeqs(Test),   \* the order in which pytest collects
   failfast : BOOLEAN]
ASSUME ScenariosAssumption == Scenarios \subseteq Scenario

VARIABLES
  env,         \* the scenario
  pc,          \* where each shard's process is
  collected,   \* the tests a shard collected, in the order it met them
  suite,       \* the tests of a shard still to run
  ran,         \* the tests a shard ran
  records,     \* the outcomes recorded for the JUnit XML
  advertised,  \* the shards that touched TEST_SHARD_STATUS_FILE
  exit         \* a shard's exit code, or Running

vars == <<env, pc, collected, suite, ran, records, advertised, exit>>

Running == 256  \* no exit code
Shard == 0 .. env.total - 1
sharded == env.total > 1

Init ==
  /\ env \in Scenarios
  /\ pc = [s \in Shard |-> "start"]
  /\ collected = [s \in Shard |-> << >>]
  /\ suite = [s \in Shard |-> {}]
  /\ ran = [s \in Shard |-> {}]
  /\ records = [s \in Shard |-> {}]
  /\ advertised = {}
  /\ exit = [s \in Shard |-> Running]

Goto(s, label) == pc' = [pc EXCEPT ![s] = label]
Leave(s, code) == Goto(s, "gone") /\ exit' = [exit EXCEPT ![s] = code]

\* Before main() advertises: the import of pytest, or the arguments.
Start(s) ==
  /\ pc[s] = "start"
  /\ IF env.startable THEN Goto(s, "advertise") /\ UNCHANGED exit
     ELSE Leave(s, IF env.driver = "pytest" THEN 1 ELSE 2)
  /\ UNCHANGED <<env, collected, suite, ran, records, advertised>>

advertise_sharding(s) ==
  /\ pc[s] = "advertise"
  /\ advertised' = IF sharded THEN advertised \cup {s} ELSE advertised
  /\ Goto(s, "collect")
  /\ UNCHANGED <<env, collected, suite, ran, records, exit>>

\* The order in which a shard meets the tests.  load_tests hooks and sets may
\* give each unittest process another one; pytest's is the same in all.
Orders == IF env.driver = "unittest" THEN SetToSeqs(Test) ELSE {env.order}

Collect(s) ==
  /\ pc[s] = "collect"
  /\ IF env.importable
     THEN \E order \in Orders :
            collected' = [collected EXCEPT ![s] = order] /\ Goto(s, "shard") /\ UNCHANGED exit
     ELSE Leave(s, IF env.driver = "pytest" THEN 2 ELSE 1) /\ UNCHANGED collected
  /\ UNCHANGED <<env, suite, ran, records, advertised>>

\* Every total-th entry of a sequence, from the s-th on.
Slice(seq, s) == {seq[i] : i \in {j \in DOMAIN seq : (j - 1) % env.total = s}}

Selected(s) == ToSet(collected[s]) \cap env.selected

\* unittest_main: an empty selection fails before it is cut into shards, and
\* the cut is of the tests sorted by id: a test's place in the sorted list is
\* the number of tests with a smaller id.
Place(t, tests) == Cardinality({u \in tests : u < t})
_shardWrong(s) ==  \* cuts the tests in the order they were collected
  IF sharded THEN Slice(SelectSeq(collected[s], LAMBDA t : t \in env.selected), s)
  ELSE Selected(s)
_shard(s) ==
  IF sharded THEN {t \in Selected(s) : Place(t, Selected(s)) % env.total = s}
  ELSE Selected(s)
ShardUnittestWrong(s) ==  \* fails a shard left without tests
  /\ pc[s] = "shard" /\ env.driver = "unittest"
  /\ suite' = [suite EXCEPT ![s] = _shard(s)]
  /\ IF suite'[s] = {} THEN Leave(s, 1) ELSE Goto(s, "run") /\ UNCHANGED exit
  /\ UNCHANGED <<env, collected, ran, records, advertised>>
ShardUnittest(s) ==
  /\ pc[s] = "shard" /\ env.driver = "unittest"
  /\ IF Selected(s) = {} THEN Leave(s, 1) /\ UNCHANGED suite
     ELSE suite' = [suite EXCEPT ![s] = _shard(s)] /\ Goto(s, "run") /\ UNCHANGED exit
  /\ UNCHANGED <<env, collected, ran, records, advertised>>

ShardPytest(s) ==
  /\ pc[s] = "shard" /\ env.driver = "pytest"
  /\ LET left == Slice(collected[s], s) \cap env.selected IN
     /\ suite' = [suite EXCEPT ![s] = left]
     /\ IF left = {} THEN Leave(s, 5) ELSE Goto(s, "run") /\ UNCHANGED exit
  /\ UNCHANGED <<env, collected, ran, records, advertised>>

\* The status the JUnit writer keeps for an outcome.
_recordWrong(o) ==  \* as the base class has it: subtests are not recorded
  IF o \in {"fail", "unexpected"} THEN "failure" ELSE IF o = "error" THEN "error"
  ELSE IF o = "skip" THEN "skipped" ELSE "passed"
_record(o) ==
  IF o \in {"fail", "unexpected", "sub"} THEN "failure" ELSE IF o = "error" THEN "error"
  ELSE IF o = "skip" THEN "skipped" ELSE "passed"

\* One test of the suite; with failfast the first bad one is the last.
RunTest(s, t) ==
  /\ pc[s] = "run" /\ t \in suite[s]
  /\ ran' = [ran EXCEPT ![s] = @ \cup {t}]
  /\ records' = [records EXCEPT ![s] = @ \cup {_record(env.outcome[t])}]
  /\ suite' = [suite EXCEPT
       ![s] = IF env.failfast /\ env.outcome[t] \in Bad THEN {} ELSE @ \ {t}]
  /\ UNCHANGED <<env, pc, collected, advertised, exit>>

\* runner.run returns; the reports are written and the exit code returned.
Finish(s) ==
  /\ pc[s] = "run" /\ suite[s] = {}
  /\ Leave(s, IF \E t \in ran[s] : env.outcome[t] \in Bad THEN 1 ELSE 0)
  /\ UNCHANGED <<env, collected, suite, ran, records, advertised>>

Terminating == (\A s \in Shard : pc[s] = "gone") /\ UNCHANGED vars

Next ==
  \/ \E s \in Shard :
       \/ Start(s) \/ advertise_sharding(s) \/ Collect(s)
       \/ ShardUnittest(s) \/ ShardPytest(s)
       \/ \E t \in suite[s] : RunTest(s, t)
       \/ Finish(s)
  \/ Terminating

Spec == Init /\ [][Next]_vars

-----------------------------------------------------------------------------
Done == \A s \in Shard : pc[s] = "gone"
\* Bazel fails a sharded target whose shards did not touch the status file.
Green == (\A s \in Shard : exit[s] = 0) /\ (sharded => advertised = Shard)

\* A target that Bazel reports as passed ran every test its filters leave,
\* each in exactly one shard, ran at least one, and none of them was bad.
GreenRanEverything ==
  Done /\ Green =>
    /\ UNION {ran[s] : s \in Shard} = env.selected /\ env.selected # {}
    /\ \A s, u \in Shard : s # u => ran[s] \cap ran[u] = {}
    /\ \A t \in env.selected : env.outcome[t] \notin Bad

\* unittest_main.py:296: a shard that holds none of the matching tests still
\* passes, so good tests are green however many shards they are cut into.
GoodTestsAreGreen ==
  Done /\ env.driver = "unittest" /\ env.startable /\ env.importable
    /\ env.selected # {} /\ (\A t \in env.selected : env.outcome[t] \notin Bad)
    => Green

\* The JUnit report and the exit code of a run tell the same.
ReportMatchesExit ==
  \A s \in Shard : pc[s] = "gone" /\ ran[s] # {} =>
    (exit[s] = 0 <=> records[s] \cap {"failure", "error"} = {})
=============================================================================
