--------------------------- MODULE MemoryMonitor ---------------------------
(***************************************************************************)
(* memory_monitor.py: while a wheel build runs, the resident memory of its *)
(* process tree is sampled from /proc.  A sample is a walk of many reads,  *)
(* and between any two of them processes fork, start and end threads, exit *)
(* and are reaped.  One action of the monitor is one read or one decision. *)
(*                                                                         *)
(* A process keeps one resident size for life, a zombie has none, and no   *)
(* process id is used twice.  Where nothing can be sampled (no /proc) the  *)
(* loop only polls and is left out.                                        *)
(***************************************************************************)
EXTENDS Integers, Sequences, FiniteSets, SequencesExt, FiniteSetsExt

CONSTANTS
  Pid,     \* process ids
  Root,    \* the build itself
  Task,    \* thread ids
  Main,    \* the thread a process starts with
  Threads, \* the threads a process may have (a bound)
  Outside, \* the parent of a process whose parent exited
  Rss,     \* resident size of each process
  Step,    \* _REPORT_STEP_BYTES
  ExitCode \* what the build may return

ASSUME RootAssumption == Root \in Pid /\ IsFiniteSet(Pid)
ASSUME TaskAssumption == Main \in Task /\ IsFiniteSet(Task)
ASSUME ThreadsAssumption == Threads \in [Pid -> SUBSET Task] /\ \A p \in Pid : Main \in Threads[p]
ASSUME OutsideAssumption == Outside \notin Pid
ASSUME RssAssumption == Rss \in [Pid -> Nat]
ASSUME StepAssumption == Step \in Nat \ {0}
ASSUME ExitCodeAssumption == ExitCode \subseteq Int

VARIABLES
  life,      \* "unborn", "alive", "zombie" or "gone"
  tasks,     \* the threads of a process
  parent,    \* the process and thread whose child a process is
  code,      \* the exit code of the build once it exited
  pc,        \* where the monitor is, "off" before the build starts
  pending,   \* process ids still to look at
  seen,
  at,        \* the process being looked at
  left,      \* its threads still to look at
  total,
  sampled,
  peak,      \* NoPeak for None
  nextReport,
  reports,   \* the peaks of the "running" reports
  quiet      \* history: the tree has not changed since this sample began

tree == <<life, tasks, parent, code>>
sample == <<pending, seen, at, left, total, sampled>>
memory == <<peak, nextReport, reports>>
monitorVars == <<tree, pc, sample, memory, quiet>>

NoPeak == -1
NoCode == 1000  \* no exit code

MonitorInit ==
  /\ life = [p \in Pid |-> IF p = Root THEN "alive" ELSE "unborn"]
  /\ tasks = [p \in Pid |-> IF p = Root THEN {Main} ELSE {}]
  /\ parent = [p \in Pid |-> <<Outside, Main>>]
  /\ code = NoCode
  /\ pc = "off"
  /\ pending = <<Root>>
  /\ seen = {} /\ at = Root /\ left = {}
  /\ total = 0 /\ sampled = FALSE
  /\ peak = NoPeak /\ nextReport = 0 /\ reports = << >>
  /\ quiet = TRUE

\* Popen(...), and the first sample follows.
Launch ==
  /\ pc = "off"
  /\ pc' = "pop"
  /\ UNCHANGED <<tree, sample, memory, quiet>>

-----------------------------------------------------------------------------
(* The build. *)

Disturb == quiet' = FALSE /\ UNCHANGED <<pc, sample, memory>>

Fork(p, t, c) ==
  /\ life[p] = "alive" /\ t \in tasks[p] /\ life[c] = "unborn"
  /\ life' = [life EXCEPT ![c] = "alive"]
  /\ tasks' = [tasks EXCEPT ![c] = {Main}]
  /\ parent' = [parent EXCEPT ![c] = <<p, t>>]
  /\ UNCHANGED code
  /\ Disturb

StartThread(p, t) ==
  /\ life[p] = "alive" /\ t \in Threads[p] \ tasks[p]
  /\ tasks' = [tasks EXCEPT ![p] = @ \cup {t}]
  /\ UNCHANGED <<life, parent, code>>
  /\ Disturb

\* The kernel gives the children of a thread to another one of its process.
EndThread(p, t) ==
  /\ life[p] = "alive" /\ t \in tasks[p]
  /\ \E heir \in tasks[p] \ {t} :
       parent' = [c \in Pid |-> IF parent[c] = <<p, t>> THEN <<p, heir>> ELSE parent[c]]
  /\ tasks' = [tasks EXCEPT ![p] = @ \ {t}]
  /\ UNCHANGED <<life, code>>
  /\ Disturb

\* The children of a process that exits leave the tree.
Exit(p) ==
  /\ life[p] = "alive"
  /\ life' = [life EXCEPT ![p] = "zombie"]
  /\ tasks' = [tasks EXCEPT ![p] = {Main}]
  /\ parent' = [c \in Pid |-> IF parent[c][1] = p THEN <<Outside, Main>> ELSE parent[c]]
  /\ IF p = Root THEN code' \in ExitCode ELSE UNCHANGED code
  /\ Disturb

Reap(p) ==
  /\ p # Root /\ life[p] = "zombie"
  /\ life' = [life EXCEPT ![p] = "gone"]
  /\ UNCHANGED <<tasks, parent, code>>
  /\ Disturb

-----------------------------------------------------------------------------
(* The monitor. *)

Listed(p) == life[p] \in {"alive", "zombie"}
Children(p, t) == {c \in Pid : Listed(c) /\ parent[c] = <<p, t>>}

Goto(label) == pc' = label /\ UNCHANGED <<tree, quiet>>

PopWrong ==  \* looks at a process as often as it is listed
  /\ pc = "pop" /\ pending # << >>
  /\ pending' = Front(pending)
  /\ at' = Last(pending)
  /\ seen' = seen \cup {at'}
  /\ Goto("statm")
  /\ UNCHANGED <<left, total, sampled, memory>>

\* pid = pending.pop(); one that was seen is skipped.
Pop ==
  /\ pc = "pop" /\ pending # << >>
  /\ pending' = Front(pending)
  /\ IF Last(pending) \in seen
     THEN Goto("pop") /\ UNCHANGED <<seen, at>>
     ELSE /\ at' = Last(pending)
          /\ seen' = seen \cup {at'}
          /\ Goto("statm")
  /\ UNCHANGED <<left, total, sampled, memory>>

\* The size, unless the process is gone or may not be read.
ReadStatm ==
  /\ pc = "statm"
  /\ \/ /\ Listed(at)
        /\ total' = total + IF life[at] = "alive" THEN Rss[at] ELSE 0
        /\ sampled' = TRUE
     \/ UNCHANGED <<total, sampled>>
  /\ Goto("tasks")
  /\ UNCHANGED <<pending, seen, at, left, memory>>

ListTasksWrong ==  \* only looks at the main thread
  /\ pc = "tasks"
  /\ left' = IF Listed(at) THEN tasks[at] \cap {Main} ELSE {}
  /\ Goto("children")
  /\ UNCHANGED <<pending, seen, at, total, sampled, memory>>

ListTasks ==
  /\ pc = "tasks"
  /\ left' = IF Listed(at) THEN tasks[at] ELSE {}
  /\ Goto("children")
  /\ UNCHANGED <<pending, seen, at, total, sampled, memory>>

\* The children of one of the threads that were listed, if it is still there.
ReadChildren(t) ==
  /\ pc = "children" /\ t \in left
  /\ left' = left \ {t}
  /\ pending' = IF Listed(at) /\ t \in tasks[at]
                THEN pending \o SetToSeq(Children(at, t)) ELSE pending
  /\ Goto("children")
  /\ UNCHANGED <<seen, at, total, sampled, memory>>

EndTasks ==
  /\ pc = "children" /\ left = {}
  /\ Goto("pop")
  /\ UNCHANGED <<sample, memory>>

nextStepWrong(p) == p + Step  \* counts from the peak, not from its step
nextStep(p) == (p \div Step + 1) * Step

\* The sample is over: a new peak past the next step is reported.
EndSample ==
  /\ pc = "pop" /\ pending = << >>
  /\ IF sampled
     THEN /\ peak' = IF total > peak THEN total ELSE peak
          /\ IF peak' >= nextReport
             THEN /\ reports' = Append(reports, peak')
                  /\ nextReport' = nextStep(peak')
             ELSE UNCHANGED <<nextReport, reports>>
     ELSE UNCHANGED memory
  /\ Goto("poll")
  /\ UNCHANGED sample

PollWrong ==  \* polls only a build that could be sampled
  /\ pc = "poll"
  /\ IF sampled /\ life[Root] = "zombie"
     THEN /\ life' = [life EXCEPT ![Root] = "gone"]
          /\ pc' = "done"
          /\ UNCHANGED <<sample, quiet>>
     ELSE /\ pc' = "pop"
          /\ pending' = <<Root>> /\ seen' = {}
          /\ total' = 0 /\ sampled' = FALSE
          /\ quiet' = TRUE
          /\ UNCHANGED <<life, at, left>>
  /\ UNCHANGED <<tasks, parent, code, memory>>

\* process.poll() reaps the build; as long as it runs, another sample follows.
Poll ==
  /\ pc = "poll"
  /\ IF life[Root] = "zombie"
     THEN /\ life' = [life EXCEPT ![Root] = "gone"]
          /\ pc' = "done"
          /\ UNCHANGED <<sample, quiet>>
     ELSE /\ pc' = "pop"
          /\ pending' = <<Root>> /\ seen' = {}
          /\ total' = 0 /\ sampled' = FALSE
          /\ quiet' = TRUE
          /\ UNCHANGED <<life, at, left>>
  /\ UNCHANGED <<tasks, parent, code, memory>>

Monitor ==
  \/ Pop \/ ReadStatm \/ ListTasks \/ EndTasks \/ EndSample \/ Poll
  \/ \E t \in left : ReadChildren(t)

Tree == \E p \in Pid :
  \/ \E t \in Task : StartThread(p, t) \/ EndThread(p, t) \/ \E c \in Pid : Fork(p, t, c)
  \/ Exit(p)
  \/ Reap(p)

\* The build and its monitor, until process.poll() has seen the build exit.
MonitorNext == pc \notin {"off", "done"} /\ (Tree \/ Monitor)

-----------------------------------------------------------------------------
SizeOf(S) == MapThenSumSet(LAMBDA p : Rss[p], S)

\* The tree as it is now: the build and the processes it leads to.
Descendants ==
  {p \in Pid : \A S \in SUBSET Pid :
     Root \in S /\ (\A c \in Pid : Listed(c) /\ parent[c][1] \in S => c \in S) => p \in S}
Living == {p \in Descendants : life[p] = "alive"}

\* A process counts once in a sample, also when its parent's thread ended
\* between two reads and its children are listed under two threads, and what
\* exited before a sample does not count in it.
CountedOnce ==
  /\ total <= SizeOf(seen)
  /\ pc = "poll" /\ quiet => total <= SizeOf(Living)

\* A sample during which the tree stood still looked at every process of it,
\* through every thread and at every depth, and at no other one.
QuietSampleComplete == pc = "poll" /\ quiet => seen = Descendants

\* One report for each step of Step bytes the peak enters: never two, and
\* none is missing when the next sample begins.
OneReportPerStep ==
  /\ \A i \in 2 .. Len(reports) : reports[i] \div Step > reports[i - 1] \div Step
  /\ pc = "poll" /\ peak # NoPeak =>
       reports # << >> /\ Last(reports) \div Step = peak \div Step

\* A build that exited is noticed, whatever could be read of it.
ExitNoticed == life[Root] = "zombie" ~> pc = "done"
=============================================================================
