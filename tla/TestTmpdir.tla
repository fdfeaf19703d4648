----------------------------- MODULE TestTmpdir -----------------------------
(***************************************************************************)
(* set_test_tmpdir of py/private/launcher_env: every generated test        *)
(* launcher points TMPDIR at a short symlink to its TEST_TMPDIR, in a      *)
(* directory under /tmp that all runs of a user share.  Runs of one target *)
(* agree on the symlink's name; there is no lock, only the atomicity of    *)
(* mkdir, symlink, readlink and unlink.  One action is one system call; a  *)
(* run may fork, exit or be killed between any two.                        *)
(*                                                                         *)
(* An environment without TEST_TMPDIR, and Windows, make no alias and are  *)
(* left out.                                                               *)
(***************************************************************************)
CONSTANTS
  Proc,    \* process ids; none is used twice
  Target,  \* test targets: a target's runs have the same TEST_TMPDIR
  Alias,   \* names in the shared directory
  Digest,  \* the alias a target's TEST_TMPDIR hashes to
  Nobody,  \* no process
  Nowhere, \* no symlink
  Free,    \* an alias that nobody made
  Orphan   \* an alias whose owner died

ASSUME DigestAssumption == Digest \in [Target -> Alias]
ASSUME NobodyAssumption == Nobody \notin Proc
ASSUME NowhereAssumption == Nowhere \notin Target
ASSUME HolderAssumption == Free \notin Proc /\ Orphan \notin Proc /\ Free # Orphan

VARIABLES
  dir,     \* /tmp/rpy-<uid>: "absent", "private" or "unsafe"
  link,    \* what each alias points to
  at,      \* where each process is; "unborn" before and "gone" after it runs
  target,  \* the target whose test a process runs
  tmpdir,  \* TMPDIR: "unset", "real" or "alias"
  hook     \* the owner_pid of the process's atexit callback

launcherVars == <<dir, link, at, target, tmpdir, hook>>

LauncherInit ==
  /\ dir \in {"absent", "private", "unsafe"}
  /\ link = [a \in Alias |-> Nowhere]
  /\ at = [p \in Proc |-> "unborn"]
  /\ target \in [Proc -> Target]
  /\ tmpdir = [p \in Proc |-> "unset"]
  /\ hook = [p \in Proc |-> Nobody]

\* The symlink of p's run.
Mine(p) == Digest[target[p]]

Go(p, label) == at' = [at EXCEPT ![p] = label]

\* TMPDIR is set, to the alias or to TEST_TMPDIR itself; the tests run.
Settle(p, where) ==
  /\ tmpdir' = [tmpdir EXCEPT ![p] = where]
  /\ Go(p, "test")

Launch(p) ==
  /\ at[p] = "unborn"
  /\ Go(p, "mkdir")
  /\ UNCHANGED <<dir, link, target, tmpdir, hook>>

\* _alias_dir: make the directory, and inspect one that is there already.
Mkdir(p) ==
  /\ at[p] = "mkdir"
  /\ \/ /\ dir = "absent" /\ dir' = "private"
        /\ Go(p, "symlink") /\ UNCHANGED tmpdir
     \/ /\ dir # "absent"
        /\ Go(p, "lstat") /\ UNCHANGED <<dir, tmpdir>>
     \/ Settle(p, "real") /\ UNCHANGED dir  \* any other OSError
  /\ UNCHANGED <<link, target, hook>>

LstatWrong(p) ==  \* reuses whatever is there
  /\ at[p] = "lstat"
  /\ Go(p, "symlink")
  /\ UNCHANGED <<dir, link, target, tmpdir, hook>>
Lstat(p) ==
  /\ at[p] = "lstat"
  /\ IF dir = "private" THEN Go(p, "symlink") /\ UNCHANGED tmpdir
     ELSE Settle(p, "real")
  /\ UNCHANGED <<dir, link, target, hook>>

\* os.symlink: the alias is new, or it is there, or the call fails.
Symlink(p) ==
  /\ at[p] = "symlink"
  /\ \/ /\ link[Mine(p)] = Nowhere
        /\ link' = [link EXCEPT ![Mine(p)] = target[p]]
        /\ Go(p, "register") /\ UNCHANGED tmpdir
     \/ /\ link[Mine(p)] # Nowhere
        /\ Go(p, "readlink") /\ UNCHANGED <<link, tmpdir>>
     \/ Settle(p, "real") /\ UNCHANGED link
  /\ UNCHANGED <<dir, target, hook>>

\* Another run's alias is used without taking ownership of it.
ReadlinkWrong(p) ==  \* registers the callback for it as well
  /\ at[p] = "readlink"
  /\ IF link[Mine(p)] = target[p] THEN Go(p, "register") /\ UNCHANGED tmpdir
     ELSE Settle(p, "real")
  /\ UNCHANGED <<dir, link, target, hook>>
Readlink(p) ==
  /\ at[p] = "readlink"
  /\ Settle(p, IF link[Mine(p)] = target[p] THEN "alias" ELSE "real")
  /\ UNCHANGED <<dir, link, target, hook>>

Register(p) ==
  /\ at[p] = "register"
  /\ hook' = [hook EXCEPT ![p] = p]
  /\ Settle(p, "alias")
  /\ UNCHANGED <<dir, link, target>>

\* A test forks: the child has its parent's environment and callbacks.
Fork(p, c) ==
  /\ at[p] = "test" /\ at[c] = "unborn"
  /\ target' = [target EXCEPT ![c] = target[p]]
  /\ tmpdir' = [tmpdir EXCEPT ![c] = tmpdir[p]]
  /\ hook' = [hook EXCEPT ![c] = hook[p]]
  /\ Go(c, "test")
  /\ UNCHANGED <<dir, link>>

\* A normal exit runs _unlink_alias, which acts only in the owner itself.
ExitWrong(p) ==  \* acts in every process that has the callback
  /\ at[p] = "test"
  /\ link' = IF hook[p] # Nobody THEN [link EXCEPT ![Mine(p)] = Nowhere] ELSE link
  /\ Go(p, "gone")
  /\ UNCHANGED <<dir, target, tmpdir, hook>>
Exit(p) ==
  /\ at[p] = "test"
  /\ link' = IF hook[p] = p THEN [link EXCEPT ![Mine(p)] = Nowhere] ELSE link
  /\ Go(p, "gone")
  /\ UNCHANGED <<dir, target, tmpdir, hook>>

\* A timeout or a signal: no callback runs.
Kill(p) ==
  /\ at[p] \notin {"unborn", "gone"}
  /\ Go(p, "gone")
  /\ UNCHANGED <<dir, link, target, tmpdir, hook>>

AllGone == (\A p \in Proc : at[p] = "gone") /\ UNCHANGED launcherVars

LauncherNext ==
  \/ \E p \in Proc :
       \/ Launch(p) \/ Mkdir(p) \/ Lstat(p) \/ Symlink(p) \/ Readlink(p)
       \/ Register(p) \/ Exit(p) \/ Kill(p)
       \/ \E c \in Proc : Fork(p, c)
  \/ AllGone

LauncherSpec == LauncherInit /\ [][LauncherNext]_launcherVars

-----------------------------------------------------------------------------
LauncherTypeOK ==
  /\ dir \in {"absent", "private", "unsafe"}
  /\ link \in [Alias -> Target \cup {Nowhere}]
  /\ at \in [Proc -> {"unborn", "mkdir", "lstat", "symlink", "readlink",
                      "register", "test", "gone"}]
  /\ target \in [Proc -> Target]
  /\ tmpdir \in [Proc -> {"unset", "real", "alias"}]
  /\ hook \in [Proc -> Proc \cup {Nobody}]

\* p made the alias, is alive, and will remove it if it exits normally.
Owns(p) == at[p] = "register" \/ (at[p] = "test" /\ hook[p] = p)

\* However runs, forks and deaths interleave, one alias never has two owners:
\* no run's exit takes away what another run made.
OneOwner ==
  \A p, q \in Proc : Owns(p) /\ Owns(q) /\ Mine(p) = Mine(q) => p = q

\* As long as the run that made an alias lives, the alias leads to its
\* TEST_TMPDIR.
OwnerKeepsAlias == \A p \in Proc : Owns(p) => link[Mine(p)] = target[p]

\* A symlink is made in a directory only this user can write to.
LinksArePrivate == \A a \in Alias : link[a] # Nowhere => dir = "private"

\* An alias disappears only in the normal exit of its owner, and is never
\* pointed elsewhere while it is there.
OnlyOwnerUnlinks ==
  [][\A a \in Alias : link[a] # Nowhere /\ link'[a] # link[a] =>
       /\ link'[a] = Nowhere
       /\ \E p \in Proc : Owns(p) /\ Mine(p) = a /\ at'[p] = "gone"]_launcherVars

\* A run takes an alias for its TMPDIR only when it leads to its own
\* TEST_TMPDIR, even where two targets hash to one name.
TakesOwnDirectory ==
  [][\A p \in Proc : at[p] # "unborn" /\ tmpdir[p] # "alias" /\ tmpdir'[p] = "alias"
       => link'[Mine(p)] = target[p]]_launcherVars

\* The aliases are leases of the runs that made them.
Holder(a) ==
  IF link[a] = Nowhere THEN Free
  ELSE IF \E p \in Proc : Owns(p) /\ Mine(p) = a
       THEN CHOOSE p \in Proc : Owns(p) /\ Mine(p) = a
       ELSE Orphan
Lease == INSTANCE AliasLease WITH
  holder <- [a \in Alias |-> Holder(a)]
LeaseSpec == Lease!Spec
=============================================================================
