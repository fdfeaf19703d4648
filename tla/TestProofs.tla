----------------------------- MODULE TestProofs -----------------------------
(***************************************************************************)
(* Proofs about what a test goes through: its launcher's temp dir          *)
(* (TestTmpdir), for any number of processes, targets and aliases and any  *)
(* digest, colliding or not; and its driver (TestDriver), for any number   *)
(* of tests and shards and any scenario.                                   *)
(***************************************************************************)
EXTENDS TestTmpdir, TestDriver, FiniteSetTheorems, TLAPS

(***************************************************************************)
(* TestTmpdir.                                                             *)
(***************************************************************************)

\* Only a process that reached its tests has a callback, and a callback names
\* a process that was born: no later child can be mistaken for its owner.
HooksBorn ==
  \A p \in Proc : hook[p] # Nobody =>
    /\ at[p] \in {"test", "gone"}
    /\ at[hook[p]] # "unborn"

\* Only a run that was given the private directory gets to os.symlink.
SymlinksPrivate == \A p \in Proc : at[p] = "symlink" => dir = "private"

LauncherInv ==
  /\ LauncherTypeOK
  /\ HooksBorn
  /\ SymlinksPrivate
  /\ LinksArePrivate
  /\ OwnerKeepsAlias
  /\ OneOwner

\* The initial states satisfy the inductive invariant.
LEMMA LauncherInvInit == LauncherInit => LauncherInv
BY DigestAssumption, NobodyAssumption
   DEF LauncherInit, LauncherInv, LauncherTypeOK, HooksBorn, SymlinksPrivate, LinksArePrivate,
       OwnerKeepsAlias, OneOwner, Owns

\* A step of one process that touches no symlink and hands out no ownership
\* keeps every alias with its owner.
LEMMA StepKeepsOwners ==
  ASSUME LauncherInv,
         link' = link, target' = target,
         \A p \in Proc : Owns(p)' => Owns(p)
  PROVE  OwnerKeepsAlias' /\ OneOwner'
BY DEF LauncherInv, OwnerKeepsAlias, OneOwner, Mine

\* Every step keeps the inductive invariant.
LEMMA LauncherInvNext == LauncherInv /\ [LauncherNext]_launcherVars => LauncherInv'
<1> SUFFICES ASSUME LauncherInv, [LauncherNext]_launcherVars PROVE LauncherInv'
  OBVIOUS
<1> USE DigestAssumption, NobodyAssumption, NowhereAssumption
<1>q. CASE UNCHANGED launcherVars
  BY <1>q DEF launcherVars, LauncherInv, LauncherTypeOK, HooksBorn, SymlinksPrivate, LinksArePrivate,
              OwnerKeepsAlias, OneOwner, Owns, Mine
<1>1. ASSUME NEW p \in Proc, Launch(p) PROVE LauncherInv'
  <2>1. LauncherTypeOK' /\ HooksBorn' /\ SymlinksPrivate' /\ LinksArePrivate'
    BY <1>1 DEF Launch, Go, LauncherInv, LauncherTypeOK, HooksBorn, SymlinksPrivate, LinksArePrivate
  <2>2. \A q \in Proc : Owns(q)' => Owns(q)
    BY <1>1 DEF Launch, Go, Owns, LauncherInv, LauncherTypeOK
  <2>3. OwnerKeepsAlias' /\ OneOwner'
    BY <1>1, <2>2, StepKeepsOwners DEF Launch
  <2> QED BY <2>1, <2>3 DEF LauncherInv
<1>2. ASSUME NEW p \in Proc, Mkdir(p) PROVE LauncherInv'
  <2>1. LauncherTypeOK' /\ HooksBorn' /\ SymlinksPrivate' /\ LinksArePrivate'
    BY <1>2 DEF Mkdir, Go, Settle, LauncherInv, LauncherTypeOK, HooksBorn, SymlinksPrivate, LinksArePrivate
  <2>2. \A q \in Proc : Owns(q)' => Owns(q)
    BY <1>2 DEF Mkdir, Go, Settle, Owns, LauncherInv, LauncherTypeOK, HooksBorn
  <2>3. OwnerKeepsAlias' /\ OneOwner'
    BY <1>2, <2>2, StepKeepsOwners DEF Mkdir
  <2> QED BY <2>1, <2>3 DEF LauncherInv
<1>3. ASSUME NEW p \in Proc, Lstat(p) PROVE LauncherInv'
  <2>1. LauncherTypeOK' /\ HooksBorn' /\ SymlinksPrivate' /\ LinksArePrivate'
    BY <1>3 DEF Lstat, Go, Settle, LauncherInv, LauncherTypeOK, HooksBorn, SymlinksPrivate, LinksArePrivate
  <2>2. \A q \in Proc : Owns(q)' => Owns(q)
    BY <1>3 DEF Lstat, Go, Settle, Owns, LauncherInv, LauncherTypeOK, HooksBorn
  <2>3. OwnerKeepsAlias' /\ OneOwner'
    BY <1>3, <2>2, StepKeepsOwners DEF Lstat
  <2> QED BY <2>1, <2>3 DEF LauncherInv
<1>4. ASSUME NEW p \in Proc, Symlink(p) PROVE LauncherInv'
  <2>1. LauncherTypeOK' /\ HooksBorn' /\ SymlinksPrivate' /\ LinksArePrivate'
    BY <1>4 DEF Symlink, Go, Settle, Mine, LauncherInv, LauncherTypeOK, HooksBorn, SymlinksPrivate, LinksArePrivate
  <2>2. CASE link' = link
    <3>1. \A q \in Proc : Owns(q)' => Owns(q)
      BY <1>4, <2>2 DEF Symlink, Go, Settle, Mine, Owns, LauncherInv, LauncherTypeOK, HooksBorn
    <3> QED BY <1>4, <2>1, <2>2, <3>1, StepKeepsOwners DEF Symlink, LauncherInv
  <2>3. CASE /\ link[Mine(p)] = Nowhere
             /\ link' = [link EXCEPT ![Mine(p)] = target[p]]
             /\ Go(p, "register")
    <3>1. \A q \in Proc : Owns(q) => Mine(q) # Mine(p)
      BY <2>3 DEF LauncherInv, OwnerKeepsAlias, LauncherTypeOK
    <3>2. \A q \in Proc \ {p} : Owns(q)' <=> Owns(q)
      BY <1>4, <2>3 DEF Symlink, Go, Owns, LauncherInv, LauncherTypeOK
    <3>3. Mine(p) \in Alias /\ target' = target
      BY <1>4 DEF Symlink, Mine, LauncherInv, LauncherTypeOK
    <3>4. link'[Mine(p)] = target[p] /\ \A a \in Alias \ {Mine(p)} : link'[a] = link[a]
      BY <2>3, <3>3 DEF LauncherInv, LauncherTypeOK
    <3>5. OwnerKeepsAlias'
      <4> SUFFICES ASSUME NEW q \in Proc, Owns(q)' PROVE link'[Mine(q)] = target[q]
        BY <3>3 DEF OwnerKeepsAlias, Mine
      <4>1. CASE q = p
        BY <4>1, <3>4
      <4>2. CASE q # p
        BY <4>2, <3>1, <3>2, <3>4 DEF LauncherInv, OwnerKeepsAlias, LauncherTypeOK, Mine
      <4> QED BY <4>1, <4>2
    <3>6. OneOwner'
      <4> SUFFICES ASSUME NEW q \in Proc, NEW r \in Proc, Owns(q)', Owns(r)', Mine(q) = Mine(r)
                   PROVE q = r
        BY <3>3 DEF OneOwner, Mine
      <4> QED BY <3>1, <3>2 DEF LauncherInv, OneOwner
    <3> QED BY <2>1, <3>5, <3>6 DEF LauncherInv
  <2> QED BY <1>4, <2>2, <2>3 DEF Symlink
<1>5. ASSUME NEW p \in Proc, Readlink(p) PROVE LauncherInv'
  <2>1. LauncherTypeOK' /\ HooksBorn' /\ SymlinksPrivate' /\ LinksArePrivate'
    BY <1>5 DEF Readlink, Go, Settle, LauncherInv, LauncherTypeOK, HooksBorn, SymlinksPrivate, LinksArePrivate
  <2>2. \A q \in Proc : Owns(q)' => Owns(q)
    BY <1>5 DEF Readlink, Go, Settle, Owns, LauncherInv, LauncherTypeOK, HooksBorn
  <2>3. OwnerKeepsAlias' /\ OneOwner'
    BY <1>5, <2>2, StepKeepsOwners DEF Readlink
  <2> QED BY <2>1, <2>3 DEF LauncherInv
<1>6. ASSUME NEW p \in Proc, Register(p) PROVE LauncherInv'
  <2>1. LauncherTypeOK' /\ HooksBorn' /\ SymlinksPrivate' /\ LinksArePrivate'
    BY <1>6 DEF Register, Go, Settle, LauncherInv, LauncherTypeOK, HooksBorn, SymlinksPrivate, LinksArePrivate
  <2>2. \A q \in Proc : Owns(q)' => Owns(q)
    BY <1>6 DEF Register, Go, Settle, Owns, LauncherInv, LauncherTypeOK
  <2>3. OwnerKeepsAlias' /\ OneOwner'
    BY <1>6, <2>2, StepKeepsOwners DEF Register
  <2> QED BY <2>1, <2>3 DEF LauncherInv
<1>7. ASSUME NEW p \in Proc, Exit(p) PROVE LauncherInv'
  <2>1. LauncherTypeOK' /\ HooksBorn' /\ SymlinksPrivate' /\ LinksArePrivate'
    BY <1>7 DEF Exit, Go, Mine, LauncherInv, LauncherTypeOK, HooksBorn, SymlinksPrivate, LinksArePrivate
  <2>2. target' = target /\ \A q \in Proc : Owns(q)' => Owns(q) /\ q # p
    BY <1>7 DEF Exit, Go, Owns, LauncherInv, LauncherTypeOK
  <2>3. \A q \in Proc : Owns(q)' => link'[Mine(q)] = link[Mine(q)]
    <3> SUFFICES ASSUME NEW q \in Proc, Owns(q)' PROVE link'[Mine(q)] = link[Mine(q)]
      OBVIOUS
    <3>1. Owns(p) => Mine(q) # Mine(p)
      BY <2>2 DEF LauncherInv, OneOwner
    <3> QED BY <1>7, <3>1 DEF Exit, Owns, LauncherInv, LauncherTypeOK, Mine
  <2>4. OwnerKeepsAlias' /\ OneOwner'
    BY <2>2, <2>3 DEF LauncherInv, OwnerKeepsAlias, OneOwner, Mine
  <2> QED BY <2>1, <2>4 DEF LauncherInv
<1>8. ASSUME NEW p \in Proc, Kill(p) PROVE LauncherInv'
  <2>1. LauncherTypeOK' /\ HooksBorn' /\ SymlinksPrivate' /\ LinksArePrivate'
    BY <1>8 DEF Kill, Go, LauncherInv, LauncherTypeOK, HooksBorn, SymlinksPrivate, LinksArePrivate
  <2>2. \A q \in Proc : Owns(q)' => Owns(q)
    BY <1>8 DEF Kill, Go, Owns, LauncherInv, LauncherTypeOK
  <2>3. OwnerKeepsAlias' /\ OneOwner'
    BY <1>8, <2>2, StepKeepsOwners DEF Kill
  <2> QED BY <2>1, <2>3 DEF LauncherInv
<1>9. ASSUME NEW p \in Proc, NEW c \in Proc, Fork(p, c) PROVE LauncherInv'
  <2>1. LauncherTypeOK' /\ HooksBorn' /\ SymlinksPrivate' /\ LinksArePrivate'
    BY <1>9 DEF Fork, Go, LauncherInv, LauncherTypeOK, HooksBorn, SymlinksPrivate, LinksArePrivate
  <2>2. hook[p] # c
    BY <1>9 DEF Fork, LauncherInv, HooksBorn
  <2>3. ~ Owns(c)'
    BY <1>9, <2>2 DEF Fork, Go, Owns, LauncherInv, LauncherTypeOK
  <2>4. \A q \in Proc : Owns(q)' => Owns(q) /\ target'[q] = target[q]
    BY <1>9, <2>3 DEF Fork, Go, Owns, LauncherInv, LauncherTypeOK
  <2>5. OwnerKeepsAlias' /\ OneOwner'
    BY <1>9, <2>4 DEF Fork, LauncherInv, OwnerKeepsAlias, OneOwner, Mine
  <2> QED BY <2>1, <2>5 DEF LauncherInv
<1> QED
  BY <1>1, <1>2, <1>3, <1>4, <1>5, <1>6, <1>7, <1>8, <1>9, <1>q DEF LauncherNext, AllGone

LEMMA InvariantHolds == LauncherSpec => []LauncherInv
BY LauncherInvInit, LauncherInvNext, PTL DEF LauncherSpec

\* The variables keep their types, whatever the runs do to each other.
THEOREM TypeCorrect == LauncherSpec => []LauncherTypeOK
BY InvariantHolds, PTL DEF LauncherInv

\* No alias ever has two owners, in any interleaving of any number of runs:
\* atexit never removes what another run made.
THEOREM OneOwnerCorrect == LauncherSpec => []OneOwner
BY InvariantHolds, PTL DEF LauncherInv

\* An alias leads to its owner's TEST_TMPDIR for as long as the owner lives.
THEOREM OwnerKeepsAliasCorrect == LauncherSpec => []OwnerKeepsAlias
BY InvariantHolds, PTL DEF LauncherInv

\* No symlink is ever made outside a directory only this user can write to.
THEOREM LinksArePrivateCorrect == LauncherSpec => []LinksArePrivate
BY InvariantHolds, PTL DEF LauncherInv

-----------------------------------------------------------------------------
\* What one step may do to an alias: make it, or remove it in its owner's exit.
LEMMA LinkSteps ==
  ASSUME LauncherInv, [LauncherNext]_launcherVars
  PROVE  \/ link' = link
         \/ \E p \in Proc : Symlink(p) /\ at'[p] = "register"
         \/ \E p \in Proc : Exit(p) /\ hook[p] = p
<1>1. ASSUME NEW p \in Proc, Symlink(p) PROVE link' = link \/ at'[p] = "register"
  BY <1>1 DEF Symlink, Go, LauncherInv, LauncherTypeOK
<1>2. ASSUME NEW p \in Proc, Exit(p) PROVE link' = link \/ hook[p] = p
  BY <1>2 DEF Exit
<1>3. ASSUME NEW p \in Proc,
             \/ Launch(p) \/ Mkdir(p) \/ Lstat(p) \/ Readlink(p) \/ Register(p)
             \/ Kill(p) \/ \E c \in Proc : Fork(p, c)
      PROVE  link' = link
  BY <1>3 DEF Launch, Mkdir, Lstat, Readlink, Register, Kill, Fork
<1> QED BY <1>1, <1>2, <1>3 DEF LauncherNext, AllGone, launcherVars

\* An alias disappears only in its owner's normal exit and is never redirected.
THEOREM OnlyOwnerUnlinksCorrect == LauncherSpec => OnlyOwnerUnlinks
<1>1. LauncherInv /\ [LauncherNext]_launcherVars =>
        [\A a \in Alias : link[a] # Nowhere /\ link'[a] # link[a] =>
           /\ link'[a] = Nowhere
           /\ \E p \in Proc : Owns(p) /\ Mine(p) = a /\ at'[p] = "gone"]_launcherVars
  <2> SUFFICES ASSUME LauncherInv, [LauncherNext]_launcherVars,
                      NEW a \in Alias, link[a] # Nowhere, link'[a] # link[a]
               PROVE  /\ link'[a] = Nowhere
                      /\ \E p \in Proc : Owns(p) /\ Mine(p) = a /\ at'[p] = "gone"
    OBVIOUS
  <2>1. ASSUME NEW p \in Proc, Symlink(p) PROVE link'[a] = link[a]
    BY <2>1 DEF Symlink, LauncherInv, LauncherTypeOK
  <2>2. PICK p \in Proc : Exit(p) /\ hook[p] = p
    BY <2>1, LinkSteps
  <2>3. Mine(p) = a
    BY <2>2 DEF Exit, LauncherInv, LauncherTypeOK
  <2>4. Owns(p) /\ at'[p] = "gone" /\ link'[a] = Nowhere
    BY <2>2, <2>3 DEF Exit, Owns, Go, LauncherInv, LauncherTypeOK
  <2> QED BY <2>3, <2>4
<1> QED BY <1>1, InvariantHolds, PTL DEF LauncherSpec, OnlyOwnerUnlinks

\* A run sets TMPDIR to an alias only when it leads to its own TEST_TMPDIR.
THEOREM TakesOwnDirectoryCorrect == LauncherSpec => TakesOwnDirectory
<1>1. LauncherInv /\ [LauncherNext]_launcherVars =>
        [\A p \in Proc : at[p] # "unborn" /\ tmpdir[p] # "alias" /\ tmpdir'[p] = "alias"
           => link'[Mine(p)] = target[p]]_launcherVars
  <2> SUFFICES ASSUME LauncherInv, [LauncherNext]_launcherVars, NEW p \in Proc,
                      at[p] # "unborn", tmpdir[p] # "alias", tmpdir'[p] = "alias"
               PROVE  link'[Mine(p)] = target[p]
    OBVIOUS
  <2> USE DEF LauncherInv, LauncherTypeOK, Settle, Go
  <2>1. ASSUME NEW q \in Proc, Readlink(q) PROVE link'[Mine(p)] = target[p]
    <3>1. p = q
      BY <2>1 DEF Readlink
    <3> QED BY <2>1, <3>1 DEF Readlink
  <2>2. ASSUME NEW q \in Proc, Register(q) PROVE link'[Mine(p)] = target[p]
    <3>1. p = q
      BY <2>2 DEF Register
    <3> QED BY <2>2, <3>1 DEF Register, OwnerKeepsAlias, Owns
  <2>3. ASSUME NEW q \in Proc,
               \/ Launch(q) \/ Mkdir(q) \/ Lstat(q) \/ Symlink(q) \/ Exit(q) \/ Kill(q)
        PROVE  tmpdir'[p] # "alias"
    BY <2>3 DEF Launch, Mkdir, Lstat, Symlink, Exit, Kill
  <2>4. ASSUME NEW q \in Proc, NEW c \in Proc, Fork(q, c) PROVE tmpdir'[p] # "alias"
    BY <2>4 DEF Fork
  <2> QED BY <2>1, <2>2, <2>3, <2>4 DEF LauncherNext, AllGone, launcherVars
<1> QED BY <1>1, InvariantHolds, PTL DEF LauncherSpec, TakesOwnDirectory

-----------------------------------------------------------------------------
\* Owners' aliases are held by them, others are free or left behind.
LEMMA HolderOf ==
  ASSUME LauncherInv, NEW a \in Alias
  PROVE  /\ \A p \in Proc : Owns(p) /\ Mine(p) = a => Holder(a) = p
         /\ link[a] = Nowhere => Holder(a) = Free
         /\ link[a] # Nowhere /\ ~ (\E p \in Proc : Owns(p) /\ Mine(p) = a)
              => Holder(a) = Orphan
<1>1. ASSUME NEW p \in Proc, Owns(p), Mine(p) = a PROVE Holder(a) = p
  <2>1. link[a] # Nowhere
    BY <1>1, NowhereAssumption DEF LauncherInv, OwnerKeepsAlias, LauncherTypeOK
  <2>2. \A q \in Proc : Owns(q) /\ Mine(q) = a => q = p
    BY <1>1 DEF LauncherInv, OneOwner
  <2> QED BY <1>1, <2>1, <2>2 DEF Holder
<1> QED BY <1>1 DEF Holder

LEMMA HolderOfNext ==
  ASSUME LauncherInv', NEW a \in Alias
  PROVE  /\ \A p \in Proc : Owns(p)' /\ Mine(p)' = a => Holder(a)' = p
         /\ link'[a] = Nowhere => Holder(a)' = Free
         /\ link'[a] # Nowhere /\ ~ (\E p \in Proc : Owns(p)' /\ Mine(p)' = a)
              => Holder(a)' = Orphan
<1>1. ASSUME NEW p \in Proc, Owns(p)', Mine(p)' = a PROVE Holder(a)' = p
  <2>1. link'[a] # Nowhere
    BY <1>1, NowhereAssumption DEF LauncherInv, OwnerKeepsAlias, LauncherTypeOK
  <2>2. \A q \in Proc : Owns(q)' /\ Mine(q)' = a => q = p
    BY <1>1 DEF LauncherInv, OneOwner
  <2> QED BY <1>1, <2>1, <2>2 DEF Holder
<1> QED BY <1>1 DEF Holder

OwnsAlias(p, a) == Owns(p) /\ Mine(p) = a

\* An alias whose symlink and owner a step leaves alone keeps its holder.
LEMMA HolderSame ==
  ASSUME LauncherInv, LauncherInv', NEW a \in Alias, link'[a] = link[a],
         \A p \in Proc : OwnsAlias(p, a)' <=> OwnsAlias(p, a)
  PROVE  Holder(a)' = Holder(a)
<1>1. CASE \E p \in Proc : OwnsAlias(p, a)
  BY <1>1, HolderOf, HolderOfNext DEF OwnsAlias
<1>2. CASE ~ \E p \in Proc : OwnsAlias(p, a)
  BY <1>2, HolderOf, HolderOfNext DEF OwnsAlias
<1> QED BY <1>1, <1>2

Held == [a \in Alias |-> Holder(a)]

\* Every step is a lease's step, or leaves every lease as it is.
LEMMA LeaseStep ==
  ASSUME LauncherInv, LauncherInv', [LauncherNext]_launcherVars
  PROVE  [Lease!Next]_Held
<1> USE DEF LauncherInv, LauncherTypeOK
<1>0. ASSUME link' = link, \A p \in Proc, a \in Alias : OwnsAlias(p, a)' <=> OwnsAlias(p, a)
      PROVE  Held' = Held
  <2>1. \A a \in Alias : Holder(a)' = Holder(a)
    BY <1>0, HolderSame
  <2> QED BY <2>1 DEF Held
<1>1. ASSUME NEW p \in Proc, Symlink(p), at'[p] = "register"
      PROVE  Lease!Next
  <2>0. PICK a \in Alias : a = Mine(p)
    BY DigestAssumption DEF Mine
  <2>1. target' = target
    BY <1>1 DEF Symlink
  <2>2. link[a] = Nowhere /\ link' = [link EXCEPT ![a] = target[p]] /\ Go(p, "register")
    BY <1>1, <2>0 DEF Symlink, Go, Settle
  <2>3. Holder(a) = Free
    BY <2>0, <2>1, <2>2, HolderOf
  <2>4. OwnsAlias(p, a)'
    BY <2>0, <2>1, <2>2 DEF OwnsAlias, Owns, Mine, Go
  <2>5. Holder(a)' = p
    BY <2>0, <2>1, <2>4, HolderOfNext DEF OwnsAlias
  <2>6. ASSUME NEW b \in Alias, b # a PROVE Holder(b)' = Holder(b)
    <3>1. link'[b] = link[b]
      BY <2>0, <2>2, <2>6
    <3>2. \A q \in Proc : OwnsAlias(q, b)' <=> OwnsAlias(q, b)
      BY <1>1, <2>0, <2>1, <2>2, <2>6 DEF Symlink, OwnsAlias, Owns, Mine, Go
    <3> QED BY <3>1, <3>2, HolderSame
  <2>7. Lease!Take(p, a)
    BY <2>0, <2>1, <2>3, <2>5, <2>6 DEF Lease!Take
  <2> QED BY <2>0, <2>1, <2>7 DEF Lease!Next
<1>2. ASSUME NEW p \in Proc, Exit(p), hook[p] = p
      PROVE  Lease!Next
  <2>0. PICK a \in Alias : a = Mine(p)
    BY DigestAssumption DEF Mine
  <2>1. target' = target
    BY <1>2 DEF Exit
  <2>2. link' = [link EXCEPT ![a] = Nowhere] /\ Go(p, "gone")
    BY <1>2, <2>0 DEF Exit
  <2>3. Holder(a) = p
    BY <1>2, <2>0, <2>1, HolderOf DEF Exit, Owns
  <2>4. Holder(a)' = Free
    BY <2>0, <2>1, <2>2, HolderOfNext
  <2>5. ASSUME NEW b \in Alias, b # a PROVE Holder(b)' = Holder(b)
    <3>1. link'[b] = link[b]
      BY <2>0, <2>2, <2>5
    <3>2. \A q \in Proc : OwnsAlias(q, b)' <=> OwnsAlias(q, b)
      BY <1>2, <2>0, <2>1, <2>2, <2>5 DEF Exit, OwnsAlias, Owns, Mine, Go
    <3> QED BY <3>1, <3>2, HolderSame
  <2>6. Lease!GiveUp(p, a)
    BY <2>0, <2>1, <2>3, <2>4, <2>5 DEF Lease!GiveUp
  <2> QED BY <2>0, <2>1, <2>6 DEF Lease!Next
<1>3. ASSUME NEW p \in Proc, Kill(p), Owns(p)
      PROVE  Lease!Next
  <2>0. PICK a \in Alias : a = Mine(p)
    BY DigestAssumption DEF Mine
  <2>1. target' = target /\ link' = link
    BY <1>3 DEF Kill
  <2>2. Holder(a) = p
    BY <1>3, <2>0, <2>1, HolderOf
  <2>3. link'[a] # Nowhere
    BY <1>3, <2>0, <2>1, NowhereAssumption DEF OwnerKeepsAlias
  <2>4. \A q \in Proc : ~ OwnsAlias(q, a)'
    BY <1>3, <2>0, <2>1 DEF Kill, OwnsAlias, Owns, Mine, Go, OneOwner
  <2>5. Holder(a)' = Orphan
    BY <2>0, <2>1, <2>3, <2>4, HolderOfNext DEF OwnsAlias
  <2>6. ASSUME NEW b \in Alias, b # a PROVE Holder(b)' = Holder(b)
    <3>1. \A q \in Proc : OwnsAlias(q, b)' <=> OwnsAlias(q, b)
      BY <1>3, <2>0, <2>1, <2>6 DEF Kill, OwnsAlias, Owns, Mine, Go
    <3> QED BY <2>0, <2>1, <3>1, HolderSame
  <2>7. Lease!Abandon(p, a)
    BY <2>0, <2>1, <2>2, <2>5, <2>6 DEF Lease!Abandon
  <2> QED BY <2>0, <2>1, <2>7 DEF Lease!Next
<1>4. ASSUME NEW p \in Proc,
             \/ Launch(p) \/ Mkdir(p) \/ Lstat(p) \/ Readlink(p)
             \/ Kill(p) /\ ~ Owns(p)
             \/ Symlink(p) /\ at'[p] # "register"
      PROVE  Held' = Held
  <2>1. link' = link /\ target' = target /\ hook' = hook
    BY <1>4 DEF Launch, Mkdir, Lstat, Readlink, Kill, Symlink, Go
  <2>2. \A q \in Proc : Owns(q)' <=> Owns(q)
    BY <1>4, <2>1, NobodyAssumption
       DEF Launch, Mkdir, Lstat, Readlink, Kill, Symlink, Go, Settle, Owns, HooksBorn
  <2> QED BY <1>0, <2>1, <2>2 DEF OwnsAlias, Mine
<1>5. ASSUME NEW p \in Proc, Register(p) PROVE Held' = Held
  BY <1>0, <1>5 DEF Register, Settle, Go, OwnsAlias, Owns, Mine
<1>6. ASSUME NEW p \in Proc, Exit(p), hook[p] # p PROVE Held' = Held
  BY <1>0, <1>6 DEF Exit, Go, OwnsAlias, Owns, Mine
<1>7. ASSUME NEW p \in Proc, NEW c \in Proc, Fork(p, c) PROVE Held' = Held
  <2>1. hook[p] # c
    BY <1>7, NobodyAssumption DEF Fork, HooksBorn
  <2>2. ~ Owns(c) /\ ~ Owns(c)'
    BY <1>7, <2>1 DEF Fork, Go, Owns
  <2>3. \A q \in Proc : q # c => (Owns(q)' <=> Owns(q)) /\ Mine(q)' = Mine(q)
    BY <1>7 DEF Fork, Go, Owns, Mine
  <2> QED BY <1>0, <1>7, <2>2, <2>3 DEF Fork, OwnsAlias
<1>8. CASE UNCHANGED launcherVars
  BY <1>0, <1>8 DEF launcherVars, OwnsAlias, Owns, Mine
<1> QED
  BY <1>1, <1>2, <1>3, <1>4, <1>5, <1>6, <1>7, <1>8 DEF LauncherNext, AllGone

\* The launchers implement leases: an alias is made by one run, given up only
\* by that run, and an alias left behind by a dead run is never taken over.
THEOREM ImplementsLease == LauncherSpec => LeaseSpec
<1>1. LauncherInit => Lease!Init
  BY DEF LauncherInit, Lease!Init, Holder
<1>2. LauncherInv /\ LauncherInv' /\ [LauncherNext]_launcherVars => [Lease!Next]_Held
  BY LeaseStep
<1> QED BY <1>1, <1>2, InvariantHolds, PTL DEF LauncherSpec, LeaseSpec, Lease!Spec, Held

(***************************************************************************)
(* TestDriver.  The shards never talk, so the argument is about one shard  *)
(* at a time: what it runs is its share, a function of the scenario alone, *)
(* whatever the order in which it collected; and the shares of all shards  *)
(* partition the selected tests.                                           *)
(***************************************************************************)

\* What a shard is to run, told from the scenario alone.
Share(s) ==
  IF env.driver = "pytest" THEN Slice(env.order, s) \cap env.selected
  ELSE {t \in env.selected : sharded => Place(t, env.selected) % env.total = s}

BadIn(tests) == \E t \in tests : env.outcome[t] \in Bad

-----------------------------------------------------------------------------
(* The inductive invariant, in parts.                                      *)

TypeOK ==
  /\ env \in Scenario
  /\ pc \in [Shard -> {"start", "advertise", "collect", "shard", "run", "gone"}]
  /\ DOMAIN collected = Shard
  /\ suite \in [Shard -> SUBSET Test]
  /\ ran \in [Shard -> SUBSET Test]
  /\ DOMAIN records = Shard
  /\ advertised \subseteq Shard
  /\ exit \in [Shard -> Nat]

\* A shard that is past collecting has met every test once.
CollectedAll(s) == pc[s] = "shard" => collected[s] \in Orders

\* Nothing has run before the suite was cut.
NothingRan(s) == pc[s] \in {"start", "advertise", "collect", "shard"} => ran[s] = {}

\* While a shard runs, what it ran and what is left are its share, unless a
\* bad test made failfast drop the rest.
RunsItsShare(s) ==
  pc[s] = "run" =>
    /\ env.selected # {}
    /\ ran[s] \cup suite[s] \subseteq Share(s)
    /\ ~BadIn(ran[s]) => ran[s] \cup suite[s] = Share(s)

\* The statuses recorded are those of the tests that ran.
Recorded(s) == records[s] = {_record(env.outcome[t]) : t \in ran[s]}

\* What an exit code says.
ExitTells(s) ==
  pc[s] = "gone" =>
    /\ exit[s] = 0 => env.selected # {} /\ ran[s] = Share(s) /\ ~BadIn(ran[s])
    /\ exit[s] # 0 /\ ran[s] # {} => BadIn(ran[s])
    /\ env.driver = "unittest" /\ env.startable /\ env.importable /\ env.selected # {}
         /\ ~BadIn(env.selected) => exit[s] = 0

\* A shard that got past the handshake has advertised.
HasAdvertised(s) ==
  pc[s] \notin {"start", "advertise"} /\ env.startable /\ sharded => s \in advertised

ShardOK(s) ==
  /\ CollectedAll(s)
  /\ NothingRan(s)
  /\ RunsItsShare(s)
  /\ Recorded(s)
  /\ ExitTells(s)
  /\ HasAdvertised(s)

IInv == TypeOK /\ \A s \in Shard : ShardOK(s)

-----------------------------------------------------------------------------
(* Facts about the cut.                                                    *)

\* A listing of the tests has every test, and none twice.
LEMMA ListingProperties ==
  ASSUME NEW order \in SetToSeqs(Test)
  PROVE  /\ ToSet(order) = Test
         /\ DOMAIN order = 1 .. Cardinality(Test)
         /\ Cardinality(Test) \in Nat
         /\ \A i, j \in DOMAIN order : order[i] = order[j] => i = j
<1> DEFINE D == 1 .. Cardinality(Test)
<1>1. Cardinality(Test) \in Nat
  BY TestAssumption, FS_CardinalityType
<1>2. order \in [D -> Test] /\ \A i, j \in D : i # j => order[i] # order[j]
  BY DEF SetToSeqs
<1>3. order \in Injection(D, Test)
  BY <1>2 DEF Injection, IsInjective
<1>4. IsFiniteSet(D) /\ Cardinality(D) = Cardinality(Test)
  BY <1>1, FS_Interval
<1>5. order \in Surjection(D, Test)
  BY <1>3, <1>4, TestAssumption, FS_Injection
<1>6. \A t \in Test : \E i \in D : order[i] = t
  BY <1>5 DEF Surjection
<1>7. ToSet(order) = Test
  BY <1>2, <1>6 DEF ToSet
<1>8. DOMAIN order = D
  BY <1>2
<1> QED
  BY <1>1, <1>2, <1>7, <1>8

LEMMA Remainder ==
  ASSUME NEW a \in Nat, NEW b \in Nat \ {0}
  PROVE  a % b \in 0 .. b - 1
OBVIOUS

\* The shares of the shards cover what was selected and do not overlap.
LEMMA SharesPartition ==
  ASSUME TypeOK
  PROVE  /\ UNION {Share(s) : s \in Shard} = env.selected
         /\ \A s, u \in Shard : s # u => Share(s) \cap Share(u) = {}
<1>1. /\ env.total \in Nat \ {0} /\ env.selected \in SUBSET Test
      /\ env.order \in SetToSeqs(Test) /\ env.driver \in {"pytest", "unittest"}
  BY MaxShardsAssumption DEF TypeOK, Scenario
<1>2. CASE env.driver = "pytest"
  <2>1. \A s \in Shard : Share(s) \subseteq env.selected
    BY <1>2 DEF Share
  <2>2. ASSUME NEW t \in env.selected PROVE \E s \in Shard : t \in Share(s)
    <3>1. PICK i \in DOMAIN env.order : env.order[i] = t
      BY <1>1, ListingProperties DEF ToSet
    <3>2. i - 1 \in Nat
      BY <1>1, ListingProperties
    <3>3. (i - 1) % env.total \in Shard
      BY <1>1, <3>2, Remainder DEF Shard
    <3>4. t \in Slice(env.order, (i - 1) % env.total)
      BY <3>1 DEF Slice
    <3> QED
      BY <1>2, <3>3, <3>4 DEF Share
  <2>3. ASSUME NEW s \in Shard, NEW u \in Shard, s # u, NEW t \in Share(s), t \in Share(u)
        PROVE  FALSE
    <3>1. PICK i \in DOMAIN env.order : (i - 1) % env.total = s /\ env.order[i] = t
      BY <1>2, <2>3 DEF Share, Slice
    <3>2. PICK j \in DOMAIN env.order : (j - 1) % env.total = u /\ env.order[j] = t
      BY <1>2, <2>3 DEF Share, Slice
    <3> QED
      BY <1>1, <2>3, <3>1, <3>2, ListingProperties
  <2> QED
    BY <2>1, <2>2, <2>3
<1>3. CASE env.driver = "unittest"
  <2>1. \A s \in Shard : Share(s) \subseteq env.selected
    BY <1>3 DEF Share
  <2>2. ASSUME NEW t \in env.selected
        PROVE  Place(t, env.selected) % env.total \in Shard
    <3>1. IsFiniteSet({u \in env.selected : u < t})
      BY <1>1, TestAssumption, FS_Subset
    <3>2. Place(t, env.selected) \in Nat
      BY <3>1, FS_CardinalityType DEF Place
    <3> QED
      BY <1>1, <3>2, Remainder DEF Shard
  <2>3. ASSUME NEW t \in env.selected PROVE \E s \in Shard : t \in Share(s)
    BY <1>3, <2>2 DEF Share
  <2>4. CASE sharded
    BY <1>3, <2>1, <2>3, <2>4 DEF Share
  <2>5. CASE ~sharded
    <3>1. \A s, u \in Shard : s = u
      BY <1>1, <2>5 DEF sharded, Shard
    <3> QED
      BY <2>1, <2>3, <3>1
  <2> QED
    BY <2>4, <2>5
<1> QED
  BY <1>1, <1>2, <1>3

\* Whatever the order a shard collected in, the cut gives it its share.
LEMMA CutIsShare ==
  ASSUME TypeOK, NEW s \in Shard, collected[s] \in Orders
  PROVE  /\ env.driver = "unittest" => Selected(s) = env.selected /\ _shard(s) = Share(s)
         /\ env.driver = "pytest" => Slice(collected[s], s) \cap env.selected = Share(s)
<1>1. env.selected \in SUBSET Test /\ env.order \in SetToSeqs(Test)
  BY DEF TypeOK, Scenario
<1>2. collected[s] \in SetToSeqs(Test)
  BY <1>1 DEF Orders
<1>3. Selected(s) = env.selected
  BY <1>1, <1>2, ListingProperties DEF Selected
<1>4. ASSUME env.driver = "unittest" PROVE _shard(s) = Share(s)
  <2>1. Share(s) = {t \in env.selected : sharded => Place(t, env.selected) % env.total = s}
    BY <1>4 DEF Share
  <2>2. _shard(s) = IF sharded THEN {t \in env.selected : Place(t, env.selected) % env.total = s}
                    ELSE env.selected
    BY <1>3 DEF _shard
  <2> QED
    BY <2>1, <2>2
<1>5. ASSUME env.driver = "pytest" PROVE collected[s] = env.order
  BY <1>5 DEF Orders
<1> QED
  BY <1>3, <1>4, <1>5 DEF Share

-----------------------------------------------------------------------------
(* The inductive step.                                                     *)

\* The initial states satisfy the inductive invariant.
LEMMA InitIInv == Init => IInv
<1> SUFFICES ASSUME Init PROVE IInv
  OBVIOUS
<1>1. TypeOK
  BY ScenariosAssumption DEF Init, TypeOK, Running
<1>2. ASSUME NEW s \in Shard PROVE ShardOK(s)
  BY <1>2 DEF Init, ShardOK, CollectedAll, NothingRan, RunsItsShare, Recorded,
             ExitTells, HasAdvertised
<1> QED
  BY <1>1, <1>2 DEF IInv

\* A shard's facts are about its own state and the scenario.
LEMMA ShardStays ==
  ASSUME env' = env, NEW s \in Shard, ShardOK(s),
         pc'[s] = pc[s], collected'[s] = collected[s], suite'[s] = suite[s],
         ran'[s] = ran[s], records'[s] = records[s], exit'[s] = exit[s],
         advertised \subseteq advertised'
  PROVE  ShardOK(s)'
<1>1. /\ CollectedAll(s)' /\ NothingRan(s)' /\ Recorded(s)' /\ HasAdvertised(s)'
  BY DEF ShardOK, CollectedAll, NothingRan, Recorded, HasAdvertised, Orders, sharded
<1>2. Share(s)' = Share(s)
  BY DEF Share, Slice, Place, sharded
<1>3. RunsItsShare(s)' /\ ExitTells(s)'
  BY <1>2 DEF ShardOK, RunsItsShare, ExitTells, BadIn
<1> QED
  BY <1>1, <1>3 DEF ShardOK

\* Every step keeps the inductive invariant.
LEMMA NextIInv == IInv /\ [Next]_vars => IInv'
<1> SUFFICES ASSUME IInv, [Next]_vars PROVE IInv'
  OBVIOUS
<1> USE DEF IInv
<1>q. CASE UNCHANGED vars
  <2>1. TypeOK'
    BY <1>q DEF vars, TypeOK, Shard
  <2>2. Shard' = Shard
    BY <1>q DEF vars, Shard
  <2>3. ASSUME NEW s \in Shard PROVE ShardOK(s)'
    BY <1>q, <2>3, ShardStays DEF vars
  <2> QED
    BY <2>1, <2>2, <2>3
<1>s. ASSUME NEW s \in Shard, env' = env, TypeOK', ShardOK(s)',
             \A u \in Shard \ {s} :
               /\ pc'[u] = pc[u] /\ collected'[u] = collected[u] /\ suite'[u] = suite[u]
               /\ ran'[u] = ran[u] /\ records'[u] = records[u] /\ exit'[u] = exit[u],
             advertised \subseteq advertised'
      PROVE  IInv'
  <2>1. Shard' = Shard
    BY <1>s DEF Shard
  <2>2. ASSUME NEW u \in Shard, u # s PROVE ShardOK(u)'
    BY <1>s, <2>2, ShardStays
  <2> QED
    BY <1>s, <2>1, <2>2
<1>p. ASSUME env' = env PROVE /\ Shard' = Shard /\ sharded' = sharded
                             /\ \A s \in Shard : Share(s)' = Share(s)
  BY <1>p DEF Shard, Share, Slice, Place, sharded
<1> USE DEF ShardOK
<1>1. ASSUME NEW s \in Shard, Start(s) PROVE IInv'
  <2>1. TypeOK'
    BY <1>1, <1>p DEF Start, Goto, Leave, TypeOK
  <2>2. ShardOK(s)'
    BY <1>1, <1>p DEF Start, Goto, Leave, TypeOK, CollectedAll, NothingRan, RunsItsShare,
              Recorded, ExitTells, HasAdvertised, BadIn
  <2> QED
    BY <1>1, <1>s, <2>1, <2>2 DEF Start, Goto, Leave, TypeOK
<1>2. ASSUME NEW s \in Shard, advertise_sharding(s) PROVE IInv'
  <2>1. TypeOK'
    BY <1>2, <1>p DEF advertise_sharding, Goto, TypeOK
  <2>2. ShardOK(s)'
    BY <1>2, <1>p DEF advertise_sharding, Goto, TypeOK, CollectedAll, NothingRan,
              RunsItsShare, Recorded, ExitTells, HasAdvertised, BadIn
  <2> QED
    BY <1>2, <1>s, <2>1, <2>2 DEF advertise_sharding, Goto, TypeOK
<1>3. ASSUME NEW s \in Shard, Collect(s) PROVE IInv'
  <2>1. TypeOK'
    BY <1>3, <1>p DEF Collect, Goto, Leave, TypeOK
  <2>2. ShardOK(s)'
    BY <1>3, <1>p DEF Collect, Goto, Leave, TypeOK, CollectedAll, NothingRan, RunsItsShare,
              Recorded, ExitTells, HasAdvertised, BadIn, Orders
  <2> QED
    BY <1>3, <1>s, <2>1, <2>2 DEF Collect, Goto, Leave, TypeOK
<1>4. ASSUME NEW s \in Shard, ShardUnittest(s) PROVE IInv'
  <2>0. /\ Selected(s) = env.selected /\ _shard(s) = Share(s)
        /\ env.selected \in SUBSET Test /\ ran[s] = {}
    BY <1>4, CutIsShare DEF ShardUnittest, CollectedAll, NothingRan, TypeOK, Scenario
  <2>1. Share(s) \in SUBSET Test
    BY <1>4, <2>0 DEF ShardUnittest, Share
  <2>2. TypeOK'
    BY <1>4, <1>p, <2>0, <2>1 DEF ShardUnittest, Goto, Leave, TypeOK
  <2>3. ShardOK(s)'
    BY <1>4, <1>p, <2>0 DEF ShardUnittest, Goto, Leave, TypeOK, CollectedAll, NothingRan,
              RunsItsShare, Recorded, ExitTells, HasAdvertised, BadIn
  <2> QED
    BY <1>4, <1>s, <2>2, <2>3 DEF ShardUnittest, Goto, Leave, TypeOK
<1>5. ASSUME NEW s \in Shard, ShardPytest(s) PROVE IInv'
  <2>0. /\ Slice(collected[s], s) \cap env.selected = Share(s)
        /\ env.selected \in SUBSET Test /\ ran[s] = {}
    BY <1>5, CutIsShare DEF ShardPytest, CollectedAll, NothingRan, TypeOK, Scenario
  <2>1. Share(s) \in SUBSET env.selected
    BY <2>0
  <2>2. TypeOK'
    <3>1. suite' = [suite EXCEPT ![s] = Share(s)] /\ Share(s) \in SUBSET Test
      BY <1>5, <2>0, <2>1 DEF ShardPytest
    <3>2. suite' \in [Shard -> SUBSET Test]
      BY <3>1 DEF TypeOK
    <3>3. /\ pc' \in [Shard -> {"start", "advertise", "collect", "shard", "run", "gone"}]
          /\ exit' \in [Shard -> Nat]
      BY <1>5 DEF ShardPytest, Goto, Leave, TypeOK
    <3> QED
      BY <1>5, <1>p, <3>2, <3>3 DEF ShardPytest, TypeOK
  <2>3. ShardOK(s)'
    BY <1>5, <1>p, <2>0, <2>1 DEF ShardPytest, Goto, Leave, TypeOK, CollectedAll, NothingRan,
              RunsItsShare, Recorded, ExitTells, HasAdvertised, BadIn
  <2> QED
    BY <1>5, <1>s, <2>2, <2>3 DEF ShardPytest, Goto, Leave, TypeOK
<1>6. ASSUME NEW s \in Shard, NEW t \in suite[s], RunTest(s, t) PROVE IInv'
  <2>1. TypeOK'
    BY <1>6, <1>p DEF RunTest, TypeOK
  <2>2. ran'[s] = ran[s] \cup {t}
    BY <1>6 DEF RunTest, TypeOK
  <2>3. Recorded(s)'
    BY <1>6, <2>2 DEF RunTest, TypeOK, Recorded
  <2>4. RunsItsShare(s)'
    BY <1>6, <1>p, <2>2 DEF RunTest, TypeOK, RunsItsShare, BadIn
  <2>5. CollectedAll(s)' /\ NothingRan(s)' /\ ExitTells(s)' /\ HasAdvertised(s)'
    BY <1>6, <1>p DEF RunTest, TypeOK, CollectedAll, NothingRan, ExitTells, HasAdvertised
  <2> QED
    BY <1>6, <1>s, <2>1, <2>3, <2>4, <2>5 DEF RunTest, TypeOK
<1>7. ASSUME NEW s \in Shard, Finish(s) PROVE IInv'
  <2>1. TypeOK'
    BY <1>7, <1>p DEF Finish, Leave, Goto, TypeOK
  <2>2. Share(s) \subseteq env.selected
    BY <1>7 DEF Share
  <2>3. /\ pc'[s] = "gone" /\ ran' = ran /\ ran[s] \subseteq Share(s)
        /\ exit'[s] = IF BadIn(ran[s]) THEN 1 ELSE 0
        /\ env.selected # {}
        /\ ~BadIn(ran[s]) => ran[s] = Share(s)
    BY <1>7 DEF Finish, Leave, Goto, TypeOK, RunsItsShare, BadIn
  <2>4. ExitTells(s)'
    <3>1. env' = env /\ ran'[s] = ran[s] /\ Share(s)' = Share(s)
      BY <1>7, <1>p, <2>3 DEF Finish
    <3>2. BadIn(ran[s])' <=> BadIn(ran[s])
      BY <3>1 DEF BadIn
    <3>3. BadIn(env.selected)' <=> BadIn(env.selected)
      BY <3>1 DEF BadIn
    <3>4. exit'[s] = 0 <=> ~BadIn(ran[s])
      BY <2>3
    <3>5. ~BadIn(env.selected) => ~BadIn(ran[s])
      BY <2>2, <2>3 DEF BadIn
    <3> QED
      BY <2>3, <3>1, <3>2, <3>3, <3>4, <3>5 DEF ExitTells
  <2>5. Recorded(s)' /\ HasAdvertised(s)'
    BY <1>7, <1>p, <2>3 DEF Finish, Recorded, HasAdvertised
  <2>6. ShardOK(s)'
    BY <2>3, <2>4, <2>5 DEF CollectedAll, NothingRan, RunsItsShare
  <2> QED
    BY <1>7, <1>s, <2>1, <2>6 DEF Finish, Leave, Goto, TypeOK
<1> QED
  BY <1>q, <1>1, <1>2, <1>3, <1>4, <1>5, <1>6, <1>7 DEF Next, Terminating

-----------------------------------------------------------------------------
(* What follows.                                                           *)

\* The inductive invariant holds in every reachable state.
LEMMA Invariance == Spec => []IInv
BY InitIInv, NextIInv, PTL DEF Spec

\* unittest_main.py:97 and pytest_shard.py:34 with the exit codes of both
\* drivers: for any number of tests and shards, and whatever the orders the
\* shards collect in, a target that Bazel reports as passed ran every selected
\* test in exactly one shard, ran at least one, and none of them was bad.
THEOREM GreenRanEverythingCorrect == Spec => []GreenRanEverything
<1>1. IInv => GreenRanEverything
  <2> SUFFICES ASSUME IInv, Done, Green
               PROVE  /\ UNION {ran[s] : s \in Shard} = env.selected /\ env.selected # {}
                      /\ \A s, u \in Shard : s # u => ran[s] \cap ran[u] = {}
                      /\ \A t \in env.selected : env.outcome[t] \notin Bad
    BY DEF GreenRanEverything
  <2>1. \A s \in Shard : ran[s] = Share(s) /\ ~BadIn(ran[s]) /\ env.selected # {}
    BY DEF IInv, ShardOK, ExitTells, Done, Green
  <2>2. 0 \in Shard
    BY MaxShardsAssumption DEF IInv, TypeOK, Scenario, Shard
  <2>3. /\ UNION {Share(s) : s \in Shard} = env.selected
        /\ \A s, u \in Shard : s # u => Share(s) \cap Share(u) = {}
    BY SharesPartition DEF IInv
  <2>4. UNION {ran[s] : s \in Shard} = env.selected
    BY <2>1, <2>3
  <2>5. \A s, u \in Shard : s # u => ran[s] \cap ran[u] = {}
    BY <2>1, <2>3
  <2> QED
    BY <2>1, <2>2, <2>4, <2>5 DEF BadIn
<1> QED
  BY <1>1, Invariance, PTL

\* unittest_main.py:296 and :343: a shard that holds none of the matching tests
\* still passes, so that good tests are green in any number of shards.
THEOREM GoodTestsAreGreenCorrect == Spec => []GoodTestsAreGreen
<1>1. IInv => GoodTestsAreGreen
  <2> SUFFICES ASSUME IInv, Done, env.driver = "unittest", env.startable, env.importable,
                      env.selected # {}, \A t \in env.selected : env.outcome[t] \notin Bad
               PROVE  Green
    BY DEF GoodTestsAreGreen
  <2>1. \A s \in Shard : exit[s] = 0
    BY DEF IInv, ShardOK, ExitTells, Done, BadIn
  <2>2. sharded => advertised = Shard
    BY DEF IInv, TypeOK, ShardOK, HasAdvertised, Done
  <2> QED
    BY <2>1, <2>2 DEF Green
<1> QED
  BY <1>1, Invariance, PTL

\* unittest_main.py:159 and :343: the JUnit report shows a failure or an error
\* exactly if the run's exit code is not 0, failing subtests included.
THEOREM ReportMatchesExitCorrect == Spec => []ReportMatchesExit
<1>1. IInv => ReportMatchesExit
  <2> SUFFICES ASSUME IInv, NEW s \in Shard, pc[s] = "gone", ran[s] # {}
               PROVE  exit[s] = 0 <=> records[s] \cap {"failure", "error"} = {}
    BY DEF ReportMatchesExit
  <2>1. exit[s] = 0 <=> ~BadIn(ran[s])
    BY DEF IInv, ShardOK, ExitTells
  <2>2. \A o : o \in Bad <=> _record(o) \in {"failure", "error"}
    BY DEF Bad, _record
  <2>3. records[s] = {_record(env.outcome[t]) : t \in ran[s]}
    BY DEF IInv, ShardOK, Recorded
  <2> QED
    BY <2>1, <2>2, <2>3 DEF BadIn
<1> QED
  BY <1>1, Invariance, PTL
=============================================================================
