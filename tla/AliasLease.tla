----------------------------- MODULE AliasLease -----------------------------
(***************************************************************************)
(* What the temp dir aliases of the test launchers promise, seen as        *)
(* leases: each alias is free, held by the run that made it, or left       *)
(* behind by a run that died.  Only its holder gives an alias up, and an   *)
(* alias left behind is never taken over or removed, only used.            *)
(***************************************************************************)
CONSTANTS Proc, Alias, Free, Orphan

VARIABLE holder

Init == holder = [a \in Alias |-> Free]

Take(p, a) == holder[a] = Free /\ holder' = [holder EXCEPT ![a] = p]
GiveUp(p, a) == holder[a] = p /\ holder' = [holder EXCEPT ![a] = Free]
Abandon(p, a) == holder[a] = p /\ holder' = [holder EXCEPT ![a] = Orphan]

Next == \E p \in Proc, a \in Alias : Take(p, a) \/ GiveUp(p, a) \/ Abandon(p, a)

Spec == Init /\ [][Next]_holder
=============================================================================
