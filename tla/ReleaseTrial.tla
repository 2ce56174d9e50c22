---------------------------- MODULE ReleaseTrial ----------------------------
(***************************************************************************)
(* What the release swap promises, without processes, files or crashes: a  *)
(* release goes on trial against the release the device has, and the trial *)
(* ends on a release that proved itself.  docs/updates.md: "No update ever *)
(* half-applies."                                                          *)
(***************************************************************************)
EXTENDS Naturals

CONSTANT Last    \* releases are 1..Last

VARIABLES
    cur,      \* the release that the device starts
    trial,    \* the release on trial, or 0
    base,     \* the release that a failed trial goes back to
    ok,       \* the releases that showed a picture once
    banned    \* the releases that this device never tries again

vars == <<cur, trial, base, ok, banned>>

Init == cur = 1 /\ trial = 0 /\ base = 1 /\ ok = {1} /\ banned = {}

\* A trial of a newer release that is not banned opens beside the old release.
Begin(v) ==
    /\ trial = 0
    /\ v > cur /\ v \notin banned
    /\ trial' = v /\ base' = cur
    /\ UNCHANGED <<cur, ok, banned>>

\* The device moves between the two releases of the trial and nowhere else.
Switch ==
    /\ trial # 0
    /\ cur' \in {trial, base}
    /\ UNCHANGED <<trial, base, ok, banned>>

\* A release shows a picture, perhaps later than its trial lasted.
Prove ==
    /\ \E v \in 1..Last : ok' = ok \cup {v}
    /\ UNCHANGED <<cur, trial, base, banned>>

\* The trial failed: the release is banned, with the device back on its base.
Ban ==
    /\ trial # 0 /\ cur = base
    /\ banned' = banned \cup {trial}
    /\ UNCHANGED <<cur, trial, base, ok>>

\* The trial ends on the base, or on a new release that proved itself.
End ==
    /\ trial # 0
    /\ cur = base \/ (cur = trial /\ trial \in ok)
    /\ trial' = 0 /\ base' = cur
    /\ UNCHANGED <<cur, ok, banned>>

Next == (\E v \in 1..Last : Begin(v)) \/ Switch \/ Prove \/ Ban \/ End

Spec == Init /\ [][Next]_vars
=============================================================================
