------------------------------ MODULE MCServer ------------------------------
(***************************************************************************)
(* The components of the server that share no state with each other in the *)
(* model, for TLC.  A behaviour moves one of them, its focus, and leaves   *)
(* the others in their initial states.                                     *)
(***************************************************************************)
EXTENDS Integers, FiniteSets

CONSTANTS
    Two,    \* two machines, two versions, two objects, two uploads
    \* Enrollment
    NoMachine, WithToken, TokenModes, MaxUses, maxPending, EnrollEvents,
    MaxEvents, MaxSecrets,
    \* ReleaseMirror
    NoVersion, MirrorFaults, MaxMirror,
    \* MediaStore
    NoObject, MediaEvents, MaxMedia,
    \* FleetPlan
    Device, Groups, Playlists, Media, None, NoList, MaxWrites

VARIABLES
    focus,
    row, reqs, etok, card, round, seen, approvedFor, granted, copied, secret, events,
    rows, approved, dest, aside, job, admin, fleet, excuse, count,
    file, mRows, items, up, del, save, sweep, raced, mCount,
    lists, there, grp, rules, dflt, poll, sent, lExcuse, writes

ASSUME BoundAssumption ==
    /\ MaxUses \in Nat /\ MaxSecrets \in Nat /\ MaxEvents \in Nat
    /\ MaxMirror \in Nat
    /\ MaxMedia \in Nat

ASSUME NoMachineAssumption == NoMachine \notin Two

ASSUME PlanAssumption ==
    /\ None \notin Playlists /\ None \notin Groups /\ Device \notin Groups
    /\ \A m \in SUBSET Media : NoList # m
    /\ MaxWrites \in Nat

Enroll == INSTANCE Enrollment WITH Machines <- Two
Mirror == INSTANCE ReleaseMirror WITH Versions <- Two
Store == INSTANCE MediaStore
            WITH Objects <- Two, Uploads <- Two, rows <- mRows, count <- mCount
Plan == INSTANCE FleetPlan WITH excuse <- lExcuse

enrollVars == <<row, reqs, etok, card, round, seen, approvedFor, granted, copied, secret,
                events>>
mirrorVars == <<rows, approved, dest, aside, job, admin, fleet, excuse, count>>
storeVars == <<file, mRows, items, up, del, save, sweep, raced, mCount>>
planVars == <<lists, there, grp, rules, dflt, poll, sent, lExcuse, writes>>
vars == <<focus, enrollVars, mirrorVars, storeVars, planVars>>

Init ==
    /\ focus \in {"enroll", "mirror", "store", "plan"}
    /\ Enroll!Init
    /\ focus # "enroll" => etok.mode = CHOOSE x \in TokenModes : TRUE
    /\ Mirror!Init /\ Store!Init /\ Plan!Init

\* One step of the component in focus.
OfEnroll(A) == focus = "enroll" /\ A /\ UNCHANGED <<focus, mirrorVars, storeVars, planVars>>
OfMirror(A) == focus = "mirror" /\ A /\ UNCHANGED <<focus, enrollVars, storeVars, planVars>>
OfStore(A) == focus = "store" /\ A /\ UNCHANGED <<focus, enrollVars, mirrorVars, planVars>>
OfPlan(A) == focus = "plan" /\ A /\ UNCHANGED <<focus, enrollVars, mirrorVars, storeVars>>

Next ==
    \/ OfEnroll(Enroll!Next)
    \/ OfMirror(Mirror!Next)
    \/ OfStore(Store!Next)
    \/ OfPlan(Plan!Next)

\* The Fairness of each component.  focus never changes, so a weak fairness of
\* several components together is the weak fairness of the one that moves.
Fairness ==
    /\ \A x \in Two : WF_vars(OfEnroll(Enroll!Loop(x)) \/ OfStore(Store!Handler(x)))
    /\ \A x \in Two : SF_vars(OfStore(Store!Age(x)))
    /\ WF_vars(\/ OfEnroll(Enroll!AdminLooks \/ Enroll!ApprovePending)
               \/ OfMirror(Mirror!Job) \/ OfStore(Store!SweepEvery))

Spec == Init /\ [][Next]_vars /\ Fairness

-----------------------------------------------------------------------------
(***************************************************************************)
(* The properties of the components, as their own modules state them.      *)
(* focus never changes, so it may stand inside of a temporal operator.     *)
(***************************************************************************)
\* The collisions of the waiting requests are marked, and an approved machine
\* can collect its token.
RequestsAreSound == focus = "enroll" => Enroll!RequestsAreSound

\* The token of a row that was paired goes to another machine only by approval.
PairedRowIsKept == [][Enroll!PairedRowIsKept]_enrollVars

\* A machine that has a server ends paired or knows that it was refused.
NoneWaitsForEver == \A m \in Two : <>[](focus = "enroll" => Enroll!Answered(m))

\* A release that is mirrored has verified files, and the manifests name it.
MirrorIsVerified == focus = "mirror" => Mirror!MirrorIsVerified

\* A job never takes a mirrored release off the air.
StaysOnTheAir == [][Mirror!StaysOnTheAir]_mirrorVars

\* A row has its file and an item has its row.
MediaIsKept == focus = "store" => Store!MediaIsKept

\* A file that no row can reach goes, and no row says for ever that a job works.
LeftoversGo ==
    /\ \A o \in Two : []<>~Store!Orphaned(o)
    /\ \A v \in Two : []<>(rows[v] # "working")

\* Manifests are what the reference says and have something to show, and a
\* delete changes no screen.
PlanIsKept ==
    [][Plan!ManifestIsResolved /\ Plan!NamedHasItems /\ Plan!QuietDelete /\ Plan!TypeOK']_planVars
=============================================================================
