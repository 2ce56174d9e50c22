----------------------------- MODULE ReleaseSwap -----------------------------
(***************************************************************************)
(* The A/B release swap of a device: internal/updater (the Manager inside  *)
(* the daemon), the init script os/overlay/etc/init.d/portapixeld and the  *)
(* health gate os/overlay/usr/libexec/portapixel/health-gate.sh.           *)
(*                                                                         *)
(* Three kinds of process share one directory on the flash: the daemon     *)
(* that installs, the init script that starts it, and up to GateSlots      *)
(* gates that watch a release which has to prove itself.  Nothing but the  *)
(* order of their writes protects the device from a power cut, so every    *)
(* durable write is a step of its own.                                     *)
(*                                                                         *)
(* A release is a number: CompareVersions is <, and equal names are equal  *)
(* numbers.  0 stands for "no release" (a missing link or file).           *)
(***************************************************************************)
EXTENDS Naturals, FiniteSets

CONSTANTS
    Last,        \* releases are 1..Last, and release 1 is the factory image
    Starts,      \* the releases whose binary runs at all
    Healthy,     \* the releases that show a picture, so they write the marker
    GateSlots,   \* how many gate processes may be alive at one time
    Overlap,     \* may an update begin while another one is on trial?
    CanPair,     \* does the device pair with a fleet server and leave it again?
    FaultKinds,  \* which of the faults below the environment uses
    MaxFaults    \* bound: how many of them happen in one behaviour

Versions == 1..Last
NoVersion == 0

ASSUME ReleaseAssumption ==
    /\ Last \in Nat \ {0}
    /\ Healthy \subseteq Starts
    /\ Starts \subseteq Versions
    /\ 1 \in Healthy
    /\ GateSlots \in Nat \ {0}
    /\ Overlap \in BOOLEAN
    /\ CanPair \in BOOLEAN
    /\ FaultKinds \subseteq {"cut", "crash", "stop", "io", "save"}
    /\ MaxFaults \in Nat

Slots == 1..GateSlots
MaxBoots == 3   \* the gate only asks if the count is above two
Sources == {"github", "fleet", "sideload"}
JobSteps == {"idle", "stage", "clean", "place", "keep", "arm", "flip", "unarm",
             "prune", "clear", "restart"}
GateSteps == {"off", "start", "wait", "rollback", "flip", "mark",
              "disarm", "restart", "restarting"}

VARIABLES
    \* On the flash, under the release root.
    installed,   \* the directories under releases/ that hold a complete binary
    current,     \* the target of the link "current"
    previous,    \* the target of the link "previous"
    pending,     \* the version in .swap-pending
    badFiles,    \* the versions with a file health/<version>.bad
    gateBoots,   \* health/gate-boots: [ver, n]
    \* On the flash, elsewhere.
    badDisk,     \* bad_releases of state.json
    paired,      \* state.json holds a device token
    bundle,      \* the release of the bundle in <media>/_update
    \* In the tmpfs of the run directory.
    markers,     \* the versions with a file health/<version>.ok
    lock,        \* the directory health-gate.lock
    gatePid,     \* the pid file of the last gate: its slot, or 0
    gates,       \* the gate processes
    \* OpenRC and the daemon.
    svc,         \* "up" while supervise-daemon watches the service
    req,         \* the order that rc-service still has to carry out
    running,     \* the release of the daemon process, or 0
    phase,       \* "init" until CheckRollback ended, then "serving"
    badMem,      \* bad_releases of the state in memory
    asked,       \* the source that a check in flight began with, or "none"
    offered,     \* the release of the last check: [ver, src]
    job,         \* the one Apply that may run: [pc, ver, src]
    \* History and bounds.
    proven,      \* the releases that wrote a health marker once
    started,     \* the releases that the device ever executed
    faults       \* how many faults happened

flashVars == <<installed, current, previous, pending, badFiles, gateBoots,
               badDisk, paired, bundle>>
gateVars == <<lock, gatePid, gates>>
daemonVars == <<running, phase, badMem, asked, offered, job>>
serviceVars == <<svc, req>>
historyVars == <<proven, started, faults>>
vars == <<flashVars, markers, gateVars, serviceVars, daemonVars, historyVars>>

NoOffer == [ver |-> NoVersion, src |-> "github"]
IdleJob == [pc |-> "idle", ver |-> NoVersion, src |-> "github"]
NoBoots == [ver |-> NoVersion, n |-> 0]
NoGate == [pc |-> "off", ver |-> NoVersion, boots |-> 0, prev |-> NoVersion]

Gates == [pc : GateSteps, ver : Versions \cup {NoVersion}, boots : 0..MaxBoots,
          prev : Versions \cup {NoVersion}]

TypeOK ==
    /\ installed \subseteq Versions
    /\ current \in Versions
    /\ previous \in Versions \cup {NoVersion}
    /\ pending \in Versions \cup {NoVersion}
    /\ badFiles \subseteq Versions
    /\ gateBoots \in [ver : Versions \cup {NoVersion}, n : 0..MaxBoots]
    /\ badDisk \subseteq Versions
    /\ paired \in BOOLEAN
    /\ bundle \in Versions \cup {NoVersion}
    /\ markers \subseteq Versions
    /\ lock \in BOOLEAN
    /\ gatePid \in Slots \cup {0}
    /\ gates \in [Slots -> Gates]
    /\ svc \in {"up", "down"}
    /\ req \in {"none", "start", "restart"}
    /\ running \in Versions \cup {NoVersion}
    /\ phase \in {"init", "serving"}
    /\ badMem \subseteq Versions
    /\ asked \in {"none", "github", "fleet"}
    /\ offered \in [ver : Versions \cup {NoVersion}, src : Sources]
    /\ job \in [pc : JobSteps, ver : Versions \cup {NoVersion}, src : Sources]
    /\ proven \subseteq Versions
    /\ started \subseteq Versions
    /\ faults \in 0..MaxFaults

(***************************************************************************)
(* A flashed image: install.sh put release 1 in place and points "current" *)
(* at it.  There is no previous release and the machine is about to boot.  *)
(***************************************************************************)
Init ==
    /\ installed = {1} /\ current = 1 /\ previous = NoVersion
    /\ pending = NoVersion /\ badFiles = {} /\ gateBoots = NoBoots
    /\ badDisk = {} /\ paired = FALSE /\ bundle = NoVersion
    /\ markers = {} /\ lock = FALSE /\ gatePid = 0
    /\ gates = [g \in Slots |-> NoGate]
    /\ svc = "down" /\ req = "start"
    /\ running = NoVersion /\ phase = "init" /\ badMem = {}
    /\ asked = "none" /\ offered = NoOffer /\ job = IdleJob
    /\ proven = {1} /\ started = {} /\ faults = 0

Fault(kind) ==
    /\ kind \in FaultKinds
    /\ faults < MaxFaults
    /\ faults' = faults + 1

-----------------------------------------------------------------------------
(* The daemon.                                                             *)

Serving == running # NoVersion /\ phase = "serving"

\* The memory of a daemon process at its start: state.json is read, nothing else.
FreshMemory ==
    /\ phase' = "init"
    /\ badMem' = badDisk
    /\ asked' = "none"
    /\ offered' = NoOffer
    /\ job' = IdleJob

DaemonGone == running' = NoVersion /\ FreshMemory

\* A new process executes <root>/current/portapixeld.
DaemonExec ==
    /\ current \in installed
    /\ running' = current
    /\ started' = started \cup {current}
    /\ FreshMemory

\* Mutant of MarkBad: the bad list is kept in memory and not saved.
MarkBadUnsaved(v) ==
    /\ running \in Starts /\ phase = "init"
    /\ v \in badFiles \ badMem
    /\ badMem' = badMem \cup {v}
    /\ UNCHANGED <<flashVars, markers, gateVars, serviceVars, running, phase,
                   asked, offered, job, historyVars>>

\* CheckRollback, first half: MarkBadRelease puts one .bad version in the state
\* and saves it.  A save that fails is only a log line, the memory keeps it.
MarkBad(v) ==
    /\ running \in Starts /\ phase = "init"
    /\ v \in badFiles \ badMem
    /\ badMem' = badMem \cup {v}
    /\ \/ badDisk' = badMem' /\ UNCHANGED faults
       \/ Fault("save") /\ UNCHANGED badDisk
    /\ UNCHANGED <<installed, current, previous, pending, badFiles, gateBoots,
                   paired, bundle, markers, gateVars, serviceVars, running,
                   phase, asked, offered, job, proven, started>>

\* CheckRollback, second half: the file did its work and is removed.
ClearBad(v) ==
    /\ running \in Starts /\ phase = "init"
    /\ v \in badFiles \cap badMem
    /\ badFiles' = badFiles \ {v}
    /\ UNCHANGED <<installed, current, previous, pending, gateBoots, badDisk,
                   paired, bundle, markers, gateVars, serviceVars, daemonVars,
                   historyVars>>

\* newDaemon ends and serve() starts the loops.  A .bad file that could not be
\* removed stays, and the next start reads it again.
Serve ==
    /\ running \in Starts /\ phase = "init"
    /\ badFiles \subseteq badMem
    /\ \/ badFiles = {} /\ UNCHANGED faults
       \/ badFiles # {} /\ Fault("io")
    /\ phase' = "serving"
    /\ UNCHANGED <<flashVars, markers, gateVars, serviceVars, running, badMem,
                   asked, offered, job, proven, started>>

\* Any other change of the state saves the whole of it, the bad list included.
FlushState ==
    /\ Serving
    /\ badDisk # badMem
    /\ badDisk' = badMem
    /\ UNCHANGED <<installed, current, previous, pending, badFiles, gateBoots,
                   paired, bundle, markers, gateVars, serviceVars, daemonVars,
                   historyVars>>

\* writeHealthMarker: one atomic file, when the first picture is on the screen.
WriteMarker ==
    /\ Serving
    /\ running \in Healthy \ markers
    /\ markers' = markers \cup {running}
    /\ proven' = proven \cup {running}
    /\ UNCHANGED <<flashVars, gateVars, serviceVars, daemonVars, started, faults>>

SourceKind == IF paired THEN "fleet" ELSE "github"

\* A check begins: it takes the source of this moment along.
AskSource ==
    /\ Serving
    /\ asked = "none"
    /\ asked' = SourceKind
    /\ UNCHANGED <<flashVars, markers, gateVars, serviceVars, running, phase,
                   badMem, offered, job, historyVars>>

\* Check ends: the source names one release.  Only a newer one is kept, and the
\* answer is stored whatever happened to the pairing in between.
Check(v) ==
    /\ Serving
    /\ asked # "none"
    /\ asked' = "none"
    /\ offered' = IF v > running THEN [ver |-> v, src |-> asked] ELSE NoOffer
    /\ UNCHANGED <<flashVars, markers, gateVars, serviceVars, running, phase,
                   badMem, job, historyVars>>

\* The device pairs or unpairs, and the syncer calls Reset.
ChangePairing ==
    /\ CanPair
    /\ Serving
    /\ paired' = ~paired
    /\ offered' = NoOffer
    /\ UNCHANGED <<installed, current, previous, pending, badFiles, gateBoots,
                   badDisk, bundle, markers, gateVars, serviceVars, running,
                   phase, badMem, asked, job, historyVars>>

\* A person drops a release bundle into <media>/_update.
DropBundle(v) ==
    /\ bundle = NoVersion
    /\ bundle' = v
    /\ UNCHANGED <<installed, current, previous, pending, badFiles, gateBoots,
                   badDisk, paired, markers, gateVars, serviceVars, daemonVars,
                   historyVars>>

-----------------------------------------------------------------------------
(* Apply.                                                                  *)

\* No trial is open and no gate is left over from one.
Quiet == pending = NoVersion /\ \A g \in Slots : gates[g].pc = "off"

\* take() and the assumption on overlapping updates.
MayStart ==
    /\ Serving
    /\ job.pc = "idle"
    /\ Overlap \/ Quiet

\* Mutant of Refused: the bad list is not asked.
RefusedUnlessBad(v) == v <= running \/ v <= current

\* refuse, with a version: a bad release, a downgrade of the process, a downgrade
\* of the link.
Refused(v) == v \in badMem \/ v <= running \/ v <= current

JobTo(pc) == job' = [job EXCEPT !.pc = pc]

\* Mutant of JobEnds: the bundle stays where it is.
JobEndsOnly == job' = IdleJob /\ UNCHANGED bundle

\* Apply returns.  Sideload empties the bundle directory after it.
JobEnds ==
    /\ job' = IdleJob
    /\ bundle' = IF job.src = "sideload" THEN NoVersion ELSE bundle

OnlyJob == UNCHANGED <<flashVars, markers, gateVars, serviceVars, running, phase,
                       badMem, asked, offered, historyVars>>

\* Apply of a release that a check found.
StartOnline ==
    /\ MayStart
    /\ offered # NoOffer
    /\ offered.src = SourceKind
    /\ ~Refused(offered.ver)
    /\ job' = [pc |-> "stage", ver |-> offered.ver, src |-> offered.src]
    /\ OnlyJob

\* Sideload finds a bundle.  Its version is not known yet.
StartSideload ==
    /\ MayStart
    /\ bundle # NoVersion
    /\ job' = [pc |-> "stage", ver |-> NoVersion, src |-> "sideload"]
    /\ OnlyJob

\* Mutant of Verified: a sideload goes on without the version it found.
VerifiedUnnamed ==
    /\ job.pc = "stage"
    /\ JobTo("clean")
    /\ OnlyJob

\* stage and verify passed.  A sideload learns its version here and is judged now.
Verified ==
    /\ job.pc = "stage"
    /\ LET v == IF job.src = "sideload" THEN bundle ELSE job.ver
       IN  /\ job.src = "sideload" => ~Refused(v)
           /\ job' = [job EXCEPT !.pc = "clean", !.ver = v]
    /\ OnlyJob

\* A download, a checksum, a signature, the free space or the second refusal ends
\* the update before anything moved.
StageFails ==
    /\ job.pc = "stage"
    /\ JobEnds
    /\ UNCHANGED <<installed, current, previous, pending, badFiles, gateBoots,
                   badDisk, paired, markers, gateVars, serviceVars, running,
                   phase, badMem, asked, offered, historyVars>>

\* install: the directory of the release is emptied, never the one current names.
Clean ==
    /\ job.pc = "clean"
    /\ IF current = job.ver
         THEN JobEnds /\ UNCHANGED installed
         ELSE JobTo("place") /\ installed' = installed \ {job.ver} /\ UNCHANGED bundle
    /\ UNCHANGED <<current, previous, pending, badFiles, gateBoots, badDisk,
                   paired, markers, gateVars, serviceVars, running, phase, badMem,
                   asked, offered, historyVars>>

Place ==
    /\ job.pc = "place"
    /\ JobTo("keep")
    /\ installed' = installed \cup {job.ver}
    /\ UNCHANGED <<current, previous, pending, badFiles, gateBoots, badDisk,
                   paired, bundle, markers, gateVars, serviceVars, running, phase,
                   badMem, asked, offered, historyVars>>

Keep ==
    /\ job.pc = "keep"
    /\ JobTo("arm")
    /\ previous' = current
    /\ UNCHANGED <<installed, current, pending, badFiles, gateBoots, badDisk,
                   paired, bundle, markers, gateVars, serviceVars, running, phase,
                   badMem, asked, offered, historyVars>>

Arm ==
    /\ job.pc = "arm"
    /\ JobTo("flip")
    /\ pending' = job.ver
    /\ UNCHANGED <<installed, current, previous, badFiles, gateBoots, badDisk,
                   paired, bundle, markers, gateVars, serviceVars, running, phase,
                   badMem, asked, offered, historyVars>>

Flip ==
    /\ job.pc = "flip"
    /\ \/ JobTo("prune") /\ current' = job.ver /\ UNCHANGED faults
       \/ JobTo("unarm") /\ Fault("io") /\ UNCHANGED current
    /\ UNCHANGED <<installed, previous, pending, badFiles, gateBoots, badDisk,
                   paired, bundle, markers, gateVars, serviceVars, running, phase,
                   badMem, asked, offered, proven, started>>

\* A flip that failed takes the marker away.  The answer of os.Remove is not read.
Unarm ==
    /\ job.pc = "unarm"
    /\ JobEnds
    /\ \/ pending' = NoVersion /\ UNCHANGED faults
       \/ Fault("io") /\ UNCHANGED pending
    /\ UNCHANGED <<installed, current, previous, badFiles, gateBoots, badDisk,
                   paired, markers, gateVars, serviceVars, running, phase, badMem,
                   asked, offered, proven, started>>

\* A full or broken disk ends install at any of its first four writes.
InstallFails ==
    /\ job.pc \in {"clean", "place", "keep", "arm"}
    /\ Fault("io")
    /\ JobEnds
    /\ UNCHANGED <<installed, current, previous, pending, badFiles, gateBoots,
                   badDisk, paired, markers, gateVars, serviceVars, running,
                   phase, badMem, asked, offered, proven, started>>

\* Mutant of Prunable: everything but the new release goes.
PrunesPrevious == installed \ {job.ver}

\* Mutant of Prunable: the new release is not spared.
PrunesNew == installed \ {previous, running}

\* What prune may remove: not the new release, not the target of previous and not
\* the release of this process.
Prunable == installed \ {job.ver, previous, running}

\* prune, one directory after the other; a directory that does not go stays.
Prune ==
    /\ job.pc = "prune"
    /\ JobTo("clear")
    /\ \E gone \in SUBSET Prunable : installed' = installed \ gone
    /\ UNCHANGED <<current, previous, pending, badFiles, gateBoots, badDisk,
                   paired, bundle, markers, gateVars, serviceVars, running, phase,
                   badMem, asked, offered, historyVars>>

\* The bundle of a sideload goes away before the restart.
Clear ==
    /\ job.pc = "clear"
    /\ JobTo("restart")
    /\ bundle' = IF job.src = "sideload" THEN NoVersion ELSE bundle
    /\ UNCHANGED <<installed, current, previous, pending, badFiles, gateBoots,
                   badDisk, paired, markers, gateVars, serviceVars, running,
                   phase, badMem, asked, offered, historyVars>>

\* restartService: a detached rc-service, which may fail to start.
Restart ==
    /\ job.pc = "restart"
    /\ JobEnds
    /\ \/ req' = "restart" /\ UNCHANGED faults
       \/ Fault("io") /\ UNCHANGED req
    /\ UNCHANGED <<installed, current, previous, pending, badFiles, gateBoots,
                   badDisk, paired, markers, gateVars, svc, running, phase,
                   badMem, asked, offered, proven, started>>

JobStep == \/ Verified \/ StageFails \/ Clean \/ Place \/ Keep \/ Arm \/ Flip
           \/ Unarm \/ InstallFails \/ Prune \/ Clear \/ Restart

-----------------------------------------------------------------------------
(* The service: OpenRC, the init script and supervise-daemon.              *)

\* stop_pre sends TERM to the gate of the pid file.  The trap of the gate removes
\* the lock and does not exit; while rc-service runs in the foreground the trap
\* waits, and before the trap is set TERM ends the process.
StopGate ==
    IF gatePid = 0 \/ gates[gatePid].pc \in {"off", "restarting"}
      THEN UNCHANGED <<gates, lock>>
      ELSE IF gates[gatePid].pc = "start"
             THEN gates' = [gates EXCEPT ![gatePid] = NoGate] /\ UNCHANGED lock
             ELSE lock' = FALSE /\ UNCHANGED gates

\* The stop half of a restart.
ServiceStop ==
    /\ req = "restart"
    /\ req' = "start"
    /\ IF svc = "up"
         THEN StopGate /\ gatePid' = 0 /\ DaemonGone /\ svc' = "down"
         ELSE UNCHANGED <<gateVars, daemonVars, svc>>
    /\ UNCHANGED <<flashVars, markers, historyVars>>

\* A person stops the service, restarts it, or starts it again.
OperatorStop ==
    /\ svc = "up" /\ req = "none"
    /\ Fault("stop")
    /\ StopGate /\ gatePid' = 0 /\ DaemonGone /\ svc' = "down"
    /\ UNCHANGED <<flashVars, markers, req, proven, started>>

OperatorRestart ==
    /\ req = "none"
    /\ Fault("stop")
    /\ req' = "restart"
    /\ UNCHANGED <<flashVars, markers, gateVars, svc, daemonVars, proven, started>>

OperatorStart ==
    /\ svc = "down" /\ req = "none"
    /\ req' = "start"
    /\ UNCHANGED <<flashVars, markers, gateVars, svc, daemonVars, historyVars>>

\* Mutant of StartPre: the gate only starts beside a binary that runs.
StartPreNeedsBinary ==
    IF pending = NoVersion \/ current \notin Starts
      THEN UNCHANGED <<markers, gatePid, gates>>
      ELSE \E g \in Slots :
             /\ gates[g].pc = "off"
             /\ markers' = {}
             /\ gatePid' = g
             /\ gates' = [gates EXCEPT ![g] = [NoGate EXCEPT !.pc = "start"]]

\* start_pre: with a pending marker the health directory is emptied and a gate is
\* started in the background, whether or not this start has a binary to run.
StartPre ==
    IF pending = NoVersion
      THEN UNCHANGED <<markers, gatePid, gates>>
      ELSE \E g \in Slots :
             /\ gates[g].pc = "off"
             /\ markers' = {}
             /\ gatePid' = g
             /\ gates' = [gates EXCEPT ![g] = [NoGate EXCEPT !.pc = "start"]]

ServiceStart ==
    /\ svc = "down" /\ req = "start"
    /\ req' = "none"
    /\ StartPre
    /\ IF current \in installed
         THEN svc' = "up" /\ DaemonExec
         ELSE UNCHANGED <<svc, daemonVars, started>>
    /\ UNCHANGED <<flashVars, lock, proven, faults>>

\* supervise-daemon starts the binary behind current again.  No start_pre runs.
Respawn ==
    /\ svc = "up"
    /\ running = NoVersion
    /\ DaemonExec
    /\ UNCHANGED <<flashVars, markers, gateVars, serviceVars, proven, faults>>

\* The binary of this release does not run on this device.
DaemonExit ==
    /\ running \in Versions \ Starts
    /\ DaemonGone
    /\ UNCHANGED <<flashVars, markers, gateVars, serviceVars, historyVars>>

DaemonCrash ==
    /\ running # NoVersion
    /\ Fault("crash")
    /\ DaemonGone
    /\ UNCHANGED <<flashVars, markers, gateVars, serviceVars, proven, started>>

\* The power goes and comes back: the flash stays, and the runlevel starts the
\* service again.
PowerCut ==
    /\ Fault("cut")
    /\ markers' = {} /\ lock' = FALSE /\ gatePid' = 0
    /\ gates' = [g \in Slots |-> NoGate]
    /\ svc' = "down" /\ req' = "start"
    /\ DaemonGone
    /\ UNCHANGED <<flashVars, proven, started>>

-----------------------------------------------------------------------------
(* The health gate.                                                        *)

GateTo(g, pc) == gates' = [gates EXCEPT ![g].pc = pc]

\* The EXIT trap removes the lock directory, whoever made it.
GateExit(g) == gates' = [gates EXCEPT ![g] = NoGate] /\ lock' = FALSE

OnlyGate == UNCHANGED <<installed, previous, badDisk, paired, bundle, markers,
                        gatePid, svc, daemonVars, proven, started>>

\* How many starts this version got, counted before the wait.
BootsOf(v) ==
    LET n == IF gateBoots.ver = v THEN gateBoots.n ELSE 0
    IN  IF n < MaxBoots THEN n + 1 ELSE MaxBoots

\* The head of the script: the pending version, the lock, the count.
GateStart(g) ==
    /\ gates[g].pc = "start"
    /\ IF pending = NoVersion \/ lock
         THEN gates' = [gates EXCEPT ![g] = NoGate] /\ UNCHANGED <<lock, gateBoots>>
         ELSE /\ lock' = TRUE
              /\ gateBoots' = [ver |-> pending, n |-> BootsOf(pending)]
              /\ gates' = [gates EXCEPT ![g] =
                   [pc |-> "wait", ver |-> pending, boots |-> BootsOf(pending),
                    prev |-> NoVersion]]
    /\ OnlyGate /\ UNCHANGED <<current, pending, badFiles, req, faults>>

\* The marker is there: the trial is over, and the gate disarms itself.
GatePass(g) ==
    /\ gates[g].pc = "wait"
    /\ gates[g].ver \in markers
    /\ pending' = NoVersion
    /\ gateBoots' = NoBoots
    /\ GateExit(g)
    /\ OnlyGate /\ UNCHANGED <<current, badFiles, req, faults>>

\* The last look finds no marker; after one more sleep the wait is over.
GateLastLook(g) ==
    /\ gates[g].pc = "wait"
    /\ gates[g].ver \notin markers
    /\ GateTo(g, "rollback")
    /\ OnlyGate
    /\ UNCHANGED <<current, pending, badFiles, gateBoots, lock, req, faults>>

\* Mutant of GateReadPrev: the gate is disarmed before the flip.
GateReadPrevDisarms(g) ==
    /\ gates[g].pc = "rollback"
    /\ previous \in installed
    /\ pending' = NoVersion
    /\ gates' = [gates EXCEPT ![g].pc = "flip", ![g].prev = previous]
    /\ OnlyGate /\ UNCHANGED <<current, badFiles, gateBoots, lock, req, faults>>

\* Is there a release to go back to?  Without one the gate stays armed.
GateReadPrev(g) ==
    /\ gates[g].pc = "rollback"
    /\ IF previous \in installed
         THEN /\ gates' = [gates EXCEPT ![g].pc = "flip", ![g].prev = previous]
              /\ UNCHANGED lock
         ELSE GateExit(g)
    /\ OnlyGate
    /\ UNCHANGED <<current, pending, badFiles, gateBoots, req, faults>>

\* The flip back, or the exit with the gate still armed.
GateFlip(g) ==
    /\ gates[g].pc = "flip"
    /\ \/ current' = gates[g].prev /\ GateTo(g, "mark") /\ UNCHANGED <<lock, faults>>
       \/ Fault("io") /\ GateExit(g) /\ UNCHANGED current
    /\ OnlyGate /\ UNCHANGED <<pending, badFiles, gateBoots, req>>

\* The proof of the flip, then the .bad file.
GateMark(g) ==
    /\ gates[g].pc = "mark"
    /\ \/ /\ current = gates[g].prev
          /\ badFiles' = badFiles \cup {gates[g].ver}
          /\ GateTo(g, "disarm") /\ UNCHANGED <<lock, faults>>
       \/ /\ current # gates[g].prev
          /\ GateExit(g) /\ UNCHANGED <<badFiles, faults>>
       \/ /\ Fault("io")
          /\ GateExit(g) /\ UNCHANGED badFiles
    /\ OnlyGate /\ UNCHANGED <<current, pending, gateBoots, req>>

GateDisarm(g) ==
    /\ gates[g].pc = "disarm"
    /\ pending' = NoVersion
    /\ GateTo(g, "restart")
    /\ OnlyGate /\ UNCHANGED <<current, badFiles, gateBoots, lock, req, faults>>

\* Mutant of GateRestart: the rollback never restarts the service.
GateRestartNever(g) ==
    /\ gates[g].pc = "restart"
    /\ GateExit(g) /\ gateBoots' = NoBoots
    /\ OnlyGate /\ UNCHANGED <<current, pending, badFiles, req, faults>>

\* The boot loop guard, or rc-service in the foreground.
GateRestart(g) ==
    /\ gates[g].pc = "restart"
    /\ IF gates[g].boots > 2
         THEN GateExit(g) /\ gateBoots' = NoBoots /\ UNCHANGED req
         ELSE /\ req' = "restart" /\ GateTo(g, "restarting")
              /\ UNCHANGED <<lock, gateBoots>>
    /\ OnlyGate /\ UNCHANGED <<current, pending, badFiles, faults>>

\* rc-service came back and the script ends.
GateDone(g) ==
    /\ gates[g].pc = "restarting"
    /\ req = "none"
    /\ GateExit(g)
    /\ OnlyGate
    /\ UNCHANGED <<current, pending, badFiles, gateBoots, req, faults>>

GateStep(g) == \/ GateStart(g) \/ GatePass(g) \/ GateLastLook(g) \/ GateReadPrev(g)
               \/ GateFlip(g) \/ GateMark(g) \/ GateDisarm(g) \/ GateRestart(g)
               \/ GateDone(g)

-----------------------------------------------------------------------------
Startup == Serve \/ \E v \in Versions : MarkBad(v) \/ ClearBad(v)

DaemonStep == \/ Startup \/ FlushState \/ WriteMarker \/ AskSource
              \/ \E v \in Versions : Check(v)
              \/ ChangePairing \/ StartOnline \/ StartSideload \/ JobStep

ServiceStep == \/ ServiceStop \/ OperatorStop \/ OperatorRestart \/ OperatorStart
               \/ ServiceStart \/ Respawn \/ DaemonExit \/ DaemonCrash
               \/ PowerCut

Next == \/ DaemonStep
        \/ ServiceStep
        \/ \E v \in Versions : DropBundle(v)
        \/ \E g \in Slots : GateStep(g)

(***************************************************************************)
(* Every process that is there runs on: goroutines, the gate, rc-service   *)
(* and supervise-daemon.  Nobody has to press a button, pair, pull the     *)
(* plug or drop a bundle.  The look for a bundle comes back every minute   *)
(* and after every rescan, so an update that holds the Manager delays it   *)
(* and does not keep it out for ever: that is strong fairness.             *)
(***************************************************************************)
Fairness ==
    /\ WF_vars(Startup)
    /\ WF_vars(WriteMarker)
    /\ WF_vars(JobStep)
    /\ SF_vars(StartSideload)
    /\ WF_vars(ServiceStop)
    /\ WF_vars(ServiceStart)
    /\ WF_vars(Respawn)
    /\ WF_vars(DaemonExit)
    /\ \A g \in Slots : WF_vars(GateStep(g))

Spec == Init /\ [][Next]_vars
FairSpec == Spec /\ Fairness

-----------------------------------------------------------------------------
(* What a trial promises.                                                  *)

\* While a release has to prove itself, the release that the gate would go back to
\* is on the flash and once proved itself.  prune, install and the second refusal
\* of refuse work together for this.
CanGoBack == pending # NoVersion => previous \in installed \cap proven

\* The link current always names a complete release: install moves a directory
\* into place before it flips, and prune and RemoveAll stay away from it.
NeverStranded == current \in installed

\* docs/updates.md: no update half-applies.  When no trial is open, the device
\* starts a release that proved itself.
Settled == pending = NoVersion => current \in proven

\* A release that rolled back stays refused: what the .bad files and state.json
\* hold together never shrinks, over restarts and power cuts too.
BansStick == [][badFiles \cup badDisk \subseteq (badFiles \cup badDisk)']_vars

\* The swap implements the trial of ReleaseTrial.  The base of a trial is the
\* target of previous; outside a trial it is the release the device has.
Trial == INSTANCE ReleaseTrial WITH
            cur <- current, trial <- pending,
            base <- IF pending = NoVersion THEN current ELSE previous,
            ok <- proven, banned <- badFiles \cup badDisk

\* Every durable step of install and of the gate is a step of a trial: against the
\* release the device has, never of a banned release, and never half-applied.
RefinesTrial == Trial!Spec

\* Every trial ends, in a marker or in a rollback.
TrialEnds == pending # NoVersion ~> pending = NoVersion

\* The device always comes back to a release that shows a picture.
BackInService == []<>(running \in Healthy)

\* A dropped bundle is used up: installed or refused, it does not stay for ever.
BundleUsedUp == bundle # NoVersion ~> bundle = NoVersion

\* updates.md: a paired device only ever installs what its server approved.  No
\* flip to a GitHub release happens on a paired device.
PairedTakesFleet ==
    [][job.pc = "flip" /\ current' # current /\ paired => job.src # "github"]_vars

\* install: a marker with no flip makes the gate roll back a release that works.
\* So only a release that the device has started is ever called bad.
OnlyTriedIsBad == badFiles \cup badDisk \subseteq started

\* stop_pre: a gate left running would start a daemon that an operator stopped.
\* So a service that is down is only asked to start by a person.
StoppedStays ==
    [][svc = "down" /\ req = "none" /\ req' # "none" =>
         UNCHANGED <<gates, lock, pending, current>>]_vars

\* health-gate.sh: the updater never installs a release again that the gate marked.
BannedStaysOut ==
    [][job.pc = "flip" /\ current' # current => job.ver \notin badFiles \cup badDisk]_vars

\* doc.go: the updater never offers a release again that rolled back.
BadIsNotOffered == offered.ver \notin badMem

-----------------------------------------------------------------------------
(***************************************************************************)
(* The inductive invariant behind the three safety properties, for devices *)
(* on which updates do not overlap.  A job excludes gates, because it      *)
(* begins when none is left and only a new service start, which ends the   *)
(* daemon and its job, makes one.  So previous is fixed while a gate lives *)
(* and every gate of a trial goes back to the same release.                *)
(***************************************************************************)
TrialInv ==
    /\ NeverStranded
    /\ Settled
    /\ CanGoBack
    /\ pending # NoVersion => current \in {pending, previous}
    /\ markers \subseteq proven

GateInv ==
    \A g \in Slots :
      /\ gates[g].pc \notin {"off", "start"} =>
           /\ gates[g].ver \in Versions
           /\ pending \in {NoVersion, gates[g].ver}
           /\ current \in {gates[g].ver, previous}
           /\ previous \in installed \cap proven
      /\ gates[g].pc \in {"flip", "mark", "disarm"} => gates[g].prev = previous
      /\ gates[g].pc = "disarm" => current = previous

JobInv ==
    /\ svc = "down" => running = NoVersion
    /\ job.pc # "idle" => running # NoVersion /\ \A g \in Slots : gates[g].pc = "off"
    /\ job.pc \in {"stage", "clean", "place", "keep", "arm"} => pending = NoVersion
    /\ job.pc \notin {"idle", "stage"} => job.ver \in Versions
    /\ job.pc = "stage" /\ job.src # "sideload" => job.ver \in Versions
    /\ job.pc \in {"keep", "arm", "flip", "prune"} => job.ver \in installed
    /\ job.pc \in {"arm", "flip", "unarm"} => previous = current
    /\ job.pc \in {"flip", "unarm", "prune"} => pending = job.ver
    /\ job.pc = "prune" => current = job.ver

SwapInv == TypeOK /\ TrialInv /\ GateInv /\ JobInv

(***************************************************************************)
(* The step simulation behind RefinesTrial, for devices whose saves work   *)
(* and whose service nobody stops by hand.                                 *)
(***************************************************************************)
\* No rollback ends in the boot loop guard, which leaves the old process, with the
\* bad list that it read before, to install the same release again.
GuardRests == \A g \in Slots : gates[g].pc = "restart" => gates[g].boots <= 2

\* A gate wrote a .bad file, and the restart that makes the daemon read it is due.
Returning ==
    \E g \in Slots : \/ gates[g].pc \in {"disarm", "restart"}
                     \/ gates[g].pc = "restarting" /\ req = "restart"

\* There is one gate, and the trial lasts until it decides.
OneGate ==
    /\ \A g, h \in Slots : gates[g].pc # "off" /\ gates[h].pc # "off" => g = h
    /\ \A g \in Slots :
         /\ gates[g].pc \in {"wait", "rollback", "flip", "mark", "disarm"} =>
              pending = gates[g].ver
         /\ gates[g].pc \in {"restart", "restarting"} => pending = NoVersion
    /\ req # "none" /\ pending # NoVersion => \A g \in Slots : gates[g].pc = "off"
    /\ svc = "down" => req # "none"

\* The release of a job is newer than the one the device has, and not banned: the
\* process of the job knows every .bad file.
NewRelease ==
    /\ badMem = badDisk
    /\ job.pc # "idle" => phase = "serving"
    /\ Serving => badFiles \subseteq badMem \/ Returning
    /\ \/ job.pc \in {"clean", "place", "keep", "arm"}
       \/ job.pc = "stage" /\ job.src # "sideload"
       => job.ver > current /\ job.ver \notin badMem

RefineInv == OneGate /\ NewRelease
=============================================================================
