-------------------------- MODULE ReleaseSwapProofs --------------------------
(***************************************************************************)
(* What holds of the release swap for every number of releases, of gates   *)
(* and of faults.                                                          *)
(***************************************************************************)
EXTENDS ReleaseSwap, TLAPS

\* The groups of variables, opened together.
LEMMA StutterType == TypeOK /\ UNCHANGED vars => TypeOK'
BY DEF TypeOK, vars, flashVars, gateVars, serviceVars, daemonVars, historyVars

\* A bounded event stays in its bound.
LEMMA FaultType == ASSUME TypeOK, NEW kind, Fault(kind) PROVE faults' \in 0..MaxFaults
BY ReleaseAssumption DEF TypeOK, Fault

\* The empty offer, job and boot are well typed.
LEMMA ConstantTypes ==
    /\ NoOffer \in [ver : Versions \cup {NoVersion}, src : Sources]
    /\ IdleJob \in [pc : JobSteps, ver : Versions \cup {NoVersion}, src : Sources]
    /\ NoBoots \in [ver : Versions \cup {NoVersion}, n : 0..MaxBoots]
    /\ NoGate \in Gates
BY DEF NoOffer, IdleJob, NoBoots, NoGate, Gates, Sources, JobSteps, GateSteps, MaxBoots

\* The types hold at the start.
LEMMA InitType == Init => TypeOK
<1> SUFFICES ASSUME Init PROVE TypeOK
  OBVIOUS
<1>1. 1 \in Versions
  BY ReleaseAssumption DEF Versions
<1>2. 0 \in 0..MaxFaults
  BY ReleaseAssumption
<1> QED
  BY <1>1, <1>2, ConstantTypes DEF Init, TypeOK

\* The steps of the daemon outside of Apply keep the types.
LEMMA DaemonType ==
    ASSUME TypeOK,
           \/ Startup \/ FlushState \/ WriteMarker \/ AskSource
           \/ \E v \in Versions : Check(v)
           \/ ChangePairing \/ StartOnline \/ StartSideload
    PROVE  TypeOK'
<1> USE DEF TypeOK, flashVars, gateVars, serviceVars, daemonVars, historyVars
<1>1. ASSUME NEW v \in Versions, MarkBad(v) PROVE TypeOK'
  BY <1>1, FaultType DEF MarkBad
<1>2. ASSUME NEW v \in Versions, ClearBad(v) PROVE TypeOK'
  BY <1>2 DEF ClearBad
<1>3. CASE Serve
  BY <1>3, FaultType DEF Serve
<1>4. CASE FlushState
  BY <1>4 DEF FlushState
<1>5. CASE WriteMarker
  BY <1>5, ReleaseAssumption DEF WriteMarker
<1>6. CASE AskSource
  BY <1>6 DEF AskSource, SourceKind
<1>7. ASSUME NEW v \in Versions, Check(v) PROVE TypeOK'
  BY <1>7, ConstantTypes DEF Check, Sources
<1>8. CASE ChangePairing
  BY <1>8, ConstantTypes DEF ChangePairing
<1>9. CASE StartOnline
  BY <1>9 DEF StartOnline, OnlyJob, JobSteps
<1>10. CASE StartSideload
  BY <1>10 DEF StartSideload, OnlyJob, JobSteps, Sources
<1> QED
  BY <1>1, <1>2, <1>3, <1>4, <1>5, <1>6, <1>7, <1>8, <1>9, <1>10 DEF Startup

\* Every step of Apply keeps the types.
LEMMA JobType == ASSUME TypeOK, JobInv, JobStep PROVE TypeOK'
<1> USE ConstantTypes DEF TypeOK, flashVars, gateVars, serviceVars, daemonVars,
        historyVars, JobTo, JobEnds, JobSteps
<1>1. CASE Verified
  <2>1. ASSUME NEW v \in Versions \cup {NoVersion}, ~Refused(v) PROVE v \in Versions
    BY <2>1 DEF Refused, Versions, NoVersion
  <2>2. job' \in [pc : JobSteps, ver : Versions \cup {NoVersion}, src : Sources]
    BY <1>1, <2>1 DEF Verified
  <2> QED BY <1>1, <2>2 DEF Verified, OnlyJob
<1>2. CASE StageFails
  BY <1>2 DEF StageFails
<1>3. CASE Clean
  BY <1>3 DEF Clean
<1>4. CASE Place
  BY <1>4 DEF Place, JobInv
<1>5. CASE Keep
  BY <1>5 DEF Keep
<1>6. CASE Arm
  BY <1>6 DEF Arm
<1>7. CASE Flip
  BY <1>7, FaultType DEF Flip, JobInv
<1>8. CASE Unarm
  BY <1>8, FaultType DEF Unarm
<1>9. CASE InstallFails
  BY <1>9, FaultType DEF InstallFails
<1>10. CASE Prune
  BY <1>10 DEF Prune
<1>11. CASE Clear
  BY <1>11 DEF Clear
<1>12. CASE Restart
  BY <1>12, FaultType DEF Restart
<1> QED
  BY <1>1, <1>2, <1>3, <1>4, <1>5, <1>6, <1>7, <1>8, <1>9, <1>10, <1>11, <1>12
     DEF JobStep

\* Every step of the service and of the environment keeps the types.
LEMMA ServiceType == ASSUME TypeOK, ServiceStep PROVE TypeOK'
<1> USE ConstantTypes DEF TypeOK, flashVars, gateVars, serviceVars, daemonVars,
        historyVars, DaemonGone, DaemonExec, FreshMemory
<1>1. ASSUME StopGate PROVE /\ lock' \in BOOLEAN
                            /\ gates' \in [Slots -> Gates]
  BY <1>1, ZenonT(60) DEF StopGate
<1>2. CASE ServiceStop
  BY <1>2, <1>1 DEF ServiceStop
<1>3. CASE OperatorStop
  BY <1>3, <1>1, FaultType DEF OperatorStop
<1>4. CASE OperatorRestart
  BY <1>4, FaultType DEF OperatorRestart
<1>5. CASE OperatorStart
  BY <1>5 DEF OperatorStart
<1>6. CASE ServiceStart
  <2>1. /\ markers' \subseteq Versions
        /\ gatePid' \in Slots \cup {0}
        /\ gates' \in [Slots -> Gates]
    BY <1>6 DEF ServiceStart, StartPre, GateSteps, Gates
  <2> QED BY <1>6, <2>1 DEF ServiceStart
<1>7. CASE Respawn
  BY <1>7 DEF Respawn
<1>8. CASE DaemonExit
  BY <1>8 DEF DaemonExit
<1>9. CASE DaemonCrash
  BY <1>9, FaultType DEF DaemonCrash
<1>10. CASE PowerCut
  BY <1>10, FaultType DEF PowerCut
<1> QED
  BY <1>2, <1>3, <1>4, <1>5, <1>6, <1>7, <1>8, <1>9, <1>10 DEF ServiceStep

\* What the three kinds of change of a gate process give.
LEMMA GateUpdate ==
    ASSUME gates \in [Slots -> Gates], NEW g \in Slots
    PROVE  /\ \A x \in Gates : [gates EXCEPT ![g] = x] \in [Slots -> Gates]
           /\ \A pc \in GateSteps : [gates EXCEPT ![g].pc = pc] \in [Slots -> Gates]
           /\ \A p \in Versions :
                [gates EXCEPT ![g].pc = "flip", ![g].prev = p] \in [Slots -> Gates]
<1>1. gates[g] \in Gates
  OBVIOUS
<1>2. \A pc \in GateSteps : [gates[g] EXCEPT !.pc = pc] \in Gates
  BY <1>1 DEF Gates
<1>3. \A p \in Versions : [gates[g] EXCEPT !.pc = "flip", !.prev = p] \in Gates
  BY <1>1 DEF Gates, GateSteps
<1> QED BY <1>1, <1>2, <1>3

\* Every step of a gate keeps the types.
LEMMA GateType == ASSUME TypeOK, GateInv, NEW g \in Slots, GateStep(g) PROVE TypeOK'
<1>1. gates' \in [Slots -> Gates]
  <2>1. \/ gates' = gates
        \/ gates' = [gates EXCEPT ![g] = NoGate]
        \/ \E pc \in GateSteps : gates' = [gates EXCEPT ![g].pc = pc]
        \/ \E p \in Versions : gates' = [gates EXCEPT ![g].pc = "flip", ![g].prev = p]
        \/ gates' = [gates EXCEPT ![g] =
                [pc |-> "wait", ver |-> pending, boots |-> BootsOf(pending),
                 prev |-> NoVersion]]
    <3>1. CASE GateReadPrev(g)
      BY <3>1 DEF GateReadPrev, GateExit, TypeOK
    <3>2. CASE GateStart(g)
      BY <3>2 DEF GateStart
    <3> QED
      BY <3>1, <3>2 DEF GateSteps, GateExit, GateTo, GateStep, GatePass, GateLastLook,
                        GateFlip, GateMark, GateDisarm, GateRestart, GateDone
  <2>2. [pc |-> "wait", ver |-> pending, boots |-> BootsOf(pending),
         prev |-> NoVersion] \in Gates
    <3>1. BootsOf(pending) \in 0..MaxBoots
      BY DEF TypeOK, BootsOf, MaxBoots
    <3> QED BY <3>1 DEF Gates, TypeOK, GateSteps
  <2>3. gates \in [Slots -> Gates]
    BY DEF TypeOK
  <2>4. /\ \A x \in Gates : [gates EXCEPT ![g] = x] \in [Slots -> Gates]
        /\ \A pc \in GateSteps : [gates EXCEPT ![g].pc = pc] \in [Slots -> Gates]
        /\ \A p \in Versions :
             [gates EXCEPT ![g].pc = "flip", ![g].prev = p] \in [Slots -> Gates]
    BY <2>3, GateUpdate
  <2>5. NoGate \in Gates
    BY ConstantTypes
  <2> QED BY <2>1, <2>2, <2>3, <2>4, <2>5
<1>2. /\ lock' \in BOOLEAN
      /\ OnlyGate
      /\ req' \in {req, "restart"}
      /\ pending' \in {pending, NoVersion}
  BY DEF TypeOK, GateStep, GateExit, GateStart, GatePass, GateLastLook, GateReadPrev,
         GateFlip, GateMark, GateDisarm, GateRestart, GateDone
<1>3. faults' \in 0..MaxFaults
  BY FaultType DEF TypeOK, GateStep, GateStart, GatePass, GateLastLook, GateReadPrev,
         GateFlip, GateMark, GateDisarm, GateRestart, GateDone
<1>4. current' \in Versions
  <2>1. CASE GateFlip(g)
    BY <2>1 DEF GateFlip, GateInv, TypeOK
  <2> QED
    BY <2>1 DEF TypeOK, GateStep, GateStart, GatePass, GateLastLook, GateReadPrev,
                GateMark, GateDisarm, GateRestart, GateDone
<1>5. badFiles' \subseteq Versions
  <2>1. CASE GateMark(g)
    BY <2>1 DEF GateMark, GateInv, TypeOK
  <2> QED
    BY <2>1 DEF TypeOK, GateStep, GateStart, GatePass, GateLastLook, GateReadPrev,
                GateFlip, GateDisarm, GateRestart, GateDone
<1>6. gateBoots' \in [ver : Versions \cup {NoVersion}, n : 0..MaxBoots]
  <2>1. CASE GateStart(g)
    <3>1. BootsOf(pending) \in 0..MaxBoots
      BY DEF TypeOK, BootsOf, MaxBoots
    <3> QED BY <2>1, <3>1 DEF TypeOK, GateStart
  <2> QED
    BY <2>1, ConstantTypes DEF TypeOK, GateStep, GatePass, GateLastLook, GateReadPrev,
                GateFlip, GateMark, GateDisarm, GateRestart, GateDone
<1> QED
  BY <1>1, <1>2, <1>3, <1>4, <1>5, <1>6 DEF TypeOK, OnlyGate, daemonVars

-----------------------------------------------------------------------------
(* The inductive invariant.                                                *)

TrialVars == <<installed, current, previous, pending, markers, proven>>
InvVars == <<TrialVars, gates, svc, running, job>>
OpenInv == TrialInv /\ GateInv /\ JobInv

\* Nothing outside of these variables matters to the invariant.
LEMMA FrameInv == ASSUME OpenInv, UNCHANGED InvVars PROVE OpenInv'
BY DEF OpenInv, InvVars, TrialVars, TrialInv, NeverStranded, Settled, CanGoBack,
       GateInv, JobInv

\* The invariant holds at the start.
LEMMA InitInv == Init => OpenInv
<1> SUFFICES ASSUME Init PROVE OpenInv
  OBVIOUS
<1>1. TrialInv
  BY DEF Init, TrialInv, NeverStranded, Settled, CanGoBack
<1>2. GateInv
  BY DEF Init, GateInv, NoGate
<1>3. JobInv
  BY DEF Init, JobInv, IdleJob
<1> QED BY <1>1, <1>2, <1>3 DEF OpenInv

\* A daemon process that ends or begins holds no job.
LEMMA NoJobInv ==
    ASSUME OpenInv, UNCHANGED TrialVars, UNCHANGED gates, job' = IdleJob,
           svc' = "down" => running' = NoVersion
    PROVE  OpenInv'
<1>1. TrialInv' /\ GateInv'
  BY DEF OpenInv, TrialVars, TrialInv, NeverStranded, Settled, CanGoBack, GateInv
<1>2. JobInv'
  BY DEF JobInv, IdleJob
<1> QED BY <1>1, <1>2 DEF OpenInv

\* The daemon outside of Apply.
LEMMA DaemonInv ==
    ASSUME ~Overlap, TypeOK, OpenInv,
           \/ Startup \/ FlushState \/ WriteMarker \/ AskSource
           \/ \E v \in Versions : Check(v)
           \/ ChangePairing \/ StartOnline \/ StartSideload
    PROVE  OpenInv'
<1> USE DEF flashVars, gateVars, serviceVars, daemonVars, historyVars
<1>1. ASSUME \/ Startup \/ FlushState \/ AskSource
             \/ \E v \in Versions : Check(v)
             \/ ChangePairing
      PROVE  UNCHANGED InvVars
  BY <1>1 DEF Startup, MarkBad, ClearBad, Serve, FlushState, AskSource, Check,
              ChangePairing, InvVars, TrialVars
<1>2. CASE WriteMarker
  <2>1. /\ UNCHANGED <<installed, current, previous, pending, gates, svc, running, job>>
        /\ proven \subseteq proven' /\ markers' \subseteq markers \cup proven'
    BY <1>2 DEF WriteMarker
  <2>2. TrialInv'
    BY <2>1 DEF OpenInv, TrialInv, NeverStranded, Settled, CanGoBack
  <2>3. GateInv' /\ JobInv'
    BY <2>1 DEF OpenInv, GateInv, JobInv
  <2> QED BY <2>2, <2>3 DEF OpenInv
<1>3. CASE StartOnline \/ StartSideload
  <2>1. /\ UNCHANGED <<TrialVars, gates, svc, running>>
        /\ job'.pc = "stage"
        /\ running # NoVersion /\ Quiet
    BY <1>3 DEF StartOnline, StartSideload, OnlyJob, MayStart, Serving, TrialVars
  <2>2. job'.src # "sideload" => job'.ver \in Versions
    <3>1. ASSUME StartOnline PROVE offered.ver \in Versions
      BY <3>1 DEF StartOnline, Refused, TypeOK, Versions, NoVersion
    <3> QED BY <1>3, <3>1 DEF StartOnline, StartSideload
  <2>3. TrialInv' /\ GateInv'
    BY <2>1 DEF OpenInv, TrialVars, TrialInv, NeverStranded, Settled, CanGoBack, GateInv
  <2>4. JobInv'
    BY <2>1, <2>2 DEF OpenInv, JobInv, Quiet, TrialVars
  <2> QED BY <2>3, <2>4 DEF OpenInv
<1> QED BY <1>1, <1>2, <1>3, FrameInv

\* The steps of Apply, with no gate about.
LEMMA JobStepInv == ASSUME TypeOK, OpenInv, JobStep PROVE OpenInv'
<1> USE DEF flashVars, gateVars, serviceVars, daemonVars, historyVars
<1>1. /\ UNCHANGED <<gates, markers, proven, svc, running>>
      /\ job.pc # "idle"
  BY DEF JobStep, Verified, OnlyJob, StageFails, Clean, Place, Keep, Arm, Flip, Unarm,
         InstallFails, Prune, Clear, Restart
<1>2. \A g \in Slots : gates[g].pc = "off"
  BY <1>1 DEF OpenInv, JobInv
<1>3. GateInv'
  BY <1>1, <1>2 DEF GateInv
<1>4. ASSUME StageFails \/ InstallFails \/ Restart \/ (Clean /\ current = job.ver)
      PROVE  UNCHANGED TrialVars /\ job' = IdleJob
  BY <1>4 DEF StageFails, InstallFails, Restart, Clean, JobEnds, TrialVars
<1>5. CASE Verified
  <2>1. job' \in [pc : {"clean"}, ver : Versions, src : Sources]
    <3>1. ASSUME NEW v \in Versions \cup {NoVersion}, ~Refused(v) PROVE v \in Versions
      BY <3>1 DEF Refused, Versions, NoVersion, TypeOK
    <3> QED BY <1>5, <3>1 DEF Verified, OpenInv, JobInv, TypeOK
  <2>2. UNCHANGED TrialVars
    BY <1>5 DEF Verified, OnlyJob, TrialVars
  <2>3. TrialInv'
    BY <2>2 DEF OpenInv, TrialVars, TrialInv, NeverStranded, Settled, CanGoBack
  <2>4. JobInv'
    BY <1>1, <1>2, <1>5, <2>1, <2>2 DEF OpenInv, JobInv, Verified, TrialVars
  <2> QED BY <1>3, <2>3, <2>4 DEF OpenInv
<1>6. ASSUME Clean, current # job.ver PROVE OpenInv'
  <2>1. TrialInv'
    BY <1>1, <1>6 DEF Clean, OpenInv, JobInv, TrialInv, NeverStranded, Settled, CanGoBack
  <2>2. JobInv'
    BY <1>1, <1>2, <1>6 DEF Clean, JobTo, OpenInv, JobInv, TypeOK
  <2> QED BY <1>3, <2>1, <2>2 DEF OpenInv
<1>7. CASE Place
  <2>1. TrialInv'
    BY <1>1, <1>7 DEF Place, OpenInv, TrialInv, NeverStranded, Settled, CanGoBack
  <2>2. JobInv'
    BY <1>1, <1>2, <1>7 DEF Place, JobTo, OpenInv, JobInv, TypeOK
  <2> QED BY <1>3, <2>1, <2>2 DEF OpenInv
<1>8. CASE Keep
  <2>1. TrialInv'
    BY <1>1, <1>8 DEF Keep, OpenInv, JobInv, TrialInv, NeverStranded, Settled, CanGoBack
  <2>2. JobInv'
    BY <1>1, <1>2, <1>8 DEF Keep, JobTo, OpenInv, JobInv, TypeOK
  <2> QED BY <1>3, <2>1, <2>2 DEF OpenInv
<1>9. CASE Arm
  <2>1. TrialInv'
    BY <1>1, <1>9 DEF Arm, OpenInv, JobInv, TrialInv, NeverStranded, Settled, CanGoBack
  <2>2. JobInv'
    BY <1>1, <1>2, <1>9 DEF Arm, JobTo, OpenInv, JobInv, TypeOK
  <2> QED BY <1>3, <2>1, <2>2 DEF OpenInv
<1>10. CASE Flip
  <2>1. job.ver # NoVersion
    BY <1>10 DEF Flip, OpenInv, JobInv, Versions, NoVersion
  <2>2. TrialInv'
    BY <1>1, <1>10, <2>1 DEF Flip, OpenInv, JobInv, TrialInv, NeverStranded, Settled,
                             CanGoBack
  <2>3. JobInv'
    BY <1>1, <1>2, <1>10 DEF Flip, JobTo, OpenInv, JobInv, TypeOK
  <2> QED BY <1>3, <2>2, <2>3 DEF OpenInv
<1>11. CASE Unarm
  <2>1. job.ver # NoVersion
    BY <1>11 DEF Unarm, OpenInv, JobInv, Versions, NoVersion
  <2>2. TrialInv'
    BY <1>1, <1>11, <2>1 DEF Unarm, OpenInv, JobInv, TrialInv, NeverStranded, Settled,
                             CanGoBack
  <2>3. JobInv'
    BY <1>1, <1>11 DEF Unarm, JobEnds, IdleJob, OpenInv, JobInv
  <2> QED BY <1>3, <2>2, <2>3 DEF OpenInv
<1>12. CASE Prune
  <2>1. TrialInv'
    BY <1>1, <1>12 DEF Prune, Prunable, OpenInv, JobInv, TrialInv, NeverStranded, Settled,
                       CanGoBack
  <2>2. JobInv'
    BY <1>1, <1>2, <1>12 DEF Prune, JobTo, OpenInv, JobInv, TypeOK
  <2> QED BY <1>3, <2>1, <2>2 DEF OpenInv
<1>13. CASE Clear
  <2>1. TrialInv'
    BY <1>1, <1>13 DEF Clear, OpenInv, TrialInv, NeverStranded, Settled, CanGoBack
  <2>2. JobInv'
    BY <1>1, <1>2, <1>13 DEF Clear, JobTo, OpenInv, JobInv, TypeOK
  <2> QED BY <1>3, <2>1, <2>2 DEF OpenInv
<1>14. CASE StageFails \/ InstallFails \/ Restart \/ (Clean /\ current = job.ver)
  <2>1. UNCHANGED TrialVars /\ job' = IdleJob
    BY <1>4, <1>14
  <2>2. svc' = "down" => running' = NoVersion
    BY <1>1 DEF OpenInv, JobInv
  <2> QED BY <1>1, <2>1, <2>2, NoJobInv
<1>15. CASE Clean
  BY <1>6, <1>14, <1>15
<1> QED
  BY <1>5, <1>15, <1>7, <1>8, <1>9, <1>10, <1>11, <1>12, <1>13, <1>14 DEF JobStep

\* The service, supervise-daemon, the people and the power.
LEMMA ServiceInv == ASSUME TypeOK, OpenInv, ServiceStep PROVE OpenInv'
<1> USE DEF flashVars, gateVars, serviceVars, daemonVars, historyVars
<1>1. ASSUME StopGate, UNCHANGED TrialVars, job' = IdleJob, running' = NoVersion
      PROVE  OpenInv'
  <2>1. TrialInv'
    BY <1>1 DEF OpenInv, TrialVars, TrialInv, NeverStranded, Settled, CanGoBack
  <2>2. \A g \in Slots : gates'[g] \in {gates[g], NoGate}
    BY <1>1 DEF StopGate, TypeOK
  <2>3. GateInv'
    BY <1>1, <2>2 DEF OpenInv, GateInv, NoGate, TrialVars
  <2>4. JobInv'
    BY <1>1 DEF JobInv, IdleJob
  <2> QED BY <2>1, <2>3, <2>4 DEF OpenInv
<1>2. CASE ServiceStop
  <2>1. CASE svc = "up"
    BY <1>1, <1>2, <2>1 DEF ServiceStop, DaemonGone, FreshMemory, TrialVars
  <2>2. CASE svc # "up"
    BY <1>2, <2>2, FrameInv DEF ServiceStop, InvVars, TrialVars
  <2> QED BY <2>1, <2>2
<1>3. CASE OperatorStop
  BY <1>1, <1>3 DEF OperatorStop, DaemonGone, FreshMemory, TrialVars
<1>4. CASE OperatorRestart \/ OperatorStart
  BY <1>4, FrameInv DEF OperatorRestart, OperatorStart, InvVars, TrialVars
<1>5. CASE ServiceStart
  <2>1. current \in installed
    BY DEF OpenInv, TrialInv, NeverStranded
  <2>2. /\ UNCHANGED <<installed, current, previous, pending, proven>>
        /\ svc' = "up" /\ job' = IdleJob
        /\ markers' \subseteq markers
    BY <1>5, <2>1 DEF ServiceStart, StartPre, DaemonExec, FreshMemory
  <2>3. \A g \in Slots : gates'[g] = gates[g] \/ gates'[g].pc = "start"
    BY <1>5 DEF ServiceStart, StartPre, NoGate, TypeOK
  <2>4. TrialInv'
    BY <2>2 DEF OpenInv, TrialInv, NeverStranded, Settled, CanGoBack
  <2>5. GateInv'
    BY <2>2, <2>3 DEF OpenInv, GateInv
  <2>6. JobInv'
    BY <2>2 DEF JobInv, IdleJob
  <2> QED BY <2>4, <2>5, <2>6 DEF OpenInv
<1>6. CASE Respawn \/ DaemonExit \/ DaemonCrash
  <2>1. UNCHANGED <<TrialVars, gates, svc>> /\ job' = IdleJob
    BY <1>6 DEF Respawn, DaemonExit, DaemonCrash, DaemonGone, DaemonExec, FreshMemory,
                TrialVars
  <2>2. svc' = "down" => running' = NoVersion
    BY <1>6, <2>1 DEF Respawn, DaemonExit, DaemonCrash, DaemonGone
  <2> QED BY <2>1, <2>2, NoJobInv
<1>7. CASE PowerCut
  <2>1. /\ UNCHANGED <<installed, current, previous, pending, proven>>
        /\ markers' = {} /\ job' = IdleJob /\ running' = NoVersion
        /\ \A g \in Slots : gates'[g].pc = "off"
    BY <1>7 DEF PowerCut, DaemonGone, FreshMemory, NoGate
  <2>2. TrialInv'
    BY <2>1 DEF OpenInv, TrialInv, NeverStranded, Settled, CanGoBack
  <2>3. GateInv'
    BY <2>1 DEF GateInv
  <2>4. JobInv'
    BY <2>1 DEF JobInv, IdleJob
  <2> QED BY <2>2, <2>3, <2>4 DEF OpenInv
<1> QED BY <1>2, <1>3, <1>4, <1>5, <1>6, <1>7 DEF ServiceStep

\* The gate, with no job about: a gate that acts is not off.
LEMMA GateStepInv == ASSUME TypeOK, OpenInv, NEW g \in Slots, GateStep(g) PROVE OpenInv'
<1> USE DEF flashVars, gateVars, serviceVars, daemonVars, historyVars
<1>1. /\ UNCHANGED <<installed, previous, markers, proven, svc, running, job>>
      /\ gates[g].pc # "off"
  BY DEF GateStep, GateStart, GatePass, GateLastLook, GateReadPrev, GateFlip, GateMark,
         GateDisarm, GateRestart, GateDone, OnlyGate
<1>2. JobInv'
  BY <1>1 DEF OpenInv, JobInv
<1>3. /\ gates \in [Slots -> Gates]
      /\ \A h \in Slots : h # g => gates'[h] = gates[h]
  BY DEF TypeOK, GateStep, GateStart, GatePass, GateLastLook, GateReadPrev, GateFlip,
         GateMark, GateDisarm, GateRestart, GateDone, GateTo, GateExit
<1>4. CASE GateStart(g)
  <2>1. UNCHANGED <<current, pending>>
    BY <1>4 DEF GateStart
  <2>2. TrialInv'
    BY <1>1, <2>1 DEF OpenInv, TrialInv, NeverStranded, Settled, CanGoBack
  <2>3. \/ gates'[g].pc = "off"
        \/ gates'[g].pc = "wait" /\ gates'[g].ver = pending /\ pending \in Versions
    BY <1>3, <1>4 DEF GateStart, NoGate, TypeOK
  <2>4. GateInv'
    BY <1>1, <1>3, <2>1, <2>3
       DEF OpenInv, GateInv, TrialInv, CanGoBack, Versions, NoVersion
  <2> QED BY <1>2, <2>2, <2>4 DEF OpenInv
<1>5. CASE GatePass(g)
  <2>1. pending' = NoVersion /\ current' = current /\ gates'[g].pc = "off"
    BY <1>3, <1>5 DEF GatePass, GateExit, NoGate
  <2>2. current \in proven
    BY <1>5 DEF GatePass, OpenInv, GateInv, TrialInv
  <2>3. TrialInv'
    BY <1>1, <2>1, <2>2 DEF OpenInv, TrialInv, NeverStranded, Settled, CanGoBack
  <2>4. GateInv'
    BY <1>1, <1>3, <2>1 DEF OpenInv, GateInv
  <2> QED BY <1>2, <2>3, <2>4 DEF OpenInv
<1>6. CASE GateLastLook(g) \/ GateReadPrev(g) \/ GateRestart(g) \/ GateDone(g)
  <2>1. UNCHANGED <<current, pending>>
    BY <1>6 DEF GateLastLook, GateReadPrev, GateRestart, GateDone
  <2>2. TrialInv'
    BY <1>1, <2>1 DEF OpenInv, TrialInv, NeverStranded, Settled, CanGoBack
  <2>3. \/ gates'[g].pc = "off"
        \/ /\ gates[g].pc \notin {"off", "start"}
           /\ gates'[g].ver = gates[g].ver
           /\ gates'[g].pc \in {"rollback", "restarting"}
        \/ /\ gates[g].pc \notin {"off", "start"}
           /\ gates'[g].ver = gates[g].ver
           /\ gates'[g].pc = "flip" /\ gates'[g].prev = previous
    BY <1>3, <1>6 DEF GateLastLook, GateReadPrev, GateRestart, GateDone, GateExit, GateTo,
                      NoGate, Gates
  <2>4. GateInv'
    BY <1>1, <1>3, <2>1, <2>3 DEF OpenInv, GateInv
  <2> QED BY <1>2, <2>2, <2>4 DEF OpenInv
<1>7. CASE GateFlip(g)
  <2>1. /\ pending' = pending
        /\ \/ /\ current' = previous /\ gates'[g].pc = "mark"
              /\ gates'[g].ver = gates[g].ver /\ gates'[g].prev = gates[g].prev
           \/ current' = current /\ gates'[g].pc = "off"
        /\ gates[g].pc = "flip"
    BY <1>3, <1>7 DEF GateFlip, GateExit, GateTo, NoGate, Gates, OpenInv, GateInv
  <2>2. previous \in installed \cap proven
    BY <2>1 DEF OpenInv, GateInv
  <2>3. TrialInv'
    BY <1>1, <2>1, <2>2 DEF OpenInv, TrialInv, NeverStranded, Settled, CanGoBack
  <2>4. GateInv'
    BY <1>1, <1>3, <2>1 DEF OpenInv, GateInv
  <2> QED BY <1>2, <2>3, <2>4 DEF OpenInv
<1>8. CASE GateMark(g)
  <2>1. /\ UNCHANGED <<current, pending>>
        /\ \/ /\ current = previous /\ gates'[g].pc = "disarm"
              /\ gates'[g].ver = gates[g].ver /\ gates'[g].prev = gates[g].prev
           \/ gates'[g].pc = "off"
        /\ gates[g].pc = "mark"
    BY <1>3, <1>8 DEF GateMark, GateExit, GateTo, NoGate, Gates, OpenInv, GateInv
  <2>2. TrialInv'
    BY <1>1, <2>1 DEF OpenInv, TrialInv, NeverStranded, Settled, CanGoBack
  <2>3. GateInv'
    BY <1>1, <1>3, <2>1 DEF OpenInv, GateInv
  <2> QED BY <1>2, <2>2, <2>3 DEF OpenInv
<1>9. CASE GateDisarm(g)
  <2>1. /\ current' = current /\ pending' = NoVersion
        /\ current = previous /\ previous \in proven
        /\ gates[g].pc = "disarm"
        /\ gates'[g].pc = "restart" /\ gates'[g].ver = gates[g].ver
    BY <1>3, <1>9 DEF GateDisarm, GateTo, Gates, OpenInv, GateInv
  <2>2. TrialInv'
    BY <1>1, <2>1 DEF OpenInv, TrialInv, NeverStranded, Settled, CanGoBack
  <2>3. GateInv'
    BY <1>1, <1>3, <2>1 DEF OpenInv, GateInv
  <2> QED BY <1>2, <2>2, <2>3 DEF OpenInv
<1> QED BY <1>4, <1>5, <1>6, <1>7, <1>8, <1>9 DEF GateStep

\* The invariant is inductive.
LEMMA SwapInvStep ==
    ASSUME ~Overlap, SwapInv, [Next]_vars PROVE SwapInv'
<1> USE DEF SwapInv, OpenInv
<1>1. CASE UNCHANGED vars
  <2>1. TypeOK'
    BY <1>1, StutterType
  <2>2. OpenInv'
    BY <1>1, FrameInv DEF InvVars, TrialVars, vars, flashVars, gateVars, serviceVars,
                          daemonVars, historyVars
  <2> QED BY <2>1, <2>2
<1>2. CASE JobStep
  BY <1>2, JobType, JobStepInv
<1>3. CASE ServiceStep
  BY <1>3, ServiceType, ServiceInv
<1>4. ASSUME NEW g \in Slots, GateStep(g) PROVE SwapInv'
  BY <1>4, GateType, GateStepInv
<1>5. ASSUME NEW v \in Versions, DropBundle(v) PROVE SwapInv'
  <2>1. TypeOK'
    BY <1>5 DEF DropBundle, TypeOK, gateVars, serviceVars, daemonVars, historyVars
  <2>2. OpenInv'
    BY <1>5, FrameInv DEF DropBundle, InvVars, TrialVars, gateVars, serviceVars,
                          daemonVars, historyVars
  <2> QED BY <2>1, <2>2
<1>6. ASSUME \/ Startup \/ FlushState \/ WriteMarker \/ AskSource
             \/ \E v \in Versions : Check(v)
             \/ ChangePairing \/ StartOnline \/ StartSideload
      PROVE  SwapInv'
  BY <1>6, DaemonType, DaemonInv
<1> QED BY <1>1, <1>2, <1>3, <1>4, <1>5, <1>6 DEF Next, DaemonStep

\* For any number of releases, gates and faults of any kind, as long as updates do
\* not overlap, every state satisfies the inductive invariant.
LEMMA SwapInvHolds == ASSUME ~Overlap PROVE Spec => []SwapInv
<1>1. Init => SwapInv
  BY InitType, InitInv DEF SwapInv, OpenInv
<1>2. SwapInv /\ [Next]_vars => SwapInv'
  BY SwapInvStep
<1> QED BY <1>1, <1>2, PTL DEF Spec

\* The variables keep their types: no gate, job or boot counter leaves the steps of
\* apply.go, the init script and health-gate.sh.
THEOREM SwapTyped == ASSUME ~Overlap PROVE Spec => []TypeOK
<1>1. SwapInv => TypeOK
  BY DEF SwapInv
<1> QED BY <1>1, SwapInvHolds, PTL

\* Whatever fails and whenever power goes, a trial has a proven release to go back
\* to: the one that health-gate.sh and the init script find under previous.
THEOREM SwapSafety == ASSUME ~Overlap PROVE Spec => []CanGoBack
<1>1. SwapInv => CanGoBack
  BY DEF SwapInv, OpenInv, TrialInv
<1> QED BY <1>1, SwapInvHolds, PTL

\* The link current always names a release that is complete on the flash, between
\* any two steps of the install, the roll back and the pruning.
THEOREM CurrentIsComplete == ASSUME ~Overlap PROVE Spec => []NeverStranded
<1>1. SwapInv => NeverStranded
  BY DEF SwapInv, OpenInv, TrialInv
<1> QED BY <1>1, SwapInvHolds, PTL

\* Outside of a trial, current names a release that a health gate has proven.
THEOREM SettledIsProven == ASSUME ~Overlap PROVE Spec => []Settled
<1>1. SwapInv => Settled
  BY DEF SwapInv, OpenInv, TrialInv
<1> QED BY <1>1, SwapInvHolds, PTL

-----------------------------------------------------------------------------
(* The list of banned releases.                                            *)

\* With every save of state.json done, memory and disk hold the same list, and a
\* step leaves the list and the .bad files alone, or adds to one of them, or drops
\* a .bad file whose release the list holds.
LEMMA BanStep ==
    ASSUME "save" \notin FaultKinds, badMem = badDisk, Next
    PROVE  badMem' = badDisk' /\ badFiles \cup badDisk \subseteq (badFiles \cup badDisk)'
<1> USE DEF flashVars, gateVars, serviceVars, daemonVars, historyVars
<1>1. ASSUME NEW v \in Versions, MarkBad(v) \/ ClearBad(v)
      PROVE  badMem' = badDisk' /\ badFiles \cup badDisk \subseteq (badFiles \cup badDisk)'
  BY <1>1 DEF MarkBad, ClearBad, Fault
<1>2. CASE Serve \/ FlushState \/ WriteMarker \/ AskSource \/ ChangePairing
            \/ StartOnline \/ StartSideload \/ \E v \in Versions : Check(v) \/ DropBundle(v)
  BY <1>2 DEF Serve, FlushState, WriteMarker, AskSource, ChangePairing, StartOnline,
              StartSideload, Check, DropBundle, OnlyJob
<1>3. CASE JobStep
  BY <1>3 DEF JobStep, Verified, OnlyJob, StageFails, Clean, Place, Keep, Arm, Flip,
              Unarm, InstallFails, Prune, Clear, Restart
<1>4. CASE ServiceStep
  BY <1>4 DEF ServiceStep, ServiceStop, OperatorStop, OperatorRestart, OperatorStart,
              ServiceStart, Respawn, DaemonExit, DaemonCrash, PowerCut, DaemonGone,
              DaemonExec, FreshMemory
<1>5. ASSUME NEW g \in Slots, GateStep(g)
      PROVE  badMem' = badDisk' /\ badFiles \cup badDisk \subseteq (badFiles \cup badDisk)'
  BY <1>5 DEF GateStep, GateStart, GatePass, GateLastLook, GateReadPrev, GateFlip,
              GateMark, GateDisarm, GateRestart, GateDone, OnlyGate
<1> QED BY <1>1, <1>2, <1>3, <1>4, <1>5 DEF Next, DaemonStep, Startup

\* On a device whose state.json can be written, a release that rolled back is
\* refused for ever: no restart, crash, power cut or overlapping update takes it
\* from both the .bad files and the list.
THEOREM BansAreKept == ASSUME "save" \notin FaultKinds PROVE Spec => BansStick
<1> DEFINE Same == badMem = badDisk
           Kept == badFiles \cup badDisk \subseteq (badFiles \cup badDisk)'
<1>1. Init => Same
  BY DEF Init
<1>2. Same /\ [Next]_vars => Same' /\ [Kept]_vars
  <2>1. CASE UNCHANGED vars
    BY <2>1 DEF vars, flashVars, daemonVars
  <2>2. CASE Next
    BY <2>2, BanStep
  <2> QED BY <2>1, <2>2
<1> QED BY <1>1, <1>2, PTL DEF Spec, BansStick
-----------------------------------------------------------------------------
(* The step simulation of ReleaseTrial.                                    *)

\* What the simulation assumes of the device: no overlap of updates, saves that work,
\* and nobody who stops the service by hand.
Calm == ~Overlap /\ FaultKinds \cap {"save", "stop"} = {}

\* The variables that RefineInv reads.
RefineVars == <<badMem, badDisk, badFiles, job, phase, running, current, gates, req, pending, svc>>

\* RefineInv holds of a flashed image.
LEMMA InitRefine == Init => RefineInv
BY DEF Init, RefineInv, OneGate, NewRelease, Serving, IdleJob, NoGate, NoVersion

\* What reads the same variables is the same.
LEMMA RefineFrame == ASSUME RefineInv, UNCHANGED RefineVars PROVE RefineInv'
BY DEF RefineInv, OneGate, NewRelease, Returning, Serving, RefineVars

\* The steps of the daemon outside of Apply keep RefineInv: a process serves when it
\* knows every .bad file, and a job begins when no gate is left.
LEMMA DaemonRefine ==
    ASSUME Calm, SwapInv, RefineInv,
           \/ Startup \/ FlushState \/ WriteMarker \/ AskSource
           \/ \E v \in Versions : Check(v)
           \/ ChangePairing \/ StartOnline \/ StartSideload
    PROVE  RefineInv'
<1> USE DEF RefineInv, RefineVars, flashVars, gateVars, serviceVars, daemonVars, historyVars
<1>1. ASSUME NEW v \in Versions, MarkBad(v) PROVE RefineInv'
  BY <1>1 DEF MarkBad, OneGate, NewRelease, Serving, Calm, Fault
<1>2. ASSUME NEW v \in Versions, ClearBad(v) PROVE RefineInv'
  BY <1>2 DEF ClearBad, OneGate, NewRelease, Serving
<1>3. CASE Serve
  BY <1>3 DEF Serve, OneGate, NewRelease, Serving
<1>4. CASE FlushState \/ WriteMarker \/ AskSource \/ ChangePairing
  BY <1>4, RefineFrame DEF FlushState, WriteMarker, AskSource, ChangePairing, NewRelease
<1>5. ASSUME NEW v \in Versions, Check(v) PROVE RefineInv'
  BY <1>5, RefineFrame DEF Check
<1>6. CASE StartOnline \/ StartSideload
  <2>1. OneGate'
    BY <1>6 DEF OneGate, StartOnline, StartSideload, OnlyJob
  <2>2. NewRelease'
    <3>1. /\ UNCHANGED <<badMem, badDisk, badFiles, phase, running, current, gates, req>>
          /\ Serving /\ \A g \in Slots : gates[g].pc = "off"
      BY <1>6 DEF StartOnline, StartSideload, OnlyJob, MayStart, Quiet, Calm
    <3>2. badFiles \subseteq badMem
      BY <3>1 DEF NewRelease, Returning
    <3>3. /\ job'.pc = "stage"
          /\ job'.src # "sideload" => job'.ver > current /\ job'.ver \notin badMem
      <4>1. CASE StartSideload
        BY <4>1 DEF StartSideload
      <4>2. CASE StartOnline
        <5>1. /\ offered.ver \in Nat /\ current \in Nat
              /\ job' = [pc |-> "stage", ver |-> offered.ver, src |-> offered.src]
              /\ ~Refused(offered.ver)
          BY <4>2 DEF StartOnline, SwapInv, TypeOK, Versions, NoVersion
        <5> QED BY <5>1 DEF Refused
      <4> QED BY <1>6, <4>1, <4>2
    <3> QED BY <3>1, <3>2, <3>3 DEF NewRelease, Serving
  <2> QED BY <2>1, <2>2
<1> QED BY <1>1, <1>2, <1>3, <1>4, <1>5, <1>6 DEF Startup

\* Every step of Apply keeps RefineInv: the release of the job was judged with the list
\* of bad releases that this process still has.
LEMMA JobRefine == ASSUME Calm, SwapInv, RefineInv, JobStep PROVE RefineInv'
<1> USE DEF RefineInv, RefineVars, flashVars, gateVars, serviceVars, daemonVars, historyVars
<1>1. /\ UNCHANGED <<gates, svc, badMem, badDisk, badFiles, phase, running>>
      /\ job.pc # "idle" => \A g \in Slots : gates[g].pc = "off"
      /\ job.pc # "idle"
      /\ job.pc # "restart" => req' = req
      /\ current' # current => job.pc = "flip"
      /\ job' \in [pc : JobSteps, ver : Versions \cup {NoVersion}, src : Sources]
  <2>1. UNCHANGED <<gates, svc, badMem, badDisk, badFiles, phase, running>>
    BY DEF JobStep, Verified, OnlyJob, StageFails, Clean, Place, Keep, Arm, Flip, Unarm,
           InstallFails, Prune, Clear, Restart
  <2>2. job.pc # "idle" /\ (job.pc # "restart" => req' = req)
        /\ (current' # current => job.pc = "flip")
    BY DEF JobStep, Verified, OnlyJob, StageFails, Clean, Place, Keep, Arm, Flip, Unarm,
           InstallFails, Prune, Clear, Restart
  <2>3. TypeOK'
    BY JobType DEF SwapInv
  <2> QED BY <2>1, <2>2, <2>3 DEF SwapInv, JobInv, TypeOK
<1>2. OneGate'
  <2>1. svc # "down"
    BY <1>1 DEF SwapInv, JobInv
  <2> QED BY <1>1, <2>1 DEF OneGate
<1>3. badFiles \subseteq badMem
  BY <1>1 DEF NewRelease, Returning, Serving, SwapInv, JobInv
<1>4. CASE Verified
  <2>1. job'.ver > current /\ job'.ver \notin badMem
    BY <1>4 DEF Verified, NewRelease, Refused, SwapInv, TypeOK, Versions, NoVersion
  <2> QED BY <1>1, <1>2, <1>4, <2>1 DEF NewRelease, Verified, OnlyJob, Serving, Returning
<1>5. CASE job' = IdleJob
  BY <1>1, <1>2, <1>3, <1>5 DEF NewRelease, IdleJob, Serving
<1>6. CASE \/ Place \/ Keep \/ Arm \/ Flip \/ Prune \/ Clear \/ (Clean /\ job' # IdleJob)
  <2>1. job'.pc \in {"place", "keep", "arm"} =>
          job.pc \in {"clean", "place", "keep"} /\ job'.ver = job.ver /\ current' = current
    BY <1>1, <1>6 DEF Place, Keep, Arm, Flip, Prune, Clear, Clean, JobTo, JobEnds, SwapInv, TypeOK
  <2>2. job'.pc \notin {"idle", "stage", "clean"}
    BY <1>1, <1>6 DEF Place, Keep, Arm, Flip, Prune, Clear, Clean, JobTo, JobEnds, SwapInv, TypeOK
  <2> QED BY <1>1, <1>2, <1>3, <2>1, <2>2 DEF NewRelease, Serving
<1>7. Verified \/ (job' = IdleJob) \/ Place \/ Keep \/ Arm \/ Flip \/ Prune \/ Clear
      \/ (Clean /\ job' # IdleJob)
  BY DEF JobStep, StageFails, InstallFails, Unarm, Restart, JobEnds
<1> QED BY <1>4, <1>5, <1>6, <1>7

\* The service keeps RefineInv: a process that begins does not serve yet, and a start
\* makes a gate only when there is none.
LEMMA ServiceRefine == ASSUME Calm, SwapInv, RefineInv, ServiceStep PROVE RefineInv'
<1> USE DEF RefineInv, RefineVars, flashVars, gateVars, serviceVars, daemonVars, historyVars
<1>0. SwapInv'
  BY SwapInvStep DEF Calm, Next
<1>1. CASE ServiceStop
  <2>1. running' = NoVersion /\ badMem' = badDisk' /\ job'.pc = "idle"
    BY <1>1 DEF ServiceStop, DaemonGone, FreshMemory, IdleJob, SwapInv, JobInv, TypeOK, NewRelease
  <2>2. NewRelease'
    BY <2>1 DEF NewRelease, Serving
  <2>3. /\ req = "restart" /\ req' = "start" /\ UNCHANGED pending
        /\ \A g \in Slots : gates'[g] = gates[g] \/ gates'[g].pc = "off"
    BY <1>1 DEF ServiceStop, StopGate, NoGate, SwapInv, TypeOK
  <2>4. OneGate'
    BY <2>3 DEF OneGate
  <2> QED BY <2>2, <2>4
<1>2. CASE ServiceStart
  <2>1. running' # NoVersion /\ badMem' = badDisk' /\ job'.pc = "idle" /\ phase' = "init"
        /\ svc' = "up" /\ req' = "none"
    BY <1>2 DEF ServiceStart, DaemonExec, FreshMemory, IdleJob, SwapInv, TrialInv, NeverStranded,
                TypeOK, Versions, NoVersion
  <2>2. NewRelease'
    BY <2>1 DEF NewRelease, Serving
  <2>3. OneGate'
    <3>1. CASE pending = NoVersion
      BY <1>2, <2>1, <3>1 DEF OneGate, ServiceStart, StartPre
    <3>2. CASE pending # NoVersion
      <4>1. PICK g \in Slots : gates' = [gates EXCEPT ![g] = [NoGate EXCEPT !.pc = "start"]]
        BY <1>2, <3>2 DEF ServiceStart, StartPre
      <4>2. \A h \in Slots : gates[h].pc = "off"
        BY <1>2, <3>2 DEF OneGate, ServiceStart
      <4>3. \A h \in Slots : gates'[h].pc = IF h = g THEN "start" ELSE "off"
        BY <4>1, <4>2 DEF SwapInv, TypeOK, NoGate
      <4> QED BY <2>1, <4>3 DEF OneGate
    <3> QED BY <3>1, <3>2
  <2> QED BY <2>2, <2>3
<1>3. CASE Respawn \/ DaemonExit \/ DaemonCrash
  <2>1. badMem' = badDisk' /\ job'.pc = "idle" /\ phase' = "init"
    BY <1>3 DEF Respawn, DaemonExit, DaemonCrash, DaemonExec, DaemonGone, FreshMemory, IdleJob
  <2>2. NewRelease'
    BY <2>1 DEF NewRelease, Serving
  <2>3. OneGate'
    BY <1>3 DEF OneGate, Respawn, DaemonExit, DaemonCrash
  <2> QED BY <2>2, <2>3
<1>4. CASE PowerCut
  <2>1. badMem' = badDisk' /\ job'.pc = "idle" /\ phase' = "init"
    BY <1>4 DEF PowerCut, DaemonGone, FreshMemory, IdleJob
  <2>2. NewRelease'
    BY <2>1 DEF NewRelease, Serving
  <2>3. OneGate'
    BY <1>4 DEF OneGate, PowerCut, NoGate
  <2> QED BY <2>2, <2>3
<1>5. CASE OperatorStop \/ OperatorRestart \/ OperatorStart
  BY <1>5 DEF OperatorStop, OperatorRestart, OperatorStart, Fault, Calm, OneGate
<1> QED BY <1>1, <1>2, <1>3, <1>4, <1>5 DEF ServiceStep

\* A gate keeps RefineInv: after the .bad file it goes on until the restart is asked
\* for, unless the boot loop guard ends it.
LEMMA GateRefine ==
    ASSUME Calm, SwapInv, RefineInv, GuardRests, NEW g \in Slots, GateStep(g)
    PROVE  RefineInv'
<1> USE DEF RefineInv, flashVars, gateVars, serviceVars, daemonVars, historyVars
<1>1. UNCHANGED <<svc, badMem, badDisk, job, phase, running>>
  BY DEF GateStep, GateStart, GatePass, GateLastLook, GateReadPrev, GateFlip,
         GateMark, GateDisarm, GateRestart, GateDone, OnlyGate
<1>2. gates[g].pc # "off"
  BY DEF GateStep, GateStart, GatePass, GateLastLook, GateReadPrev, GateFlip,
         GateMark, GateDisarm, GateRestart, GateDone
<1>3. job.pc = "idle"
  BY <1>2 DEF SwapInv, JobInv
<1>4. \A h \in Slots : h # g => gates[h].pc = "off" /\ gates'[h] = gates[h]
  <2>1. \A h \in Slots : h # g => gates[h].pc = "off"
    BY <1>2 DEF OneGate
  <2>2. \A h \in Slots : h # g => gates'[h] = gates[h]
    BY DEF GateStep, GateStart, GatePass, GateLastLook, GateReadPrev, GateFlip,
           GateMark, GateDisarm, GateRestart, GateDone, GateTo, GateExit, SwapInv, TypeOK
  <2> QED BY <2>1, <2>2
<1>5. /\ gates'[g].pc \in {"wait", "rollback", "flip", "mark", "disarm"} => pending' = gates'[g].ver
      /\ gates'[g].pc \in {"restart", "restarting"} => pending' = NoVersion
      /\ req' # "none" /\ pending' # NoVersion => gates'[g].pc = "off"
      /\ req' = req \/ req' = "restart"
      /\ badFiles' = badFiles \/ gates'[g].pc = "disarm"
      /\ gates[g].pc \in {"disarm", "restart"} =>
            gates'[g].pc \in {"disarm", "restart"} \/ (gates'[g].pc = "restarting" /\ req' = "restart")
      /\ gates[g].pc = "restarting" /\ req = "restart" => FALSE
  <2> USE DEF OneGate, OnlyGate, GateTo, GateExit, SwapInv, TypeOK, NoGate, Gates
  <2>1. CASE GateStart(g)
    BY <2>1 DEF GateStart
  <2>2. CASE GatePass(g) \/ GateLastLook(g)
    BY <2>2 DEF GatePass, GateLastLook
  <2>3. CASE GateReadPrev(g) \/ GateFlip(g)
    BY <2>3 DEF GateReadPrev, GateFlip
  <2>4. CASE GateMark(g) \/ GateDisarm(g)
    BY <2>4 DEF GateMark, GateDisarm
  <2>5. CASE GateRestart(g)
    <3>1. gates[g].boots <= 2 /\ gates[g].boots \in 0..MaxBoots
      BY <2>5 DEF GateRestart, GuardRests
    <3>2. ~(gates[g].boots > 2)
      BY <3>1 DEF MaxBoots
    <3> QED BY <2>5, <3>2 DEF GateRestart
  <2>6. CASE GateDone(g)
    BY <2>6 DEF GateDone
  <2> QED BY <2>1, <2>2, <2>3, <2>4, <2>5, <2>6 DEF GateStep
<1>6. OneGate'
  BY <1>1, <1>4, <1>5 DEF OneGate
<1>7. Returning => Returning'
  BY <1>4, <1>5 DEF Returning
<1>8. badFiles' = badFiles \/ Returning'
  BY <1>5 DEF Returning
<1>9. NewRelease'
  BY <1>1, <1>3, <1>7, <1>8 DEF NewRelease, Serving
<1> QED BY <1>6, <1>9

\* Every step keeps RefineInv.
LEMMA RefineStep ==
    ASSUME Calm, SwapInv, RefineInv, GuardRests, [Next]_vars
    PROVE  RefineInv'
<1>1. CASE UNCHANGED vars
  BY <1>1, RefineFrame DEF vars, RefineVars, flashVars, gateVars, serviceVars, daemonVars
<1>2. ASSUME NEW v \in Versions, DropBundle(v) PROVE RefineInv'
  BY <1>2, RefineFrame DEF DropBundle, RefineVars, gateVars, serviceVars, daemonVars
<1>3. CASE JobStep
  BY <1>3, JobRefine
<1>4. CASE ServiceStep
  BY <1>4, ServiceRefine
<1>5. ASSUME NEW g \in Slots, GateStep(g) PROVE RefineInv'
  BY <1>5, GateRefine
<1>6. ASSUME \/ Startup \/ FlushState \/ WriteMarker \/ AskSource
             \/ \E v \in Versions : Check(v)
             \/ ChangePairing \/ StartOnline \/ StartSideload
      PROVE  RefineInv'
  BY <1>6, DaemonRefine
<1> QED BY <1>1, <1>2, <1>3, <1>4, <1>5, <1>6 DEF Next, DaemonStep

\* A flashed image is an initial state of the trial.
LEMMA InitTrial == Init => Trial!Init
BY DEF Init, Trial!Init, NoVersion

\* Steps that leave the links, the marker, the bans and the proven releases alone are
\* stuttering steps of the trial.
LEMMA TrialStutter ==
    ASSUME UNCHANGED <<current, pending, previous, proven, badFiles, badDisk>>
    PROVE  UNCHANGED Trial!vars
BY DEF Trial!vars

\* The steps of Apply, as steps of the trial: Arm begins it, Flip switches to the new
\* release, and Unarm ends it on the old one.
LEMMA JobTrial == ASSUME SwapInv, RefineInv, JobStep PROVE [Trial!Next]_(Trial!vars)
<1> USE DEF flashVars, gateVars, serviceVars, daemonVars, historyVars
<1>1. CASE Verified \/ StageFails \/ Clean \/ Place \/ InstallFails \/ Prune \/ Clear \/ Restart
  BY <1>1, TrialStutter DEF Verified, OnlyJob, StageFails, Clean, Place, InstallFails, Prune,
         Clear, Restart
<1>2. CASE Keep
  <2>1. pending = NoVersion /\ UNCHANGED <<current, pending, proven, badFiles, badDisk>>
    BY <1>2 DEF Keep, SwapInv, JobInv
  <2> QED BY <2>1 DEF Trial!vars
<1>3. CASE Arm
  <2>1. /\ pending = NoVersion /\ pending' = job.ver /\ previous = current
        /\ job.ver \in Versions
        /\ UNCHANGED <<current, previous, proven, badFiles, badDisk>>
    BY <1>3 DEF Arm, SwapInv, JobInv
  <2>2. job.ver > current /\ job.ver \notin badMem /\ badMem = badDisk
    BY <1>3 DEF Arm, RefineInv, NewRelease
  <2>3. badFiles \subseteq badMem
    BY <1>3 DEF Arm, RefineInv, NewRelease, Returning, Serving, SwapInv, JobInv
  <2>4. job.ver # NoVersion
    BY <2>1 DEF Versions, NoVersion
  <2>5. Trial!Begin(job.ver)
    BY <2>1, <2>2, <2>3, <2>4 DEF Trial!Begin, NoVersion
  <2> QED BY <2>1, <2>5 DEF Trial!Next, Versions
<1>4. CASE Flip
  <2>1. /\ pending = job.ver /\ pending # NoVersion
        /\ current' \in {job.ver, current} /\ previous = current
        /\ UNCHANGED <<pending, previous, proven, badFiles, badDisk>>
    BY <1>4 DEF Flip, SwapInv, JobInv, Versions, NoVersion
  <2>2. Trial!Switch
    BY <2>1 DEF Trial!Switch, NoVersion
  <2> QED BY <2>2 DEF Trial!Next
<1>5. CASE Unarm
  <2>1. /\ pending = job.ver /\ pending # NoVersion /\ previous = current
        /\ UNCHANGED <<current, previous, proven, badFiles, badDisk>>
        /\ pending' \in {NoVersion, pending}
    BY <1>5 DEF Unarm, SwapInv, JobInv, Versions, NoVersion
  <2>2. CASE pending' = pending
    BY <2>1, <2>2, TrialStutter
  <2>3. CASE pending' = NoVersion
    <3>1. Trial!End
      BY <2>1, <2>3 DEF Trial!End, NoVersion
    <3> QED BY <3>1 DEF Trial!Next
  <2> QED BY <2>1, <2>2, <2>3
<1> QED BY <1>1, <1>2, <1>3, <1>4, <1>5 DEF JobStep

\* The steps of a gate, as steps of the trial: the flip back switches, the .bad file
\* bans, and the gate ends the trial with a proven release or on the old one.
LEMMA GateTrial ==
    ASSUME SwapInv, RefineInv, NEW g \in Slots, GateStep(g)
    PROVE  [Trial!Next]_(Trial!vars)
<1> USE DEF OnlyGate, historyVars
<1>1. CASE GateStart(g) \/ GateLastLook(g) \/ GateReadPrev(g) \/ GateRestart(g) \/ GateDone(g)
  BY <1>1, TrialStutter DEF GateStart, GateLastLook, GateReadPrev, GateRestart, GateDone
<1>2. gates[g].pc \in {"wait", "flip", "mark", "disarm"} =>
        /\ pending = gates[g].ver /\ pending # NoVersion /\ current \in {pending, previous}
  BY DEF SwapInv, GateInv, RefineInv, OneGate, Versions, NoVersion
<1>3. CASE GatePass(g)
  <2>1. /\ pending # NoVersion /\ current \in {pending, previous} /\ pending \in proven
        /\ pending' = NoVersion /\ UNCHANGED <<current, previous, proven, badFiles, badDisk>>
    BY <1>2, <1>3 DEF GatePass, SwapInv, TrialInv
  <2>2. Trial!End
    BY <2>1 DEF Trial!End, NoVersion
  <2> QED BY <2>2 DEF Trial!Next
<1>4. CASE GateFlip(g)
  <2>1. /\ pending # NoVersion /\ current' \in {current, previous} /\ current \in {pending, previous}
        /\ UNCHANGED <<pending, previous, proven, badFiles, badDisk>>
    BY <1>2, <1>4 DEF GateFlip, SwapInv, GateInv
  <2>2. Trial!Switch
    BY <2>1 DEF Trial!Switch, NoVersion
  <2> QED BY <2>2 DEF Trial!Next
<1>5. CASE GateMark(g)
  <2>1. /\ pending # NoVersion
        /\ UNCHANGED <<current, pending, previous, proven, badDisk>>
        /\ \/ badFiles' = badFiles
           \/ badFiles' = badFiles \cup {pending} /\ current = previous
    BY <1>2, <1>5 DEF GateMark, SwapInv, GateInv
  <2>2. CASE badFiles' = badFiles
    BY <2>1, <2>2, TrialStutter
  <2>3. CASE badFiles' = badFiles \cup {pending} /\ current = previous
    <3>1. Trial!Ban
      BY <2>1, <2>3 DEF Trial!Ban, NoVersion
    <3> QED BY <3>1 DEF Trial!Next
  <2> QED BY <2>1, <2>2, <2>3
<1>6. CASE GateDisarm(g)
  <2>1. /\ pending # NoVersion /\ current = previous /\ pending' = NoVersion
        /\ UNCHANGED <<current, previous, proven, badFiles, badDisk>>
    BY <1>2, <1>6 DEF GateDisarm, SwapInv, GateInv
  <2>2. Trial!End
    BY <2>1 DEF Trial!End, NoVersion
  <2> QED BY <2>2 DEF Trial!Next
<1> QED BY <1>1, <1>3, <1>4, <1>5, <1>6 DEF GateStep

\* The daemon outside of Apply: a picture proves a release, and what CheckRollback does
\* to the .bad files and the list leaves the bans as they are.
LEMMA DaemonTrial ==
    ASSUME Calm, SwapInv, RefineInv,
           \/ Startup \/ FlushState \/ WriteMarker \/ AskSource
           \/ \E v \in Versions : Check(v) \/ DropBundle(v)
           \/ ChangePairing \/ StartOnline \/ StartSideload
    PROVE  [Trial!Next]_(Trial!vars)
<1> USE DEF flashVars, gateVars, serviceVars, daemonVars, historyVars
<1>1. badMem = badDisk
  BY DEF RefineInv, NewRelease
<1>2. ASSUME NEW v \in Versions, MarkBad(v) \/ ClearBad(v) PROVE UNCHANGED Trial!vars
  <2>1. UNCHANGED <<current, pending, previous, proven>> /\ (badFiles \cup badDisk)' = badFiles \cup badDisk
    BY <1>1, <1>2 DEF MarkBad, ClearBad, Fault, Calm
  <2> QED BY <2>1 DEF Trial!vars
<1>3. CASE Serve \/ FlushState \/ AskSource \/ ChangePairing \/ StartOnline \/ StartSideload
  BY <1>1, <1>3, TrialStutter DEF Serve, FlushState, AskSource, ChangePairing, StartOnline,
     StartSideload, OnlyJob
<1>4. ASSUME NEW v \in Versions, Check(v) \/ DropBundle(v) PROVE UNCHANGED Trial!vars
  BY <1>4, TrialStutter DEF Check, DropBundle
<1>5. CASE WriteMarker
  <2>1. /\ proven' = proven \cup {running} /\ running \in 1..Last
        /\ UNCHANGED <<current, pending, previous, badFiles, badDisk>>
    BY <1>5, ReleaseAssumption DEF WriteMarker, Versions
  <2>2. Trial!Prove
    BY <2>1 DEF Trial!Prove
  <2> QED BY <2>2 DEF Trial!Next
<1> QED BY <1>2, <1>3, <1>4, <1>5 DEF Startup

\* Every step of the swap is a step of the trial or leaves it alone.
LEMMA TrialStep ==
    ASSUME Calm, SwapInv, RefineInv, [Next]_vars
    PROVE  [Trial!Next]_(Trial!vars)
<1>1. CASE UNCHANGED vars
  BY <1>1, TrialStutter DEF vars, flashVars, historyVars
<1>2. CASE JobStep
  BY <1>2, JobTrial
<1>3. CASE ServiceStep
  BY <1>3, TrialStutter DEF ServiceStep, ServiceStop, OperatorStop, OperatorRestart,
     OperatorStart, ServiceStart, Respawn, DaemonExit, DaemonCrash, PowerCut, flashVars, historyVars
<1>4. ASSUME NEW g \in Slots, GateStep(g) PROVE [Trial!Next]_(Trial!vars)
  BY <1>4, GateTrial
<1>5. ASSUME \/ Startup \/ FlushState \/ WriteMarker \/ AskSource
             \/ \E v \in Versions : Check(v) \/ DropBundle(v)
             \/ ChangePairing \/ StartOnline \/ StartSideload
      PROVE  [Trial!Next]_(Trial!vars)
  BY <1>5, DaemonTrial
<1> QED BY <1>1, <1>2, <1>3, <1>4, <1>5 DEF Next, DaemonStep

\* The swap implements the trial, for every number of releases, gates, power cuts, crashes
\* and disk errors: every durable write of install and of health-gate.sh is a step of a
\* trial of a newer release that is not banned, and the trial ends where ReleaseTrial says.
\* The exceptions are the ones of the code: an update during a trial, a save of state.json
\* that fails, a person who stops the service under a gate, and the boot loop guard.
THEOREM SwapIsATrial == ASSUME Calm PROVE Spec /\ []GuardRests => RefinesTrial
<1>1. Init => RefineInv /\ Trial!Init
  BY InitRefine, InitTrial
<1>2. SwapInv /\ RefineInv /\ GuardRests /\ [Next]_vars => RefineInv'
  BY RefineStep
<1>3. SwapInv /\ RefineInv /\ [Next]_vars => [Trial!Next]_(Trial!vars)
  BY TrialStep
<1>4. Spec => []SwapInv
  BY SwapInvHolds DEF Calm
<1> QED BY <1>1, <1>2, <1>3, <1>4, PTL DEF Spec, RefinesTrial, Trial!Spec
=============================================================================
