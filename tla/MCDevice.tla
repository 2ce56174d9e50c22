------------------------------ MODULE MCDevice ------------------------------
(***************************************************************************)
(* The components of the device that share no state with each other in the *)
(* model, for TLC.  A behaviour moves one of them, its focus, and leaves   *)
(* the others in their initial states: their interleavings would only      *)
(* multiply states, because none of them reads a variable of another.      *)
(* Schedule keeps its own names; the others are instances.                 *)
(***************************************************************************)
EXTENDS Schedule, FiniteSets

CONSTANTS
    \* ScreenPower
    QueueSize, PowerEvents, MaxChanges,
    \* FleetSync
    SyncLists, Files, Size, Bytes, Manifests, NoManifest, Rooms, SyncEvents, MaxFaults,
    \* Library and ConfigFile
    Playlists, DefaultList,
    \* Library
    Numbers, Calls, LibEvents, MaxCalls, MaxLibEvents,
    \* HashCache
    Local, Object, HashEvents, MaxHash,
    \* ConfigFile
    GoodNames, FactoryName, Bad, CfgEvents, MaxCfg,
    \* DiskInstall
    Requests, Terminal, Disks, Stick, Small, hubQueue, InstallEvents, MaxInstall,
    \* Library and HashCache
    MaxVersions

VARIABLES
    focus,
    want, method, ctl, job, player, display, pExcuse, changes,
    served, room, whole, part, dirs, staging, trash, sFleet, keys, rules, sync,
    gone, rotten, sExcuse, faults,
    disk, toml, paired, snap, call, reserved, timer, lTold, made, kept, calls, events,
    hDisk, parses, hPaired, hSnap, wake, pass, entries, dirty, hFile, hMade, hEvents,
    file, stamp, shadow, run, known, fromShadow, code, cPaired, watch, ticks, op,
    raced, lastGood, cEvents,
    post, iJob, busy, iDisk, nodes, mounted, last, page, iExcuse, iFaults

-----------------------------------------------------------------------------
(***************************************************************************)
(* The manifests of FleetSync: two names for the same bytes, a change of   *)
(* the rules alone, and one that fits only in the larger room.             *)
(***************************************************************************)
TwoLists == {"p", "q"}
FourFiles == {"a", "b", "c", "d"}
BlocksOf == [f \in FourFiles |-> CASE f = "c" -> 2 [] f = "d" -> 3 [] OTHER -> 1]
BytesOf == [f \in FourFiles |-> IF f = "b" THEN "a" ELSE f]
Man(inP, inQ, list) ==
    [lists |-> [i \in TwoLists |-> IF i = "p" THEN inP ELSE inQ], rules |-> list]
FourManifests ==
    {Man({"a"}, {}, "p"), Man({"b"}, {"c"}, "p"), Man({"b"}, {"c"}, "q"),
     Man({"c", "d"}, {}, "p")}
EmptyManifest == Man({}, {}, "none")

(***************************************************************************)
(* The plans of Schedule, on days of three minutes: rules that overlap,    *)
(* a rule over midnight of a Saturday, a rule with no times, and a fleet   *)
(* plan with no default.                                                   *)
(***************************************************************************)
Window(start, end, days) == [start |-> start, end |-> end, days |-> days]
Rule(win, list) == [win |-> win, playlist |-> list]
DeviceNames == {"", "p", "q", "r"}
DevicePlans ==
    {[default |-> "p", screen |-> Window(2, 1, {6}),
      rules |-> <<Rule(Window(1, 2, {0, 6}), "q"), Rule(Window(2, 1, {6}), "r")>>],
     [default |-> "q", screen |-> Window(-1, -1, {}),
      rules |-> <<Rule(Window(-1, -1, {0}), "p")>>]}
ManifestPlans ==
    {[default |-> "", screen |-> NoScreen, rules |-> <<Rule(Window(1, 0, {}), "r")>>]}
SaturdayNight == {[day |-> 6, minute |-> 2]}

ASSUME PlanAssumption == ScheduleAssumption

\* The bounds count something.
ASSUME BoundAssumption ==
    /\ QueueSize \in Nat /\ MaxChanges \in Nat /\ MaxInstall \in Nat
    /\ MaxVersions \in Nat /\ MaxHash \in Nat /\ MaxCalls \in Nat /\ MaxLibEvents \in Nat
    /\ MaxCfg \in Nat

\* The system runs from a disk, a page may fall behind, and a post is neither the
\* command line nor one of the two marks of the hub.
ASSUME InstallAssumption ==
    /\ Stick \in Disks /\ hubQueue \in Nat \ {0}
    /\ Requests \cap {Terminal, "progress", "none"} = {}

Power == INSTANCE ScreenPower WITH excuse <- pExcuse
Sync == INSTANCE FleetSync
            WITH Names <- SyncLists, fleet <- sFleet, excuse <- sExcuse

\* The manifests above are manifests.
ASSUME ContentAssumption == Sync!SyncAssumption

Editor == INSTANCE Library
            WITH Lists <- Playlists, Default <- DefaultList, told <- lTold
\* The number of a name is not the one of no name, and the default is a playlist.
ASSUME UploadAssumption == 0 \notin Numbers /\ DefaultList \in Playlists

Hash == INSTANCE HashCache
            WITH disk <- hDisk, paired <- hPaired, snap <- hSnap, file <- hFile,
                 made <- hMade, events <- hEvents
Config == INSTANCE ConfigFile
            WITH Names <- GoodNames, Factory <- FactoryName, Lists <- Playlists,
                 FirstList <- DefaultList, paired <- cPaired, events <- cEvents
\* The factory's name passes, and a name that breaks a rule does not.
ASSUME NameAssumption == FactoryName \in GoodNames /\ Bad \notin GoodNames

Install == INSTANCE DiskInstall
            WITH job <- iJob, disk <- iDisk, excuse <- iExcuse, faults <- iFaults

powerVars == <<want, method, ctl, job, player, display, pExcuse, changes>>
syncVars == <<served, room, whole, part, dirs, staging, trash, sFleet, keys, rules, sync,
              gone, rotten, sExcuse, faults>>
editorVars == <<disk, toml, paired, snap, call, reserved, timer, lTold, made, kept, calls,
                events>>
hashVars == <<hDisk, parses, hPaired, hSnap, wake, pass, entries, dirty, hFile, hMade,
              hEvents>>
configVars == <<file, stamp, shadow, run, known, fromShadow, code, cPaired, watch, ticks,
                op, raced, lastGood, cEvents>>
schedVars == <<plan, clock, active, due, eval, reader, moved, count>>
installVars == <<post, iJob, busy, iDisk, nodes, mounted, last, page, iExcuse, iFaults>>
deviceVars == <<focus, powerVars, syncVars, editorVars, hashVars, configVars, schedVars,
                installVars>>

DeviceInit ==
    /\ focus \in {"power", "sync", "editor", "hash", "config", "sched", "install"}
    /\ Power!Init /\ (focus # "power" => want)
    /\ Sync!Init
    /\ focus # "sync" => served = (CHOOSE m \in Manifests : TRUE) /\ room = CHOOSE r \in Rooms : TRUE
    /\ Editor!Init /\ Hash!Init /\ Config!Init /\ Install!Init
    /\ Init
    /\ focus # "sched" => cfg.default = "p" /\ fleet = NoFleet /\ synced

\* One step of the component in focus.
OfPower(A) ==
    /\ focus = "power" /\ A
    /\ UNCHANGED <<focus, syncVars, editorVars, hashVars, configVars,
                   schedVars, installVars>>
OfSync(A) ==
    /\ focus = "sync" /\ A
    /\ UNCHANGED <<focus, powerVars, editorVars, hashVars, configVars,
                   schedVars, installVars>>
OfEditor(A) ==
    /\ focus = "editor" /\ A
    /\ UNCHANGED <<focus, powerVars, syncVars, hashVars, configVars,
                   schedVars, installVars>>
OfHash(A) ==
    /\ focus = "hash" /\ A
    /\ UNCHANGED <<focus, powerVars, syncVars, editorVars, configVars,
                   schedVars, installVars>>
OfConfig(A) ==
    /\ focus = "config" /\ A
    /\ UNCHANGED <<focus, powerVars, syncVars, editorVars, hashVars,
                   schedVars, installVars>>
OfSched(A) ==
    /\ focus = "sched" /\ A
    /\ UNCHANGED <<focus, powerVars, syncVars, editorVars, hashVars,
                   configVars, installVars>>
OfInstall(A) ==
    /\ focus = "install" /\ A
    /\ UNCHANGED <<focus, powerVars, syncVars, editorVars, hashVars, configVars, schedVars>>

\* The requests are alike: the first one posts first.  Bound: the command line runs
\* beside one request.
FirstRequest == CHOOSE r \in Requests : TRUE
InstallBound ==
    LET posted == {r \in Requests : post[r] # "none"}
    IN  /\ posted # {} => FirstRequest \in posted
        /\ iJob[Terminal].pc # "none" => Cardinality(posted) <= 1

DeviceNext ==
    \/ OfPower(Power!Next)
    \/ OfSync(Sync!Next)
    \/ OfEditor(Editor!Next)
    \/ OfHash(Hash!Next)
    \/ OfConfig(Config!Next)
    \/ OfSched(Next)
    \/ OfInstall(Install!Next /\ InstallBound')

\* The Fairness of each component.  focus never changes, so a weak fairness of
\* several components together is the weak fairness of the one that moves.
focusVars ==
    CASE focus = "power" -> powerVars [] focus = "sync" -> syncVars
      [] focus = "editor" -> editorVars [] focus = "hash" -> hashVars
      [] focus = "config" -> configVars [] focus = "sched" -> schedVars
      [] focus = "install" -> installVars

In(f, A) == focus = f /\ focus' = f /\ A

DeviceFairness ==
    /\ WF_focusVars(\/ In("power", Power!Loop) \/ In("sync", Sync!Round)
                    \/ In("editor", Editor!Steps) \/ In("hash", Hash!HashInBackground)
                    \/ In("config", Config!Steps) \/ In("sched", Evaluate)
                    \/ In("install", Install!Steps))
    /\ WF_focusVars(\/ In("power", Power!Take) \/ In("hash", Hash!store)
                    \/ In("sched", Hear))
    /\ WF_focusVars(In("power", Power!Launch) \/ In("sched", Tick))
    /\ SF_focusVars(In("power", Power!step /\ Power!Drained))

DeviceSpec == DeviceInit /\ [][DeviceNext]_deviceVars /\ DeviceFairness

-----------------------------------------------------------------------------
(***************************************************************************)
(* The properties of the components, as their own modules state them;      *)
(* ScheduleIsRight is the one of Schedule.                                 *)
(* focus never changes, so it may stand inside of a temporal operator.     *)
(***************************************************************************)
\* The player and the display are what the power controller records.
PowerIsReal == focus = "power" => Power!PowerIsReal

\* In the end mpv runs if and only if the screen must be on.
PictureFollows == []<>Power!Drained => <>[](focus = "power" => Power!PictureIsRight)

\* The live fleet playlists are of one manifest, and their objects are on the card.
CardIsWhole == focus = "sync" => Sync!CardIsWhole

\* A manifest that stays and fits is applied in the end.
Converges ==
    \A x \in Manifests :
        <>[](focus = "sync" /\ Sync!Stays(x)) => <>[](focus = "sync" => Sync!InSync(x))

\* An acknowledged upload keeps its file, and the cache gives the hash of the file
\* that is there and knows what it saved.
LibraryIsSafe ==
    /\ focus = "editor" => Editor!LibraryIsSafe
    /\ focus = "hash" => Hash!CacheIsTrue

\* The report of an install is true of the disk, and of the install that the page
\* asked for.
InstallIsHonest == focus = "install" => Install!InstallIsHonest

\* In the end the player knows the last scan and plays what the schedule says,
\* every file has its hash, and a page knows how its install ended.
DeviceSettles ==
    <>[](/\ focus = "editor" => lTold = snap
         /\ focus = "hash" => Hash!HashesAreThere
         /\ focus = "sched" => PlaysRight
         /\ focus = "install" => Install!PageHears)

\* A save that nobody asked for keeps the values of the person.
FileIsKept == [][Config!AutoSaveKeepsEdits /\ Config!TypeOK']_configVars

\* In the end a good file runs.
EditIsTaken == <>[](focus = "config" => Config!FileRuns)
=============================================================================
