# portapixel in TLA+

This directory is a verification development for portapixel: a signage device
(`cmd/portapixeld`: mpv on a small Linux box, an A/B release layout, a local
admin page) and the fleet server that manages many of them
(`cmd/portapixel-server`). It holds TLA+ modules translated from the source,
TLC configurations that check them on small instances, and proofs that TLAPS
checks for every value of the constants.

To repeat it, from this directory:

    tlc -workers 2 -config ReleaseSwap_safety.cfg ReleaseSwap
    tlc -workers 2 -config MCDevice.cfg MCDevice
    tlapm ReleaseSwapProofs.tla

`PROJECT.json` lists the runs, the source lines behind every definition, the
mutants that show that each property can fail, the findings, the hazards and
the theorems. The other proof modules are `FleetProofs`, `PlayerProofs`,
`ScheduleProofs`, `DeviceProofs`, `InstallProofs`, `StoreProofs` and
`ServerProofs`; each is checked with `tlapm` in the same way.

Contents: 1 inventory, 2 plan, 3 modules and the code, 4 runs and bounds,
5 fairness, 6 proofs, 7 what is only model-checked, 8 statements that the code
does not keep, 9 what is not modelled.

## 1. Inventory

### Device

| Component | State | Operations | Hard behaviour | What makes it correct |
|---|---|---|---|---|
| Release swap (`internal/updater`, `os/overlay/etc/init.d/portapixeld`, `health-gate.sh`) | links `current` and `previous`, `releases/`, `.swap-pending`, `health/*.ok`, `*.bad`, `gate-boots`, `_update/`, the Manager's job and last check | Check, Apply, sideload, prune, CheckRollback, start_pre, respawn, the gate's wait and roll-back | three processes write one directory with no lock; power can go between any two writes; faults of the flash | a proven release to go back to; `current` always names a complete release; no half-applied update; every trial ends |
| Poll round and pairing (`device/syncer`) | state.json (token, IDs, manifest, bad list), the generation, the live rules | Pair, Unpair, claimRound, pollRound, applyManifest, runCommands | Pair and Unpair run in HTTP handlers in the middle of a round; saves fail; crashes | an Unpair is final; a reboot runs once; a command acknowledged has run |
| Manifest apply (`syncer/apply.go`) | the object store, `playlists/`, the trash and staging directories | download, evict, swap, sweepLeftovers | power cuts between the renames; a full disk | a playlist is the old one or the new one |
| Player (`device/player`) | the mpv process and its socket, the list, the position, resume points, files that ended mpv, the watchdog ladder, the command queue | the rules of `step`, messages of mpv, Restart, Suspend, Resume, the change flags | mpv runs on while its old messages are in the socket; timers; a file that ends mpv; a display that goes and comes | what the schedule names comes to the screen; now_playing is real; dark means dark; no reboot without faults |
| Screen power (`device/power`) | the recorded state, the manual command, the method that turned the screen off | Start, step, Set, the transition under applyMu | the player's queue may be full or its answer late; the method is edited between off and on | the state recorded is the state of the screen |
| Scheduler (`device/scheduler`) | the rules, the active name, one slot per subscriber | Evaluate, SetFleetRules, ClearFleetRules, ScreenShouldBeOn | an evaluation reads plan, clock and rules at different moments; midnight, overlaps, clock steps | after the last change the right playlist plays |
| Library and hash cache (`device/library`) | the directory of playlists, manifests, hashes | Scan, Upload, Rename, Delete, background hashing | uploads of one name together; a file that changes while it is hashed; a note during the write of the cache | an acknowledged upload stays; a hash belongs to the bytes |
| Object store (`internal/store`) | objects and part files | Download, resume, Remove | a part file that survives a cut | an object under a hash has that hash |
| Configuration (`internal/config`, `cmd/portapixeld/run.go`) | portapixel.toml, its shadow copy, the time of the last save | load, repair, save, reload | a hand edit that meets the daemon's own save | no edit is lost |
| Identity and state file (`device/identity`) | state.json | Load, Save, MarkCommand | a save that fails | memory and disk agree, or the caller knows |
| Disk installer (`device/installer`, `httpd/sse.go`, `installdisk.go`) | the flag of one install, the target disk, the last event and the queues of the stream | Check, Run with its phases, Send, Reset, serve, the command line | a page opens its stream after the answer; two posts; a mount or a second writer between a look and a write | the report is true of the disk, and of the install that the page asked for |
| Fallback screen, audio, mDNS, network, health report | files | one-shot jobs | I/O | |

### Server

| Component | State | Operations | Hard behaviour | What makes it correct |
|---|---|---|---|---|
| Command queue (`server/db/commands.go`, `heartbeat.go`) | rows with deliveries, age and state; the sequence of IDs | QueueCommand, TakeCommands, AckCommands, SweepCommands | lost answers and acknowledgements, redelivery, expiry | each command ends; renames keep their order; IDs are not used again |
| Enrollment (`server/db/enroll.go`) | devices, claims, tokens, hardware rules | Enroll, Approve, Reject, sweep | a lost answer that carried the token; two devices with one identity | one token per device; a claim is used once |
| Manifest builder (`server/db/manifest.go`) | a query | Manifest | precedence of assignments | |
| Media store (`server/media`) | objects, rows | Put, sweep | a sweep that meets an upload | a row has its object |
| Release mirror (`server/releases`) | mirrored bundles | poll, fetch, approve | partial downloads | an approved release is complete and signed |
| Sessions, limiter (`internal/httpguard`) | sessions, counted attempts | Login, Begin, Done | attempts that are open together | no more than the limit |
| Admin API, web pages | none of their own | routes | | |

### How they interact

* The daemon, the init script and the gate share the release directory and two
  links; the gate also calls `rc-service`, which stops the daemon that may be
  in the middle of an update.
* Device and server exchange one POST per poll and one per heartbeat. Commands
  go out in the answer to the poll; their IDs come back in the next heartbeat.
* HTTP handlers of the device (pair, unpair, restart, playlist edits, settings)
  run beside the sync loop, the player loop and the updater. They meet in
  mutexes that cover single steps, in a generation counter (`syncer`), in a
  bounded command queue and two coalescing flags (`player`), and in files.
* The schedule, the library and a fleet manifest change what the player is
  told to play; the power controller suspends and resumes it.
* state.json joins the updater (bad releases) and the syncer (executed IDs,
  token): both write it through one mutex, and a save may fail for either.

## 2. Plan

Most important first: what can leave a device in the field dead, then what
can make a fleet do something twice or never, then what can leave a screen
dark, then the rest.

| # | Modules | What | State |
|---|---|---|---|
| 1 | `ReleaseSwap`, `ReleaseTrial` (abstract), `ReleaseSwapProofs` | release swap with its gate | checked, safety and refinement proved |
| 2 | `FleetCommands`, `MCFleet`, `FleetProofs` | command queue, pairing and the poll round together | checked, safety proved |
| 3 | `Player`, `MCPlayer`, `PlayerProofs` | supervisor, watchdog, mpv | checked, safety proved |
| 4 | `ScreenPower`, `DeviceProofs` | the power controller over the player's command queue | checked, safety proved |
| 5 | `Enrollment`, `ServerProofs` | claims, approvals, tokens, hardware rules, the claim round of the devices | checked, safety proved |
| 6 | `FleetSync`, `StoreProofs` | objects, part files, eviction and the playlist swap with power cuts | checked, safety proved |
| 7 | `Schedule`, `ScheduleProofs` | the rules, the evaluation and its reader | checked, safety proved |
| 8 | `ConfigFile`, `StoreProofs` | save, shadow copy, hand edit, reload | checked, safety proved |
| 9 | `Library`, `HashCache`, `StoreProofs` | edits, uploads and scans; background hashing | checked, safety proved |
| 10 | `MediaStore`, `ServerProofs` | uploads and deletes against the sweep | checked, safety proved |
| 11 | `ReleaseMirror`, `ServerProofs` | mirror jobs, bundles, approval, restart | checked, safety proved |
| 12 | `FleetPlan`, `ServerProofs` | the queries of a manifest between the writes of an admin | checked, safety proved |
| 13 | `DiskInstall`, `InstallProofs` | the install onto a disk, its stream, and the command line beside it | checked, safety proved |

`MCDevice` and `MCServer` are the instances of 4 to 13.

Compositions. `FleetCommands` has server queue, pairing and device together;
`Enrollment` the tables of the server and several devices; `ScreenPower` the
controller, the command queue of the player and the display; `FleetSync` the
poll round, the object store with its downloads and the state file;
`ReleaseMirror` the job, the routes of the admin and the cache of the manifest;
`Schedule` the scheduler, its callers in the daemon and the player;
`DiskInstall` the route, the installer, the event hub, the page and a second
process.

What is left. Proofs: every safety property of a passing run has a theorem; the
theorems with a hypothesis (section 6) could be stated for more devices, first
`EndersRunOnce` with failing saves in the rounds in which no answer is lost, and
`RefinesTrial` with the boot loop guard as a step of its own of the abstract
trial. Models: the limits of `httpguard/limiter.go` and the order of versions,
which are pure or single-step structures.

## 3. Modules and the code

`PROJECT.json`, `map`, gives the lines behind each definition. Names follow the
source; a definition with a comment "Mutant of X" is a plausible bug of X, used
to show that a property can fail, and no specification refers to it.

### ReleaseSwap

Three kinds of process over one directory: the daemon (`internal/updater` with
the parts of `cmd/portapixeld` that call it), OpenRC with `supervise-daemon`
and the init script, and gates (`health-gate.sh`). Every durable write is a
step of its own, so that a cut can fall between any two. Releases are numbers
and `CompareVersions` is `<`.

| Model | Code |
|---|---|
| `installed`, `current`, `previous`, `pending`, `badFiles`, `gateBoots` | `releases/`, the two links, `.swap-pending`, `health/<v>.bad`, `health/gate-boots` |
| `badDisk`, `badMem`, `paired` | `bad_releases` and the token of state.json, on the flash and in memory |
| `markers`, `lock`, `gatePid`, `gates` | the tmpfs of the run directory and the gate processes |
| `svc`, `req`, `running`, `phase` | OpenRC's view, an `rc-service` order under way, the process, CheckRollback ended |
| `asked`, `offered`, `job` | a check in flight, `Manager.last`, the one Apply |
| `Serve`, `MarkBad`, `ClearBad` | `CheckRollback` at start-up, with the save of state.json, and `FlushState` for a save that failed |
| `AskSource`, `Check`, `ChangePairing` | the two halves of `Check` around its network call; pairing, which resets the last check |
| `StartOnline`, `StartSideload`, `Verified`, `StageFails` | `Apply`, `apply`, the sideload look; the download, the signature and the refusals |
| `Clean`, `Place`, `Keep`, `Arm`, `Flip`, `Unarm`, `InstallFails`, `Prune`, `Clear`, `Restart` | the writes of `install`, `prune`, the removal of the bundle, the request for a restart |
| `StartPre`, `ServiceStart`, `ServiceStop`, `Respawn`, `Operator*` | the init script, supervise-daemon, a person |
| `GateStart` … `GateDone` | the steps of `health-gate.sh`, the boot loop guard included |
| `DaemonCrash`, `DaemonExit`, `PowerCut` | the faults; a cut empties the tmpfs and ends every process |

`ReleaseTrial` is the abstract specification: one release the device has, one
on trial, the base to return to, the proven and the banned releases. Its
steps: Begin, Switch between the two releases of the trial, Prove, Ban, End.
`RefinesTrial` instantiates it with
`base <- IF pending = NoVersion THEN current ELSE previous`.

`Overlap` says whether an update may begin during a trial. The code allows it.
The passing runs and the theorem are about a device on which it does not
happen, and a run of its own shows what happens when it does (section 8).

### FleetCommands

Servers and one device together. On the server: the table of commands with its
sequence, the device row and its token. On the device: state.json on the flash
and in memory, the generation, the live rules, the poll round as a little
program with a program counter.

| Model | Code |
|---|---|
| `QueueCommand`, `Superseded`, `NextId` | `db/commands.go` QueueCommand: a newer rename expires the older ones |
| `TakenRows`, `Overdue`, `Ready`, `Expire` | TakeCommands: expiry by age and by deliveries, the ten-minute redelivery |
| `Acknowledge`, `Heartbeat`, `Carried` | AckCommands, and the cut at `MaxAcks` on the device |
| `SweepCommands`, `TenMinutes`, `GrowOld` | the hourly sweep and time |
| `Pair`, `PairLost`, `Unpair` | the results of `pair.go`; `PairLost` is an answer with a token that never arrives |
| `BeginRound` … `SetFleetRules` | `pollRound`, `applyManifest`, `applyRules` with the places where the generation is read and compared |
| `Repeat`, `MarkFirst`, `AckFirst`, `RunEnder`, `Execute`, `MarkAfter`, `EndRound` | `runCommands`: a command that may end the process is marked, acknowledged and then run; any other runs and is marked |
| `Crash`, `SaveState(new, ok)` | a power cut; a save that fails keeps the flash and changes the memory as the code does |

A manifest is abstracted to the server that sent it, the enrollment dialogue to
its result, and times to the three classes the code tells apart.

### Player

One goroutine and mpv. A pass of the loop is one action: a message from the
socket, a command from the queue, a change flag, or the first rule of `step`
that applies. mpv takes requests in order and answers in order, and plays on
meanwhile. The code numbers its lists; the model marks a message with `now`,
which every new list clears on all that is under way, so the number needs no
bound.

| Model | Code |
|---|---|
| `list`, `cur`, `resumeFrom`, `crashed` | the loaded list, the item on the screen, the resume point, the files that ended mpv |
| `loadManifest`, `Rotation`, `newList`, `drawFallback`, `clearList`, `stopPlayer` | the functions of these names |
| `Start`, `handleExit`, `DisplayGone`, `DisplayFound`, `connect`, `checkWatchdog`, `poll`, `RetryPlaylist`, `Redraw`, `checkNightly`, `GraceOver`, `BackoffOver` | the rules of `step`, in its order: each has the guards of the rules in front of it |
| `onStartFile`, `onPlaybackRestart`, `onReply`, `onEndFile`, `onIdle`, `SocketClosed` | the message handlers |
| `Send`, `TakeRestart`, `TakeSuspend`, `TakeResume` | the bounded queue and its handlers |
| `PlaylistChanged`, `DisplayChanged`, `takeChanges` | the two coalescing flags |
| `countRestart`, `restart`, `WindowMoves` | the ladder of `watchdog.go` |
| `Mpv*` | mpv, external: what the supervisor can see of it |

`Content` gives the files of each playlist; `Killers` end mpv while it opens
them and `Broken` cannot play. `MCPlayer` names an instance: a playlist of
three files and one of a single file.

### ScreenPower

| Model | Code |
|---|---|
| `ctl`, `job` | the fields of `Controller`; the transition under applyMu and its next step |
| `player`, `Queue`, `Take`, `Launch`, `Restart` | the command queue of the supervisor, Suspend and Resume, the start of mpv |
| `Start`, `step`, `Set` | the functions of these names: `step` ends a manual command at the next edge of the schedule |
| `Light`, `Resume` | screen on: the display first, then the player |
| `Stop`, `Timeout`, `Back`, `Dark` | screen off: Suspend, its time limit, the compensating Resume, then the display |
| `Pick`, `CecCtl`, `Blank`, `switchDisplay`, `Undone` | `method.go`, `drm.go`; the method that turned the screen off turns it on again |
| `Edge`, `ChangeMethod`, `Crash` | the schedule, a setting, the end of the daemon; a television stays in standby over it |

### Enrollment

Several machines that ask to be one device ID. A request is a transaction of
the server; the device holds pairMu from the request to the save of the answer,
so both are one step, and the answer may be lost. `Once` reads the card first
and `claimRound`, `pollRound`, `Pair`, `dropToken` use what it read.

| Model | Code |
|---|---|
| `row`, `reqs`, `etok` | the row in `devices`, `pending_enrollments`, an enrollment token |
| `Enroll`, `enrollWithEnrollmentToken`, `answerClaim`, `makePending`, `pairRow`, `hardwareRules` | the functions of `db/enroll.go` and `db/heartbeat.go` |
| `postEnroll`, `takeEnrollment`, `SaveServer`, `Unpair`, `dropToken` | `syncer/pair.go` |
| `AdminLooks`, `ApprovePending`, `RejectPending`, `DeleteDevice`, `ConfirmHardware`, `ResolveConflict`, `RevokeEnrollToken` | the routes of the admin; approvals come from a list that may be old |
| `GrowsOld`, `SweepPending`, `WindowEnds` | the 24 hours of a request and the window of a hardware change |
| `CopyCard`, `Reflash` | what people do with cards |

### FleetSync

A manifest is a set of playlists, each a set of object files, and rules that
name one playlist. `applyManifest`, `makeRoom`, `fetch`, `writePlaylists`,
`swapOut`, `swapIn`, `swapEnds`, `applyRules` are the steps of a round in
`syncer/apply.go`; `undoIn`, `undoOut` the undo of a swap; `sweepLeftovers` and
the keys in memory what a start does. `fetch` has the copy of an object with
the same bytes, the part file of `store/download.go`, its continuation from an
offset that may be wrong, and the check at the end. `PowerCut`, `Laptop`,
`NewRoom` and failed renames come between any two steps.

### Schedule

`evalConfig`, `evalClock`, `evalDefault`, `evalMatch`, `evalPublish` are the
reads and the write of `Evaluate`, each under its own lock; `due` holds the
goroutines that wait for evalMu or own it. `SetFleetRules`, `ClearFleetRules`,
`applyChanges`, `watchClock`, `Tick` are its callers. `Send` is the slot of a
subscriber, which a newer name replaces; `watchSchedule`, `scheduleChanged`,
`playerManifest` take the name to the player. `inWindow`, `match`,
`defaultPlaylist`, `screenRule` are pure; `Covers` and `Right` are the
reference: a window is its opening and the minutes that follow it.

### Library, HashCache

`Library`: a call is begun, writes under the lock, scans, stores the scan and
tells the player by the timer of `notifySoon`; every step is separate, because
the code unlocks between them. An upload reserves a name (`AddMedia`), writes
and commits. `moved` notes an upload whose playlist was renamed while it came in:
if the directory comes back, its commit goes to a name that it no longer holds,
and what it overwrites is excused (section 8). `HashCache`: the pass takes the last scan (`hashPending`), prunes,
hashes file by file and saves; files are replaced, objects are noted (`NoteSHA`)
and the pairing changes at every step. A version stands for bytes, size and
time of modification.

### ConfigFile

One operation at a time under cfgWriteMu (`op`), a person beside it without a
lock. `saveConfig` (the page), `saveServer` (pairing), `saveName` (fleet rename),
`playlistRenamed`; `cleanStat`, `reloadRead`, `reloadAdopt`, `cleanGo` for the
writers that must not write over a fault; `Save`, `mirror`, `adopt` for the
file, the shadow copy and the memory. `Load` is a start of the daemon, with the
shadow copy and `Repair`. The history `raced` notes an edit that came while the
lock was held, and one that left the time which the daemon knows: a file that is
not there has one time for ever.

### DiskInstall

`startInstall`, `PostCheck`, `PostRuns` are the steps of the route; `Run`, `Look`
(the two calls of `Check`), `WritePhase`, `waitForPartitions`, `copyMedia`,
`umount`, `Done`, `Unbusy` the steps of the work, which the command line
(`installToDiskCommand`) does in a process of its own with its own flag. The
content of a disk is the set of parts that are a good copy. `Send`, `Reset`,
`subscribe`, `serveLast`, `serve` are the hub, and `watchInstall` is what the page
makes of an event. The kernel makes the partition nodes when it likes; a mount, a
failed program, a dropped stream and a stop of the daemon come at any step.

### MediaStore, ReleaseMirror, FleetPlan

`MediaStore`: `postMedia`, `Put`, `PutTouch`, `AddMedia`, `undoMedia` are the
steps of an upload, `DeleteMedia` and `DeleteFile` of a delete, `KnownHashes`,
`Sweep`, `SweepRemove` of the sweep; a file is young or old.
`ReleaseMirror`: `begin` … `reportEnd` are the steps of a job (`mirror`,
`download`, `installBundle`, `extract`, `verify`, the renames of `commit`);
`approveRelease` … `approveStart` the route that approves; `Restart` is
`CleanStaging` and `ResetWorkingMirrors`. The staged files are told apart by
part, and each is good or bad. `FleetPlan`: one action per write of the admin,
and the poll as its queries `DeviceByToken`, `deviceGroup`, `readRules`,
`PlaylistNoCount`, `Manifest`.

## 4. Runs and bounds

| Run | Checks | Instance | Distinct states |
|---|---|---|---|
| `ReleaseSwap_safety` | TypeOK, CanGoBack, NeverStranded, Settled | 3 releases, 2 gates, two faults out of cut, crash, io, stop, save | 2.6 million |
| `ReleaseSwap_refines` | RefinesTrial, BansStick | 3 releases, pairing, one cut, crash or io fault | 361 000 |
| `ReleaseSwap_live` | TrialEnds, BackInService, BundleUsedUp | release 3 cannot start, release 2 shows nothing, one cut | 51 000 |
| `ReleaseSwap_overlap` | CanGoBack violated | updates may overlap, no fault | |
| `ReleaseSwap_ungated` | TrialEnds violated | one crash of the daemon | |
| `MCFleet_safety` | EndersRunOnce, AckedRan, RenamesInOrder | scene queue: 1 server, 2 commands of 3 kinds, one loss or crash, age, delete; scene move: 2 servers, 3 pairings, revoke and delete | 3.1 million |
| `MCFleet_live` | NoManifestUnpaired, CommandsEnd, CommandsArrive | scene leave: pair and unpair in a round, revoke, rejoin, failed saves; scene arrive: 2 commands, one loss or crash | 536 000 |
| `FleetCommands_unpaired` | UnpairHolds violated | one Unpair, no fault | |
| `Player_safety` | TypeOK, SuspendedIsDark, NowPlayingIsReal, GraceHasList, RebootNeedsFaults | killer file 2, broken file 4, reboot at 2, three changes | 1.2 million |
| `Player_follow` | BlamedOnce, FollowsWant | killer file 2, broken file 3, two changes | 122 000 |
| `MCDevice` | PowerIsReal, PictureFollows (ScreenPower); CardIsWhole, Converges (FleetSync); LibraryIsSafe (Library, HashCache); ScheduleIsRight (Schedule); InstallIsHonest (DiskInstall); FileIsKept, EditIsTaken (ConfigFile); DeviceSettles (Library, HashCache, Schedule, DiskInstall) | below | 225 000 |
| `MCServer` | RequestsAreSound, PairedRowIsKept, NoneWaitsForEver (Enrollment); MirrorIsVerified, StaysOnTheAir (ReleaseMirror); MediaIsKept (MediaStore); LeftoversGo (MediaStore, ReleaseMirror); PlanIsKept (FleetPlan) | below | 201 000 |

`MCFleet`, `MCDevice` and `MCServer` hold several instances. Their variable
`scene`, or `focus`, is chosen in the initial state and never changes: a
behaviour moves one instance, and the others rest in one initial state. The
components in one such module share no variable, so nothing is lost but the
product of their states. The four scenes of `MCFleet` are one component under
four restrictions of its environment, which the module states; the theorems of
`FleetProofs` are about `FleetCommands` with none of them. A weak fairness of a disjunction over components is
then the weak fairness of the component that moves, and a liveness property
carries its focus inside of the temporal operators.

What the instances of `MCDevice` and `MCServer` hold:

* ScreenPower: a queue of 3 for the 8 of the code, four events out of edge,
  manual command, method, crash, time limit, restart of mpv, failed display.
* FleetSync: four manifests over four files (two names for one content, a
  change of the rules alone, one that fits only in the larger room), three
  faults.
* Library: two playlists, two names, two overlapping calls, two versions, one
  event. HashCache: one local file, one object, two versions, two events.
* ConfigFile: two names of the device and one that breaks a rule, two
  playlists, two events.
* Schedule: days of three minutes, the night from Saturday to Sunday, two local
  plans and a fleet plan with no default; rules that overlap, one over
  midnight, one with no times; two changes.
* DiskInstall: the stick, a disk and one that is too small, two requests, of which
  one may meet the command line, queues of two events for the four of the code,
  one fault.
* Enrollment: two machines for one ID, one of them with an enrollment token of
  one use, a cap of one waiting request, two events.
* ReleaseMirror: two versions, five faults or requests. MediaStore: two
  objects, two uploads, four events. FleetPlan: one device, one group, two
  playlists, six writes.

Why the bounds are enough. Three releases are the one the device has, the one
on trial and one more, which is what an overlapping or a following update
needs; two gates are what a restart of the service can leave alive. Two faults
reach a fault during the recovery from a fault. Two commands are a command and
one in front of it or one that replaces it; `maxDeliveries` has its real value,
3, wherever loss and expiry are counted. Two IDs in the device's list and one
acknowledgement per heartbeat put both limits within reach. Three playlist
files are a file before, the file that ends mpv and one after it; a queue of
one place is full as soon as anything is in it; two messages in flight are one
old and one new. The reboot limit 2 stands for the 4 of the defaults. Two machines
are the pair that a copied card or a replaced box makes; two uploads, two calls
and two jobs are what a race needs, and the counts of events let a second one
fall into the repair of the first. Three minutes make a day with a window
inside of it and one over its end.

Larger instances that passed once and are not kept as configurations: Player
with three messages in flight and Player_follow with three changes; Library
with three calls, MediaStore with five events (83 000 states), Schedule with
three changes and two moments (655 000), ReleaseMirror with six events,
DiskInstall with two faults (134 000) and with both requests beside the command
line (379 000). The inductive invariants of section 6 were checked as invariants
before they were proved, on the instances of the runs and on larger ones:
`RefineInv` 1.15 million states, `InstallInv` 2.8 million, `SyncInv` 495 000,
`HashInv` 708 000, `LibraryInv` 1.26 million (four calls) and 1.25 million
(three calls and an event), `ConfigInv` 576 000 (three events of all kinds) and
3.9 million (four events).

The configurations of `MCFleet`, `MCDevice`, `MCServer`, `FleetCommands` and
`Player_safety` switch off the deadlock check, because these systems may really
stop once the bounds are used up: a device that nobody pairs does nothing, and a
screen that is off with no event left stays off. All other runs check it.

Every property has a mutant in `PROJECT.json`: one definition of the model
changed the way a bug would change the code, after which TLC finds the property
violated in the same instance. Examples: prune that forgets `previous`, a gate
that does not restart the service, IDs that are used again, a redelivery that
never comes, an `applyRules` that keeps a manifest while unpaired, a reply that
is believed for any list, a nightly grace that outlives its mpv, a fallback
draw that is not tried again, a compensating Resume that is left out, a swap
that moves in before all is out, a flag instead of the version counter of the
cache, a subscriber that keeps the older name, a sweep with no grace.

## 5. Fairness

* ReleaseSwap: weak fairness of start-up, of the marker, of the steps of a job,
  of rc-service and supervise-daemon and of every gate: processes and
  goroutines that the kernel and the Go runtime schedule. Strong fairness only
  of the look for a sideloaded bundle: it comes back every minute and after
  every rescan (`loop.go`, `sideload.go`), so a busy Manager delays it and
  cannot exclude it. No check, button, bundle, pairing or fault is obliged to
  happen.
* FleetCommands: weak fairness of the round (`Run` of the syncer drives one
  pass after the other), of the hourly sweep and of the clock, each for the steps
  that stay in the scene (`SceneFairness`). Nothing obliges the admin, the person
  at the device or a fault.
* Player: weak fairness of what mpv does by itself, of every timer of `step`
  (the loop wakes at least once per tick), and of the three sources of the
  loop's `select`. Go's `select` picks at random among the ready ones, so none
  starves. No change from outside is obliged to happen.

* ScreenPower: weak fairness of the loop, of the player's reading of its queue
  and of the start of mpv. `PictureFollows` assumes that the queue is empty
  between two ticks again and again, and strong fairness of a tick at such a
  moment: a tick is 30 seconds and adds at most two messages.
* FleetSync, HashCache, Schedule, ReleaseMirror, Library, ConfigFile: weak
  fairness of the goroutine that does the work (the round, the pass, the
  evaluation and its reader, the job, a call that began, watchConfig). Each is
  one goroutine whose next step is always enabled or waits for a mutex that
  nobody keeps, so one weak fairness over its steps is enough.
* DiskInstall: one weak fairness over the handlers, the goroutine of the install,
  the kernel and the stream: each of them has a finite number of steps to do, so
  none can keep the others waiting for ever.
* Enrollment: weak fairness of the sync loop of each machine, and of an admin
  who looks at the list and answers it: `NoneWaitsForEver` is a statement under
  that condition, because a request that nobody answers rightly waits.
* MediaStore: weak fairness of the sweep and of a request; strong fairness of
  the age of a file, because time passes also when uploads touch it.

## 6. Proofs

TLAPS checks these for every value of the constants that satisfies the named
assumptions, which TLC evaluates in the runs. No theorem bounds a number of
faults, events, messages, commands, calls or machines: the bounds of section 4
are numbers that the theorems take as any natural number.

Every theorem has the same argument: an inductive invariant of the component,
written after its properties in the component's own module, holds at the start,
is kept by every action, and implies the property. TLC checked each of these
invariants before it was proved (section 4). The sections below say which
invariant it is and why the property alone is not inductive.

| Theorem | States | Inductive invariant | Hypotheses beside the assumptions |
|---|---|---|---|
| `SwapTyped`, `SwapSafety`, `CurrentIsComplete`, `SettledIsProven` | TypeOK, CanGoBack, NeverStranded, Settled | `SwapInv` | `~Overlap` |
| `BansAreKept` | BansStick | memory and flash hold one bad list | no "save" fault |
| `SwapIsATrial` | RefinesTrial | `SwapInv /\ RefineInv` | `Calm`, `[]GuardRests` |
| `NothingIsKept` | NoManifestUnpaired | itself with `RoundShape` | |
| `RenamesAreOrdered` | RenamesInOrder | `RenameInv` | |
| `AckedDidRun` | AckedRan | `AckedInv` | `NoUnpair` |
| `EndersRanOnce` | EndersRunOnce | `EndersInv` | `Steady` |
| `DarkWhenOff`, `GraceKeepsList` | SuspendedIsDark, GraceHasList | `Quieted` | |
| `PlayerTyped`, `NowPlayingSafe` | TypeOK, NowPlayingIsReal | `PlayingInv` | |
| `RebootIsEarned` | RebootNeedsFaults | `LadderInv` | no "glitch" |
| `BlamedIsOut` | BlamedOnce | `BlameInv` | `NoDarkness` |
| `PowerSafe` | PowerIsReal | `PowerInv` | |
| `CardSafe` | CardIsWhole | `SyncInv` | |
| `LibrarySafe` | LibraryIsSafe | `LibraryInv`, `HashInv` | |
| `FileSafe` | FileIsKept | `ConfigInv` | |
| `InstallSafe` | InstallIsHonest | `InstallInv` | |
| `ScheduleSafe`, `WindowIsReference` | ScheduleIsRight | `Fresh` and others | `ScheduleAssumption` |
| `RequestsSafe`, `PairedRowIsSafe` | RequestsAreSound, PairedRowIsKept | `EnrollInv` | |
| `MirrorSafe`, `MirrorStaysUp` | MirrorIsVerified, StaysOnTheAir | `MirrorInv` | |
| `MediaSafe` | MediaIsKept | `MediaInv` | |
| `PlanSafe` | PlanIsKept | `PlanInv` | |

The assumptions on constants (`ReleaseAssumption`, `FleetAssumption`,
`PlayerAssumption`, `ScheduleAssumption`, and those of `MCDevice` and `MCServer`)
say that bounds are natural numbers, that limits are not zero, that marks for "none"
are not members of the sets that they mark, and that manifests, plans and contents
have their shape. The theorems about the parts of `MCDevice` and `MCServer` are
about the composed specification, without fairness, so they hold with it.

**Release swap.** None of CanGoBack, NeverStranded and Settled is inductive: that
a rollback is safe depends on what each living gate has read, and that a prune
is safe depends on how far the job is. `SwapInv == TypeOK /\ TrialInv /\ GateInv /\ JobInv`:

* `TrialInv`: the three properties, and during a trial `current` is the release
  on trial or `previous`, and a marker belongs to a proven release;
* `GateInv`: a gate past its start watches the release on trial or one whose
  trial another gate has ended, `previous` is proven and installed while the
  gate lives, and what the gate has read as its way back is `previous`;
* `JobInv`: a job excludes gates, no trial is open before `Arm`, and the job's
  release and the links agree with its step.

The central point is that a job and a gate never live together: a job begins
when no gate is left, and a gate is only made by a service start, which ends
the daemon and its job. So `previous` is fixed while a gate lives, and all
gates of a trial go back to the same release. Without `~Overlap` this fails,
and so does the code (section 8).

**BansAreKept.** The .bad file is only removed after its entry is in the list,
so with a save that succeeds the union never shrinks. With failing saves it does.

**SwapIsATrial** is the refinement of `ReleaseTrial`: the initial states map to
initial states, and every durable write maps to Begin, Switch, Prove, Ban or End,
or to a stutter. `RefineInv` adds what the mapping needs of the two ends of a trial.
`OneGate`: one gate lives at a time, and the trial lasts until it has decided, so
that the switch back and the ban belong to the release on trial. `NewRelease`: a
job that may still arm a trial has a release that is newer than `current` and not
banned, because the process of the job has read every .bad file, or the restart
that makes it read them is due. The hypotheses are the exceptions of the code, each
of them in section 8. An overlapping update begins a trial inside of a trial. A save
that fails lets the list in memory and the one on the flash part, and a banned
release is tried again. A person who stops the service under a gate ("stop") leaves
the gate running without its lock, and a second one beside it. A rollback that ends
in the boot loop guard (`GuardRests` says that none does) leaves a process whose bad
list is old. `GuardRests` is a condition on behaviours, because how often a gate of one
release starts depends on power cuts, and a bound on those would say less.

**Command queue.** `NoManifestUnpaired` needs `RoundShape`: a round past its fetch
knows its server, and what it writes is guarded by the generation. `RenameInv` adds
that IDs in rows, answers and names were given out, and that the rename which waits
is the newest one: QueueCommand expires the older ones, so what an answer carries is
at least as new as the name. `AckedInv` follows an ID from the run to the mark, from
the mark to the acknowledgement and from there to the row. It needs `NoUnpair`,
because the round of an old pairing writes its mark into the list of the new one.
`EndersInv` says that a reboot which ran and may still be delivered is marked, in
memory and on the flash, and that one which is about to run is marked and has not
run. `Steady` names what the code needs for it: saves succeed, nobody unpairs, and
the list of marks has room for every command. Section 8 has the counterexample for
each part that is left out. The least of a set of numbers (the first command of a
round) is a lemma of its own, from the well-foundedness of finite sets.

**Player.** `Quieted`: while the screen is off there is no mpv, no socket and no
list, whatever restarts, display settings, exits and stale messages arrive; and a
nightly grace only runs while a list is loaded. `PlayingInv` is about the
messages: a closed socket is empty (`Wired`); what is marked `now` is about the list
of this moment, because mpv has that list or the request for it is the last one in
the socket and the question comes behind it (`AboutTheList`); so the entry that mpv
is at, and each position under way, is one that mpv reached (`PositionsAreReal`).
`LadderInv` counts: a restart that was counted is a fault, and one that was not
counted yet is still owed (`Owed`), so that the two never meet twice. With "glitch" a
cable pays for it. `BlameInv`: a file that ended mpv is out of the list and of each
later one until the playlist changes; with the screen off and on, or a file in two
playlists, the list is made without it being known (section 8, `BlameStays`).

**Screen power.** The message that a transition waits for is its own last one, and
nothing behind it in the queue wakes the player (`AnswerIsOwn`); until a transition
ends the player is what was recorded before it (`TransitionIsTrue`); what turned the
display off is remembered until it is on (`OffIsKnown`). `Ends(player)` is the state in
which the queue leaves the player, so the proof has lemmas on the last message of
a queue and on a message more or less.

**Content of the card.** `SyncInv`: beside a swap the hidden directories are empty,
what is moved aside is of one manifest and what is live is of the same one until the
trash has everything, what comes in is of the new one, and what a round has still to
fetch is all that can be missing. It holds for every set of manifests, files, sizes
and rooms.

**Library and hash cache.** That an acknowledged upload stays is not inductive: a
second upload must not have its name. `LibraryInv` says that an open upload holds its
name alone and that its file is not there yet, that files are in directories that
are there, and that a rename has a target. The reservation is of a path, and a
directory can be renamed under an upload; `moved` follows that and the theorem excuses
what it overwrites (section 8). `HashInv`: stamp and hash of an entry come from one
read, in memory, on the disk and in the copy of a save, and the copy is the cache
until a note moves it.

**Configuration.** `FileIsKept` speaks of the step that writes. `ConfigInv` follows the
truth of what the daemon knows: while it counts as clean and knows the time of the
file, the file is what runs (`KnownIsTrue`); the operation that has the lock read the
file, looked at its time or wrote it (`OpIsTrue`); and the times that were given out
do not come back (`TimesAreOld`), for which each operation that may still write needs a
time of its own. The proof found two corners that TLC had not reached in the bounds
of the run: a file that is removed again has the time it had, which `raced` now says,
and a read from before an edit must be of a good form to be adopted.

**Disk installer.** `InstallInv`: one request holds the flag; unless the command line
ran beside it, the job that writes is the only one and its disk holds the parts
of the phases that are over (`Made`); unless two posts overlapped, a page can learn of
no other job while its own works (`PageIsOwn`).

**Schedule.** `ActiveIsRight` speaks only of moments in which nobody waits for
Evaluate, so it is not inductive. The invariant adds `Fresh`: what the evaluation
under way has read is what is true now, or another caller still waits for an
evaluation of its own, or the clock moved. A change adds its caller to `due` in the
same step, and a caller leaves `due` only at the end of an evaluation that began after
the change; so the last one has read nothing old. `NewestIsHeard` is kept because
publishing replaces the name in the slot. **WindowIsReference**: `inWindow`, with its
case distinction for empty times, for windows inside of a day and over midnight, is
`Covers`, the definition by the minutes that follow the opening, for every length of
the day.

**Enrollment.** R1 is about a token that goes to a machine, long after the admin
looked. `EnrollInv` follows the secrets: each was made before the next one, the claim
of a request is known to its machine only unless a card was copied, the enrollment
token is sent by a machine that has it, and what the admin has on the screen is what the
row of that number says.

**Release mirror, media store, manifest builder.** `MirrorInv`: only verified files reach
the directory of a version, between the two renames of `commit` the old files are aside,
and the cache of the manifest is stale only while somebody is about to fill it.
`MediaInv`: the file that an upload found is young when its row is written, and a row
that is newer than what the sweep knows has a young file. `PlanInv`: the foreign keys
hold, and what a poll has read while nothing was written is what the tables say.

## 7. Only model-checked

Liveness (`TrialEnds`, `BackInService`, `BundleUsedUp`, `CommandsEnd`,
`CommandsArrive`, `FollowsWant`, `PictureFollows`, `Converges`, `DeviceSettles`,
`EditIsTaken`, `NoneWaitsForEver`, `LeftoversGo`) is checked by TLC only, because
liveness under fairness is beyond this prover. Every safety property of a passing
run has a theorem. Where a theorem has a hypothesis that the run does not have
(`GuardRests` in `ReleaseSwap_refines`, and the faults that `Steady`, `NoUnpair` and
`NoDarkness` leave out as far as a scene has them), the run covers the rest in its
bounds only.

## 8. Statements that the code does not keep

Three runs end in a counterexample on purpose; each is a finding in
`PROJECT.json`. The modules also state the other sentences below, which come
from comments and docs of the repository. No configuration of this directory
lists them; adding the property to a configuration with the settings given
shows the schedule. Most need a rare coincidence.

### Release swap

* **An update during a trial** (`ReleaseSwap_overlap`, `CanGoBack`). `apply`
  and `install` do not look at `.swap-pending`. Release 2 is on trial and runs;
  a bundle with release 3 arrives; `install` points `previous` at the unproven
  release 2, and `prune` removes the proven release 1. If 3 fails, the gate
  goes back to a release that never showed a picture.
  `docs/updates.md:26`: "No update ever half-applies."
* **A crash between the flip and the restart** (`ReleaseSwap_ungated`,
  `TrialEnds`). supervise-daemon respawns the daemon on the new release without
  `start_pre`, so no gate watches the trial. A release that cannot run is
  respawned until a person or a reboot comes.
* `PairedTakesFleet` (`CanPair = TRUE`, no fault). The source is compared before
  the download (`apply.go:149`); a device that pairs during it installs a
  GitHub release that its server never approved (`apply.go:146`).
* `OnlyTriedIsBad` (one "cut"). Power goes between the marker and the flip
  (`apply.go:379`): the gate of the next start finds a trial whose release
  never ran, and bans it. The comment at `apply.go:344` wants to avoid just
  this for a flip that fails.
* `StoppedStays` (one "stop"). The trap of the gate removes the lock and does
  not exit (`health-gate.sh:76`); a gate whose service was stopped goes on,
  rolls back and restarts a service that a person stopped
  (`init.d/portapixeld:116`). A second gate may then run beside it. The two
  decide the same trial and go back to the same release, which is why
  `SwapSafety` still holds.
* `RefinesTrial` with "stop". The service is stopped and started under a waiting
  gate, as above, and the second gate passes the trial. The first gate is past
  its last look for the health marker; it flips back from a release that passed
  and bans it. Without a "stop" no two gates decide one trial, which is a part
  of the invariant of section 6.
* `BadIsNotOffered` (no fault). `newer` compares versions only (`check.go:282`),
  so a check offers a release of the bad list again, which the comment at
  `apply.go:452` excludes. `apply` refuses it, so nothing is installed.
* `BansStick` with "save". CheckRollback removes the .bad file though the save
  of state.json failed (`run.go:517`, `apply.go:481`); a crash before the next
  save loses the ban, and the release is tried again.
* `BannedStaysOut` (three cuts). After the boot loop guard the gate exits
  without a restart (`health-gate.sh:175`); the daemon that runs on read its
  bad list before the .bad file was written and installs the same release
  again (`health-gate.sh:8`). The guard also leaves the process of the release
  that was given up running until the next restart.

### Fleet

* **An Unpair during the fetch** (`FleetCommands_unpaired`, `UnpairHolds`).
  `applyManifest` takes the generation when it begins, after the fetch, so the
  Unpair is not noticed and the rules of the old server go live on a
  standalone device until the next start. `syncer.go:563`: "an Unpair that
  landed in the middle must not be undone by the round that it interrupted".
* `EndersRunOnce` with "save" and "lose". The save of the ID fails, the reboot
  runs anyway (`commands.go:147`), the acknowledgement is lost, and the reboot
  is delivered and run again; `commands.go:28` says that it runs once.
* `EndersRunOnce` with "unpair", "rejoin" and "lose", or with "revoke" for
  "unpair". A pairing, and an unpairing, empties the list of IDs
  (`pair.go:217`) while the server keeps its queue; a reboot whose
  acknowledgement was lost runs a second time, even in the round that an
  Unpair interrupts.
* `AckedRan` with "unpair" and two servers. The round of the old pairing marks
  its ID in the list of the new pairing (`commands.go:42`, `pair.go:214`); a
  command of the new server with the same number is acknowledged unrun.
* `ReleaseOfPairing` ("unpair", two servers). A round that took its answer
  before the Unpair sets the approved release after it (`poll.go:39`,
  `syncer.go:576`).
* `RefusalIsOwn` ("revoke", "unpair", "rejoin"). A refusal of the old token
  that arrives after a new pairing takes the new pairing away (`pair.go:345`,
  against the comment at `pair.go:341`).
* Limits: more than `MaxCommands` unacknowledged IDs push old ones out of the
  list; three reboots in front of a command use up its deliveries; the answer
  that carries a token can be lost after the claim was consumed.

### Player

* `BlameStays` ("screen", two changes). A load without a resume point clears the
  list of files that ended mpv (`supervisor.go:1186`), so the screen off and on,
  the retry of a failed playlist and a wait for the display bring the file
  back; the comments at 280 and 745 say until the playlist changes.
* `FailedIsReal` ("want", one change). The start-file and the idle of the old
  list, read after a change of playlist, count for the new one
  (`supervisor.go:931`, `1040`), and the fallback screen comes for the retry
  time though nothing of the new playlist failed. `FollowsWant` holds because
  the retry repairs it.
* `RebootNeedsFaults` with "glitch", "unplug" and "die". The cable goes out,
  mpv ends, the cable is back before the next look: the exit is counted, and
  enough of them reboot the machine. `watchdog.go:62`: "Display absence never
  comes here (D44)".
* A restart, a display setting or the nightly restart between the end of mpv
  and the next pass hides the exit: it is not counted and the file is not
  named. The file is met again, so `FollowsWant` holds.
* A playlist of one file that once ended mpv shows the fallback screen until
  the playlist changes. `OnTheScreen` says so.

### Screen power and schedule

* The compensating Resume after a Suspend that timed out is refused by a full
  queue (`power.go:283`). The late Suspend then darkens a player that the
  controller records as on, which the comment above it wants to exclude;
  `PowerIsReal` excuses it as "lost". The next edge repairs it.
* `Start` takes the screen for on (`power.go:153`). A television that was in CEC
  standby when the daemon ended stays dark until the next off and on; it is
  excused as "forgot".
* A method that was set by name is kept when the setting goes back to "auto".
* `scheduler/doc.go:5` says of the rules and of the screen times "Both must hold
  still until the clock is true"; `ScreenShouldBeOn` (`scheduler.go:228`) does not
  look at the clock's sync state, only the choice of the playlist does.
* An evaluation that began before `SetFleetRules` can publish the old default
  with a new rule, for the moment until the caller's own evaluation. The rule
  of `ActiveIsRight`, "when every caller has returned", leaves it out.

### Content of the device

* `AppliedWhole` (FleetSync). A manifest that is recorded while its content does
  not fit, or a server that goes back to the recorded manifest in the middle of
  a swap or a power cut, leaves rules and playlists of different manifests:
  `playlistsPresent` only looks whether the directories exist. `syncer/doc.go:25`:
  "A manifest is applied whole or not at all."
* `makeRoom` evicts objects of playlists that are live before it finds that the
  manifest does not fit (`apply.go:390`); `docs/troubleshooting.md:45`: "The
  screen keeps playing what it already has."
* A cut in the middle of a swap loses the playlists in the trash, which
  `sweepLeftovers` removes at the next start; they come back with the next
  round.
* `SnapshotIsTruth` (Library). Of two overlapping calls the older scan may be
  stored last (`library.go:228`); the list is old until the next scan.
  `RenamePlaylist` writes what it read before, so an edit between its two steps
  is lost.
* `UploadsKept` without the excuse of `moved` (Library, four calls). An upload to
  the playlist l is open when l is renamed to m; an upload to m takes the same
  file name, which is reserved only under the old path, and commits; m is
  renamed back to l; the first upload commits over a file that was acknowledged.
  The rename in the commit replaces silently, which the comment of `AddMedia`
  at `crud.go:212` takes as its reason to reserve.
* `FleetHashesStay` (HashCache). `prune` asks whether the device is paired after
  the scan, so a pairing in between drops the hashes of the fleet objects that
  the comment wants to keep; they are computed again.
* `ShadowIsLastGood` (ConfigFile). A reload of a hand edit never writes the
  shadow copy (`run.go:1250`), against `docs/settings.md:217` and `:232`; only a
  start or a save does.
* `EveryEditIsTaken` (ConfigFile). An edit between the write of the daemon and
  the note of the time in `adopt` (`run.go:1320`) is never read.
* `AutoSaveKeepsEdits` without the last case of `raced` (ConfigFile). The file is
  removed while the lock is held, written again by a person, and removed again
  when the lock is free: a rename from the fleet then writes it again from
  memory.
* `NoWriteOverAFault` (ConfigFile). `saveServer` writes a configuration that came
  from the shadow copy or was repaired (`run.go:415`), which `CONTEXT.md:384`
  excludes for all code.

* `AloneOnTheMachine` (DiskInstall). The flag that keeps installs apart belongs to
  one process, so the daemon and the command line can write one disk together
  once both have looked; `installer/install.go:43`: "Two installs on one machine
  would write over each other." `ReadyIsReady` excuses it.
* `EndIsOwnAlways` (DiskInstall). Two posts that both pass `Busy` (`run.go:714`)
  before one of them runs share the hub: the page of the one that writes can
  hear "runs already" of the other and close its stream.
* The text that tells a person to keep the stick after a failure
  (`Done.Instruction`, "nothing else would say so", `install.go:216`) is not read
  by the page (`about.js:321`) nor printed by the command line.

### Server

* `docs/fleet.md:88` says that either way to unpair revokes the token of the
  device; `Unpair` on the device never tells the server, whose row keeps it.
* A round that read its card before an Unpair can pair the device again, and
  `dropToken` clears whatever token is on the card. A lost answer needs a second
  approval, and a row that was never paired can have two approved requests; the
  machine that collects last holds the token. `Enrollment` has these
  behaviours; its properties hold with them.
* `LateFailureKeeps` (ReleaseMirror). The route that approves writes "failed" when
  `Start` refuses because a job runs (`admin/releases.go:135`), also over a
  release that is mirrored already; the comment at `mirror.go:221` says that a
  late failure must not clear an install.
* `NoRowWithoutFile` (MediaStore). A delete between the touch of an existing file
  and the row of an upload of the same bytes leaves a row with no file, which
  the comment of `deleteMedia` (`admin/media.go:178`) wants to avoid.
* A playlist that is deleted between the query of its row and the query of its
  items goes out empty in that manifest (`db/manifest.go:108`); `NamedHasItems`
  excuses it, and the next poll corrects it.

## 9. Not modelled

* Sessions, the login limiter and the host filter (`internal/httpguard`), and
  the order of versions (`updater/version.go`): single steps under one mutex, or
  pure functions of strings.
* The fallback drawing, audio, mDNS, network files, the health report and the
  log: sequential I/O with no protocol state.
* The signature check: a call into a library; one step of `ReleaseSwap` and of
  `ReleaseMirror` that passes or fails.
* Routes, templates and web pages, and the image build scripts (only the layout
  they install is the `Init` of `ReleaseSwap`).

Within the modelled parts, left out: names and texts of errors, progress
numbers, the length of timers (a timer is an action that is enabled while it
runs; only their order matters to the properties), the volume and the drawing
options of mpv, media types and durations, the fields of the configuration that
no other component reads back. A manifest is its server in `FleetCommands`, its
files and rules in `FleetSync`, its plan in `Schedule`, and its playlists in
`FleetPlan`: no module has all of them, so a fault that needs two of these views
at once is out of reach.
