---------------------------- MODULE DiskInstall ----------------------------
(***************************************************************************)
(* The install onto an internal disk: internal/device/installer, the route *)
(* that starts it (startInstall of cmd/portapixeld/run.go), the stream     *)
(* that reports it (Hub of internal/device/httpd/sse.go), and the command  *)
(* install-to-disk, which is a process of its own with its own Installer.  *)
(*                                                                         *)
(* A request is a page of the admin UI: it posts, and it opens the stream  *)
(* after the answer.  The work goes on in a goroutine.  The content of a   *)
(* disk is the set of the parts that are a good copy; sizes and progress   *)
(* numbers are left out.                                                   *)
(***************************************************************************)
EXTENDS Naturals, Sequences, FiniteSets

CONSTANTS
    Requests,       \* the posts, each with its page
    Terminal,       \* the command line
    Disks,          \* the disks of the machine
    Stick,          \* the disk that the system runs from
    Small,          \* the disks on which the system does not fit
    hubQueue,       \* how many events a page may fall behind (the code says 4)
    InstallEvents,  \* which of the events below the environment uses
    MaxInstall      \* bound: how many of these events happen

Jobs == Requests \cup {Terminal}
NoJob == "nobody"

\* The phases that write, in their order; the part that each one makes.
Phases == <<"table", "parts", "files", "code">>
Complete == {Phases[i] : i \in DOMAIN Phases}

VARIABLES
    post,    \* post[r]: startInstall of request r
    job,     \* job[j]: Run
    busy,    \* Installer.busy of the daemon
    disk,    \* disk[d]: the parts of the system that d holds
    nodes,   \* the disks whose partition nodes the kernel has made
    mounted, \* the disks with a mounted filesystem
    last,    \* Hub.last
    page,    \* page[r]: the stream and what the person reads
    excuse,  \* history: "overlap", two posts were not kept apart; "beside", the
             \* command line and the daemon wrote together
    faults

vars == <<post, job, busy, disk, nodes, mounted, last, page, excuse, faults>>

NewJob == [pc |-> "none", dev |-> Stick, at |-> 0, wrote |-> FALSE, late |-> FALSE,
           copied |-> FALSE, touched |-> FALSE, ends |-> "none"]
OverJob == [NewJob EXCEPT !.pc = "end"]
NewPage == [pc |-> "none", chan |-> <<>>, heard |-> NoJob]

\* An event of the hub is a progress, or the end of the install of a request.
Progress == "progress"
NoEvent == "none"
Event == Requests \cup {Progress}

Init ==
    /\ post = [r \in Requests |-> "none"]
    /\ job = [j \in Jobs |-> NewJob]
    /\ busy = FALSE
    /\ disk = [d \in Disks |-> {}]
    /\ nodes = {}
    /\ mounted = {Stick}
    /\ last = NoEvent
    /\ page = [r \in Requests |-> NewPage]
    /\ excuse = {}
    /\ faults = 0

Ends == {"ready", "stopped", "refused"}

TypeOK ==
    /\ post \in [Requests -> {"none", "free", "checked", "started", "refused"}]
    /\ job \in [Jobs -> [pc : {"none", "start", "check", "again", "write", "wait", "copy",
                               "umount", "unbusy", "end"},
                         dev : Disks, at : 0..Len(Phases), wrote : BOOLEAN,
                         late : BOOLEAN, copied : BOOLEAN, touched : BOOLEAN,
                         ends : Ends \cup {"none"}]]
    /\ busy \in BOOLEAN
    /\ disk \in [Disks -> SUBSET Complete]
    /\ nodes \subseteq Disks /\ mounted \subseteq Disks
    /\ last \in Event \cup {NoEvent}
    /\ page \in [Requests ->
                 [pc : {"none", "answered", "subscribed", "open", "closed", "lost"},
                  chan : Seq(Event), heard : Requests \cup {NoJob}]]
    /\ \A r \in Requests : Len(page[r].chan) <= hubQueue
    /\ excuse \subseteq {"overlap", "beside"}
    /\ faults \in 0..MaxInstall

Fault(e) == e \in InstallEvents /\ faults < MaxInstall /\ faults' = faults + 1

-----------------------------------------------------------------------------
(***************************************************************************)
(* The hub.                                                                *)
(***************************************************************************)
\* A page with a full channel loses its oldest event.
Push(s, e) == Append(IF Len(s) < hubQueue THEN s ELSE Tail(s), e)

Listens(r) == page[r].pc \in {"subscribed", "open"}

\* Send.  The command line prints, and has no hub.
Send(j, e) ==
    IF j = Terminal THEN UNCHANGED <<last, page>>
    ELSE /\ last' = e
         /\ page' = [r \in Requests |->
                IF Listens(r) THEN [page[r] EXCEPT !.chan = Push(@, e)] ELSE page[r]]

\* Mutant of Reset: the hub keeps the last event of the install before.
ResetNot == last

Reset == NoEvent

-----------------------------------------------------------------------------
(***************************************************************************)
(* The post.                                                               *)
(***************************************************************************)
\* Source follows the partition that is mounted on "/" to its disk.
Source == Stick

\* A disk with any mounted filesystem is a disk in use.
InUse(d) == d \in mounted

\* Disks lists the targets; TooSmall says that the layout does not fit.
Targets == Disks \ {Source}
TooSmall(d) == d \in Small

\* Check: every refusal, against the world as it is now.  The name that was typed
\* back is the name of the disk.
Check(d) == d # Source /\ ~InUse(d) /\ d \in Targets /\ ~TooSmall(d)

Working(j) == job[j].pc \notin {"none", "end"}

\* startInstall asks Busy.  The lock is free again after it.
startInstall(r, d) ==
    /\ post[r] = "none" /\ ~busy
    /\ post' = [post EXCEPT ![r] = "free"]
    /\ job' = [job EXCEPT ![r].dev = d]
    /\ excuse' = IF \E s \in Requests \ {r} : post[s] \in {"free", "checked"} \/ Working(s)
                 THEN excuse \cup {"overlap"} ELSE excuse
    /\ UNCHANGED <<busy, disk, nodes, mounted, last, page, faults>>

\* A refusal of Check is the answer; a person who tries again is another request.
PostCheck(r) ==
    /\ post[r] = "free"
    /\ post' = [post EXCEPT ![r] = IF Check(job[r].dev) THEN "checked" ELSE "refused"]
    /\ UNCHANGED <<job, busy, disk, nodes, mounted, last, page, excuse, faults>>

\* The hub forgets, the goroutine begins, and the request answers.
PostRuns(r) ==
    /\ post[r] = "checked"
    /\ post' = [post EXCEPT ![r] = "started"]
    /\ job' = [job EXCEPT ![r].pc = "start"]
    /\ last' = Reset
    /\ page' = [page EXCEPT ![r].pc = "answered"]
    /\ UNCHANGED <<busy, disk, nodes, mounted, excuse, faults>>

\* installToDiskCommand: the same work, with no Busy of the daemon.
installToDiskCommand(d) ==
    /\ Fault("cli") /\ job[Terminal].pc = "none"
    /\ job' = [job EXCEPT ![Terminal].pc = "start", ![Terminal].dev = d]
    /\ UNCHANGED <<post, busy, disk, nodes, mounted, last, page, excuse>>

-----------------------------------------------------------------------------
(***************************************************************************)
(* The work.                                                               *)
(***************************************************************************)
Writing(j) == job[j].pc \in {"write", "wait", "copy", "umount"}

\* Run takes the flag, or ends at once.
Run(j) ==
    /\ job[j].pc = "start"
    /\ IF j # Terminal /\ busy
       THEN /\ job' = [job EXCEPT ![j] = OverJob]
            /\ Send(j, j)
            /\ UNCHANGED busy
       ELSE /\ job' = [job EXCEPT ![j].pc = "check"]
            /\ busy' = (busy \/ j # Terminal)
            /\ Send(j, Progress)
    /\ UNCHANGED <<post, disk, nodes, mounted, excuse, faults>>

\* The Done event, before the flag goes back: what it says of the disk depends on
\* whether wrote was called.
Ended(j, ok) ==
    [job[j] EXCEPT !.pc = "unbusy",
                   !.ends = IF ok THEN "ready"
                            ELSE IF job[j].wrote THEN "stopped" ELSE "refused"]

Done(j, ok) == job' = [job EXCEPT ![j] = Ended(j, ok)] /\ Send(j, j)

Unbusy(j) ==
    /\ job[j].pc = "unbusy"
    /\ job' = [job EXCEPT ![j] = OverJob]
    /\ busy' = (busy /\ j = Terminal)
    /\ UNCHANGED <<post, disk, nodes, mounted, last, page, excuse, faults>>

\* The two looks of run: at the start, and before the first write.
Look(j) ==
    /\ job[j].pc \in {"check", "again"}
    /\ IF ~Check(job[j].dev) THEN Done(j, FALSE)
       ELSE /\ Send(j, Progress)
            /\ job' = IF job[j].pc = "check" THEN [job EXCEPT ![j].pc = "again"]
                      ELSE [job EXCEPT ![j].pc = "write", ![j].at = 1, ![j].wrote = TRUE]
    /\ excuse' = IF job'[j].pc = "write"
                    /\ \E k \in Jobs \ {j} : Working(k) /\ Terminal \in {j, k}
                 THEN excuse \cup {"beside"} ELSE excuse
    /\ UNCHANGED <<post, busy, disk, nodes, mounted, faults>>

\* openTarget opens a node that is there and never makes one.
openTarget(d) == d \in nodes

\* Where the job goes after phase i: the table needs its nodes, and the files need
\* a mount.
After(j, i) ==
    CASE i = 1 -> [job[j] EXCEPT !.pc = "wait", !.touched = TRUE]
      [] i = 2 -> [job[j] EXCEPT !.pc = "copy", !.at = 3]

\* What a phase leaves on the disk: a new table holds nothing, clone copies p1 and
\* p2 before mkfs.exfat makes p3, and the boot code is outside of the partitions.
writeTable(d) == [disk EXCEPT ![d] = {"table"}]
clone(d) == [disk EXCEPT ![d] = @ \cup {"parts"}]
copyTree(d) == [disk EXCEPT ![d] = @ \cup {"files"}]
writeBootCode(d) == [disk EXCEPT ![d] = @ \cup {"code"}]

WritePhase(j) ==
    LET i == job[j].at
        d == job[j].dev
    IN  /\ job[j].pc = "write"
        /\ i \in {1, 4} \/ openTarget(d)
        /\ disk' = CASE i = 1 -> writeTable(d)
                     [] i = 2 -> clone(d)
                     [] i = 4 -> writeBootCode(d)
        /\ nodes' = IF i = 1 THEN nodes \ {d} ELSE nodes
        /\ IF i = 4 THEN Done(j, TRUE)
           ELSE job' = [job EXCEPT ![j] = After(j, i)] /\ Send(j, Progress)
        /\ UNCHANGED <<post, busy, mounted, excuse, faults>>

\* waitForPartitions.
waitForPartitions(j) ==
    /\ job[j].pc = "wait" /\ job[j].dev \in nodes
    /\ job' = [job EXCEPT ![j].pc = "write", ![j].at = 2]
    /\ UNCHANGED <<post, busy, disk, nodes, mounted, last, page, excuse, faults>>

\* A mount by somebody else, while a job writes this disk.
Surprised(d, others) ==
    [j \in Jobs |-> IF j \in others /\ Writing(j) /\ job[j].dev = d
                    THEN [job[j] EXCEPT !.late = TRUE] ELSE job[j]]

\* copyMedia mounts p3 and copyTree walks the files across; a file may fail.  A
\* file that the daemon may not read is not content.
copyMedia(j) ==
    LET d == job[j].dev
    IN  /\ job[j].pc = "copy" /\ openTarget(d)
        /\ mounted' = mounted \cup {d}
        /\ \E ok \in BOOLEAN :
            /\ IF ok THEN UNCHANGED faults ELSE Fault("io")
            /\ disk' = IF ok THEN copyTree(d) ELSE disk
            /\ job' = [Surprised(d, Jobs \ {j}) EXCEPT ![j].pc = "umount", ![j].copied = ok]
        /\ UNCHANGED <<post, busy, nodes, last, page, excuse>>

\* The umount is on every path, and one that fails is a line in the log.
umount(j) ==
    /\ job[j].pc = "umount"
    /\ \/ mounted' = mounted \ {job[j].dev} /\ UNCHANGED faults
       \/ Fault("umount") /\ UNCHANGED mounted
    /\ IF job[j].copied
       THEN job' = [job EXCEPT ![j].pc = "write", ![j].at = 4] /\ Send(j, Progress)
       ELSE Done(j, FALSE)
    /\ UNCHANGED <<post, busy, disk, nodes, excuse>>

\* A program fails, a write fails, or the nodes do not come in time: they never come
\* when another writer took the table.  sgdisk may have cleared the disk before it
\* failed.
PhaseFails(j) ==
    /\ job[j].pc \in {"write", "wait", "copy"}
    /\ \/ Fault("io")
       \/ /\ ~openTarget(job[j].dev)
          /\ IF job[j].pc = "wait" THEN "table" \notin disk[job[j].dev] ELSE job[j].at \in 2..3
          /\ UNCHANGED faults
    /\ \/ UNCHANGED disk /\ Done(j, FALSE)
       \/ /\ job[j].pc = "write" /\ job[j].at = 1
          /\ disk' = [disk EXCEPT ![job[j].dev] = {}]
          /\ job' = [job EXCEPT ![j] = [Ended(j, FALSE) EXCEPT !.touched = TRUE]]
          /\ Send(j, j)
    /\ UNCHANGED <<post, busy, nodes, mounted, excuse>>

\* The kernel makes the nodes of a new table.
Kernel ==
    /\ nodes' = nodes \cup {d \in Disks : "table" \in disk[d]}
    /\ nodes' # nodes
    /\ UNCHANGED <<post, job, busy, disk, mounted, last, page, excuse, faults>>

-----------------------------------------------------------------------------
(***************************************************************************)
(* The page.                                                               *)
(***************************************************************************)
\* The handlers of watchInstall: done closes the stream.
watchInstall(p, e) ==
    IF e \in Requests THEN [p EXCEPT !.pc = "closed", !.heard = e, !.chan = <<>>]
    ELSE [p EXCEPT !.pc = "open"]

subscribe(r) ==
    /\ page[r].pc = "answered"
    /\ page' = [page EXCEPT ![r].pc = "subscribed", ![r].chan = <<>>]
    /\ UNCHANGED <<post, job, busy, disk, nodes, mounted, last, excuse, faults>>

\* serve reads the last event under the lock, after it subscribed.
serveLast(r) ==
    /\ page[r].pc = "subscribed"
    /\ page' = [page EXCEPT ![r] = watchInstall(@, last)]
    /\ UNCHANGED <<post, job, busy, disk, nodes, mounted, last, excuse, faults>>

serve(r) ==
    /\ page[r].pc = "open" /\ page[r].chan # <<>>
    /\ page' = [page EXCEPT ![r] = watchInstall([page[r] EXCEPT !.chan = Tail(@)], Head(page[r].chan))]
    /\ UNCHANGED <<post, job, busy, disk, nodes, mounted, last, excuse, faults>>

\* The network drops a stream, and the browser opens it again.
Reconnect(r) ==
    /\ Fault("drop") /\ page[r].pc = "open"
    /\ page' = [page EXCEPT ![r].pc = "answered", ![r].chan = <<>>]
    /\ UNCHANGED <<post, job, busy, disk, nodes, mounted, last, excuse>>

-----------------------------------------------------------------------------
(***************************************************************************)
(* The machine.                                                            *)
(***************************************************************************)
\* A service or a person mounts a filesystem of a disk, or unmounts it.
Mount(d) ==
    /\ Fault("mount") /\ d # Stick
    /\ mounted' = IF d \in mounted THEN mounted \ {d} ELSE mounted \cup {d}
    /\ job' = Surprised(d, Jobs)
    /\ UNCHANGED <<post, busy, disk, nodes, last, page, excuse>>

\* The daemon stops: Close ends the streams, nobody waits for the install, and a
\* session does not survive, so a page does not come back.
Stop ==
    /\ Fault("stop")
    /\ post' = [r \in Requests |-> IF post[r] = "none" THEN "none" ELSE "started"]
    /\ job' = [j \in Jobs |-> IF j # Terminal /\ Working(j)
                              THEN OverJob ELSE job[j]]
    /\ busy' = FALSE
    /\ last' = NoEvent
    /\ page' = [r \in Requests |->
                    IF page[r].pc \in {"none", "closed"} THEN page[r]
                    ELSE [page[r] EXCEPT !.pc = "lost", !.chan = <<>>]]
    /\ UNCHANGED <<disk, nodes, mounted, excuse>>

JobStep(j) ==
    \/ Run(j) \/ Unbusy(j) \/ Look(j) \/ WritePhase(j) \/ waitForPartitions(j)
    \/ copyMedia(j) \/ umount(j) \/ PhaseFails(j)

PageStep(r) == PostCheck(r) \/ PostRuns(r) \/ subscribe(r) \/ serveLast(r) \/ serve(r)

Next ==
    \/ \E r \in Requests :
        \/ \E d \in Disks : startInstall(r, d)
        \/ PageStep(r) \/ Reconnect(r)
    \/ \E j \in Jobs : JobStep(j)
    \/ Kernel
    \/ \E d \in Disks : installToDiskCommand(d) \/ Mount(d)
    \/ Stop

Spec == Init /\ [][Next]_vars

\* The handlers, the goroutines and the kernel go on; a browser reads.
Steps == (\E r \in Requests : PageStep(r)) \/ (\E j \in Jobs : JobStep(j)) \/ Kernel

Fairness == WF_vars(Steps)

-----------------------------------------------------------------------------
(***************************************************************************)
(* Properties.                                                             *)
(***************************************************************************)
\* "Power the machine off, take the stick out" is said only of a disk that holds
\* every part, whatever failed on the way.  Two writers at once are excused.
ReadyIsReady ==
    \A j \in Jobs :
        job[j].pc = "unbusy" /\ job[j].ends = "ready" /\ "beside" \notin excuse
            => disk[job[j].dev] = Complete

\* A refusal leaves the disk as it was, and a disk that was changed in vain is
\* reported as one that cannot start.
RefusalIsHarmless ==
    \A j \in Jobs : job[j].ends = "refused" => ~job[j].touched

\* Installer.busy: two installs of the daemon never write together.  The disk that
\* the system runs from, and a disk that was in use at the last look, are never
\* written.
WritesAlone ==
    /\ \A i, j \in Requests : Writing(i) /\ Writing(j) => i = j
    /\ \A j \in Jobs :
        job[j].pc = "write" => /\ job[j].dev # Stick
                               /\ job[j].dev \in mounted /\ job[j].at < 4 => job[j].late

\* Reset: a page never takes the end of an earlier install for the end of its
\* own, while the install that it asked for writes.  Posts that were not kept
\* apart are excused.
EndIsOwn ==
    \A r \in Requests : page[r].heard # NoJob /\ "overlap" \notin excuse
        => page[r].heard = r \/ ~Working(r)

\* The safety of the install: types, and the four statements above.
InstallIsHonest == TypeOK /\ ReadyIsReady /\ RefusalIsHarmless /\ WritesAlone /\ EndIsOwn

\* NewHub: a page hears how an install ended, also when it opened its stream after
\* the end or lost it on the way.  A daemon that stops is excused.
PageHears == \A r \in Requests : page[r].pc \in {"none", "closed", "lost"}

\* ErrBusy: "Two installs on one machine would write over each other."  The command
\* line has a flag of its own.
AloneOnTheMachine == \A i, j \in Jobs : Writing(i) /\ Writing(j) => i = j

\* A page hears only of its own install, also when two people post together.
EndIsOwnAlways ==
    \A r \in Requests : page[r].heard # NoJob => page[r].heard = r \/ ~Working(r)

-----------------------------------------------------------------------------
(***************************************************************************)
(* The inductive invariant behind InstallIsHonest.                         *)
(***************************************************************************)
\* A request that was not answered has no job and no page.
PostIsFirst ==
    \A r \in Requests : post[r] # "started" =>
        /\ job[r].pc = "none" /\ job[r].ends = "none"
        /\ ~job[r].wrote /\ ~job[r].touched
        /\ page[r] = NewPage

\* Where a job is, and what it remembers of its way.
JobIsTrue(j) ==
    /\ job[j].pc = "write" => job[j].at \in {1, 2, 4}
    /\ Writing(j) => job[j].wrote /\ job[j].dev # Stick
    /\ job[j].wrote => Writing(j) \/ job[j].pc = "unbusy"
    /\ job[j].touched => job[j].wrote
    /\ job[j].ends = "refused" => ~job[j].wrote
    /\ job[j].ends = "ready" => job[j].wrote
    /\ job[j].pc # "unbusy" => job[j].ends = "none"
    /\ \/ job[j].pc = "write" /\ job[j].at < 4
       \/ job[j].pc = "wait"
       => (job[j].dev \in mounted => job[j].late)

\* The flag of the daemon: one request holds it.
Holds(r) == Working(r) /\ job[r].pc # "start"

FlagIsOne ==
    /\ \A r \in Requests : Holds(r) => busy
    /\ \A r, s \in Requests : Holds(r) /\ Holds(s) => r = s

\* Unless the command line ran beside it, the job that writes is the only one, and
\* its disk holds the parts of the phases that are over.
HasWritten(j) == Working(j) /\ job[j].wrote

Made(j) ==
    CASE job[j].pc = "wait" \/ (job[j].pc = "write" /\ job[j].at = 2) -> {"table"}
      [] job[j].pc = "copy" -> {"table", "parts"}
      [] job[j].pc = "umount" ->
            IF job[j].copied THEN {"table", "parts", "files"} ELSE {}
      [] job[j].pc = "write" /\ job[j].at = 4 -> {"table", "parts", "files"}
      [] job[j].pc = "unbusy" /\ job[j].ends = "ready" -> Complete
      [] OTHER -> {}

DiskIsMade ==
    "beside" \notin excuse =>
        /\ \A i, j \in Jobs : HasWritten(i) /\ HasWritten(j) => i = j
        /\ \A j \in Jobs : Made(j) \subseteq disk[job[j].dev]

\* Unless two posts overlapped, one request is on its way, and while its job works
\* its page can learn of no other.
OnItsWay(r) == post[r] \in {"free", "checked"} \/ Working(r)

PageIsOwn ==
    "overlap" \notin excuse =>
        /\ \A r, s \in Requests : OnItsWay(r) /\ OnItsWay(s) => r = s
        /\ \A r \in Requests : Working(r) =>
            /\ last \in {NoEvent, Progress, r}
            /\ page[r].chan \in Seq({Progress, r})
            /\ page[r].heard \in {NoJob, r}

InstallInv ==
    /\ TypeOK /\ PostIsFirst /\ FlagIsOne /\ DiskIsMade /\ PageIsOwn
    /\ \A j \in Jobs : JobIsTrue(j)
=============================================================================
