---------------------------- MODULE InstallProofs ----------------------------
(***************************************************************************)
(* Proofs about the install onto a disk, as MCDevice composes it: for any  *)
(* number of posts, pages, disks and faults.                               *)
(***************************************************************************)
EXTENDS MCDevice, SequenceTheorems, TLAPS

Jobs == Install!Jobs
Events == Requests \cup {"progress"}
JobRecs ==
    [pc : {"none", "start", "check", "again", "write", "wait", "copy", "umount", "unbusy", "end"},
     dev : Disks, at : 0..4, wrote : BOOLEAN, late : BOOLEAN, copied : BOOLEAN,
     touched : BOOLEAN, ends : {"ready", "stopped", "refused", "none"}]
Pages ==
    [pc : {"none", "answered", "subscribed", "open", "closed", "lost"},
     chan : Seq(Events), heard : Requests \cup {"nobody"}]
Parts == {"table", "parts", "files", "code"}

-----------------------------------------------------------------------------
(* The types, as the provers read them.                                    *)

\* The phases make the four parts of a disk, one each.
LEMMA PartsAre == Install!Complete = Parts /\ Len(Install!Phases) = 4
BY DEF Install!Complete, Install!Phases, Parts

\* What TypeOK says.
LEMMA InstallTypes ==
    Install!TypeOK <=>
        /\ post \in [Requests -> {"none", "free", "checked", "started", "refused"}]
        /\ iJob \in [Jobs -> JobRecs]
        /\ busy \in BOOLEAN
        /\ iDisk \in [Disks -> SUBSET Parts]
        /\ nodes \subseteq Disks /\ mounted \subseteq Disks
        /\ last \in Events \cup {"none"}
        /\ page \in [Requests -> Pages] /\ \A r \in Requests : Len(page[r].chan) <= hubQueue
        /\ iExcuse \subseteq {"overlap", "beside"}
        /\ iFaults \in 0..MaxInstall
<1>1. Install!Ends \cup {"none"} = {"ready", "stopped", "refused", "none"}
  BY DEF Install!Ends
<1>2. Install!Event = Events /\ Install!NoEvent = "none" /\ Install!NoJob = "nobody"
  BY DEF Install!Event, Events, Install!Progress, Install!NoEvent, Install!NoJob
<1> QED BY <1>1, <1>2, PartsAre, Zenon DEF Install!TypeOK, Jobs, JobRecs, Pages

\* A fault stays in its bound.
LEMMA InstallCount ==
    ASSUME iFaults \in 0..MaxInstall, NEW e, Install!Fault(e) \/ UNCHANGED iFaults
    PROVE  iFaults' \in 0..MaxInstall
BY BoundAssumption DEF Install!Fault

\* One job moves.
LEMMA JobSet ==
    ASSUME iJob \in [Jobs -> JobRecs], NEW j \in Jobs, NEW x \in JobRecs,
           iJob' = [iJob EXCEPT ![j] = x]
    PROVE  /\ iJob' \in [Jobs -> JobRecs] /\ iJob'[j] = x
           /\ \A k \in Jobs : k # j => iJob'[k] = iJob[k]
OBVIOUS

-----------------------------------------------------------------------------
(* The hub.                                                                *)

\* What an event does to the pages: a page that listens hears it, and no other page
\* changes.
Told(e) ==
    /\ last' = e
    /\ page' \in [Requests -> Pages]
    /\ \A r \in Requests :
        /\ page'[r].pc = page[r].pc /\ page'[r].heard = page[r].heard
        /\ Len(page'[r].chan) <= hubQueue
        /\ \A S \in SUBSET Events : page[r].chan \in Seq(S) /\ e \in S => page'[r].chan \in Seq(S)
        /\ page[r].pc \notin {"subscribed", "open"} => page'[r] = page[r]

\* A full channel drops its oldest event, and so never outgrows its size.
LEMMA Pushed ==
    ASSUME NEW S, NEW s \in Seq(S), NEW e \in S, Len(s) <= hubQueue
    PROVE  Install!Push(s, e) \in Seq(S) /\ Len(Install!Push(s, e)) <= hubQueue
<1>1. hubQueue \in Nat \ {0} /\ Len(s) \in Nat
  BY InstallAssumption
<1>2. CASE Len(s) < hubQueue
  BY <1>1, <1>2 DEF Install!Push
<1>3. CASE ~(Len(s) < hubQueue)
  <2>1. Tail(s) \in Seq(S) /\ Len(Tail(s)) = Len(s) - 1
    BY <1>1, <1>3
  <2> QED BY <1>1, <1>3, <2>1 DEF Install!Push
<1> QED BY <1>2, <1>3

\* An event of a job reaches every page that listens.
LEMMA SendTells ==
    ASSUME page \in [Requests -> Pages], \A r \in Requests : Len(page[r].chan) <= hubQueue,
           NEW j \in Requests, NEW e \in Events, Install!Send(j, e)
    PROVE  Told(e)
<1>1. j # Terminal
  BY InstallAssumption
<1>2. /\ last' = e
      /\ page' = [r \in Requests |->
                    IF page[r].pc \in {"subscribed", "open"}
                    THEN [page[r] EXCEPT !.chan = Install!Push(page[r].chan, e)] ELSE page[r]]
  BY <1>1 DEF Install!Send, Install!Listens
<1>3. ASSUME NEW r \in Requests
      PROVE  /\ page'[r] \in Pages
             /\ page'[r].pc = page[r].pc /\ page'[r].heard = page[r].heard
             /\ Len(page'[r].chan) <= hubQueue
             /\ \A S \in SUBSET Events :
                    page[r].chan \in Seq(S) /\ e \in S => page'[r].chan \in Seq(S)
             /\ page[r].pc \notin {"subscribed", "open"} => page'[r] = page[r]
  <2>1. page[r] \in Pages /\ Len(page[r].chan) <= hubQueue /\ page[r].chan \in Seq(Events)
    BY DEF Pages
  <2> DEFINE q == Install!Push(page[r].chan, e)
  <2>2. q \in Seq(Events) /\ Len(q) <= hubQueue
    BY <2>1, Pushed
  <2>3. \A S \in SUBSET Events : page[r].chan \in Seq(S) /\ e \in S => q \in Seq(S)
    BY <2>1, Pushed
  <2>4. page'[r] = IF page[r].pc \in {"subscribed", "open"}
                   THEN [page[r] EXCEPT !.chan = q] ELSE page[r]
    BY <1>2
  <2> HIDE DEF q
  <2>5. CASE page[r].pc \in {"subscribed", "open"}
    <3>1. page'[r] = [page[r] EXCEPT !.chan = q]
      BY <2>4, <2>5
    <3>2. page'[r] \in Pages /\ page'[r].chan = q /\ page'[r].pc = page[r].pc /\ page'[r].heard = page[r].heard
      BY <2>1, <2>2, <3>1 DEF Pages
    <3> QED BY <2>2, <2>3, <2>5, <3>2
  <2>6. CASE page[r].pc \notin {"subscribed", "open"}
    BY <2>1, <2>4, <2>6
  <2> QED BY <2>5, <2>6
<1>4. page' \in [Requests -> Pages]
  BY <1>2, <1>3
<1> QED BY <1>2, <1>3, <1>4 DEF Told

-----------------------------------------------------------------------------
(* The steps of a job.                                                     *)

\* Of another job, a step changes at most that it saw a mount.
SameJob(k) ==
    /\ iJob'[k].pc = iJob[k].pc /\ iJob'[k].dev = iJob[k].dev /\ iJob'[k].at = iJob[k].at
    /\ iJob'[k].wrote = iJob[k].wrote /\ iJob'[k].copied = iJob[k].copied
    /\ iJob'[k].touched = iJob[k].touched /\ iJob'[k].ends = iJob[k].ends
    /\ iJob[k].late => iJob'[k].late

\* What every step of job j has in common.
Shape(j) ==
    /\ post' = post /\ iJob[j].pc \notin {"none", "end"}
    /\ iJob' \in [Jobs -> JobRecs] /\ \A k \in Jobs : k # j => SameJob(k)
    /\ UNCHANGED <<last, page>> \/ (j \in Requests /\ \E e \in {j, "progress"} : Told(e))
    /\ iFaults' \in 0..MaxInstall /\ nodes' \subseteq Disks /\ mounted' \subseteq Disks
    /\ iDisk' \in [Disks -> SUBSET Parts] /\ busy' \in BOOLEAN
    /\ iExcuse' \in {iExcuse, iExcuse \cup {"beside"}}

\* What a step tells.
LEMMA ShapeTells ==
    ASSUME Install!InstallInv, NEW j \in Jobs, NEW e \in {j, "progress"}, Install!Send(j, e)
    PROVE  UNCHANGED <<last, page>> \/ (j \in Requests /\ Told(e))
<1>1. page \in [Requests -> Pages] /\ \A r \in Requests : Len(page[r].chan) <= hubQueue
  BY InstallTypes DEF Install!InstallInv
<1>2. CASE j = Terminal
  BY <1>2, Zenon DEF Install!Send
<1>3. CASE j \in Requests
  <2>1. e \in Events
    BY <1>3 DEF Events
  <2> QED BY <1>1, <1>3, <2>1, SendTells
<1> QED BY <1>2, <1>3 DEF Jobs, Install!Jobs

\* A step of that shape keeps the types.
LEMMA ShapeType ==
    ASSUME Install!InstallInv, NEW j \in Jobs, Shape(j) PROVE Install!TypeOK'
<1> DEFINE T == /\ post \in [Requests -> {"none", "free", "checked", "started", "refused"}]
                /\ iJob \in [Jobs -> JobRecs]
                /\ busy \in BOOLEAN
                /\ iDisk \in [Disks -> SUBSET Parts]
                /\ nodes \subseteq Disks /\ mounted \subseteq Disks
                /\ last \in Events \cup {"none"}
                /\ page \in [Requests -> Pages] /\ \A r \in Requests : Len(page[r].chan) <= hubQueue
                /\ iExcuse \subseteq {"overlap", "beside"}
                /\ iFaults \in 0..MaxInstall
<1>1. T
  BY InstallTypes DEF Install!InstallInv
<1>2. /\ last' \in Events \cup {"none"} /\ page' \in [Requests -> Pages]
      /\ \A r \in Requests : Len(page'[r].chan) <= hubQueue
  <2>1. CASE UNCHANGED <<last, page>>
    BY <1>1, <2>1
  <2>2. CASE j \in Requests /\ \E e \in {j, "progress"} : Told(e)
    BY <2>2 DEF Told, Events
  <2> QED BY <2>1, <2>2 DEF Shape
<1>3. T'
  BY <1>1, <1>2 DEF Shape
<1>4. (Install!TypeOK <=> T)'
  BY InstallTypes, PTL
<1> QED BY <1>3, <1>4

\* A job that works was answered, and its page is no new one.
LEMMA ShapePost ==
    ASSUME Install!InstallInv, NEW j \in Jobs, Shape(j) PROVE Install!PostIsFirst'
<1> SUFFICES ASSUME NEW r \in Requests, post[r] # "started"
             PROVE  /\ iJob'[r].pc = "none" /\ iJob'[r].ends = "none"
                    /\ ~iJob'[r].wrote /\ ~iJob'[r].touched /\ page'[r] = Install!NewPage
  BY DEF Install!PostIsFirst, Shape
<1>1. /\ iJob[r].pc = "none" /\ iJob[r].ends = "none"
      /\ ~iJob[r].wrote /\ ~iJob[r].touched /\ page[r] = Install!NewPage
  BY DEF Install!InstallInv, Install!PostIsFirst
<1>2. r \in Jobs /\ r # j
  BY <1>1 DEF Shape, Jobs, Install!Jobs
<1>3. SameJob(r)
  BY <1>2 DEF Shape
<1>4. page[r].pc = "none"
  BY <1>1 DEF Install!NewPage
<1>5. page'[r] = page[r]
  <2>1. CASE UNCHANGED <<last, page>>
    BY <2>1
  <2>2. CASE \E e \in {j, "progress"} : Told(e)
    BY <1>4, <2>2 DEF Told
  <2> QED BY <2>1, <2>2 DEF Shape
<1> QED BY <1>1, <1>3, <1>5 DEF SameJob

\* Unless two posts overlapped, a page hears of its own job alone.
LEMMA ShapePage ==
    ASSUME Install!InstallInv, NEW j \in Jobs, Shape(j) PROVE Install!PageIsOwn'
<1>1. ("overlap" \in iExcuse') <=> ("overlap" \in iExcuse)
  BY DEF Shape
<1> SUFFICES ASSUME "overlap" \notin iExcuse
             PROVE  /\ \A r, s \in Requests : Install!OnItsWay(r)' /\ Install!OnItsWay(s)' => r = s
                    /\ \A r \in Requests : Install!Working(r)' =>
                        /\ last' \in {"none", "progress", r}
                        /\ page'[r].chan \in Seq({"progress", r})
                        /\ page'[r].heard \in {"nobody", r}
  BY <1>1, Zenon DEF Install!PageIsOwn, Install!NoEvent, Install!Progress, Install!NoJob
<1>2. /\ \A r, s \in Requests : Install!OnItsWay(r) /\ Install!OnItsWay(s) => r = s
      /\ \A r \in Requests : Install!Working(r) =>
                        /\ last \in {"none", "progress", r}
                        /\ page[r].chan \in Seq({"progress", r})
                        /\ page[r].heard \in {"nobody", r}
  BY Zenon DEF Install!InstallInv, Install!PageIsOwn, Install!NoEvent, Install!Progress, Install!NoJob
<1>3. \A r \in Requests : Install!Working(r)' => Install!Working(r)
  BY DEF Install!Working, Shape, SameJob, Jobs, Install!Jobs
<1>4. \A r \in Requests : Install!OnItsWay(r)' => Install!OnItsWay(r)
  BY <1>3 DEF Install!OnItsWay, Shape
<1>5. ASSUME NEW r \in Requests, Install!Working(r)'
      PROVE  /\ last' \in {"none", "progress", r}
             /\ page'[r].chan \in Seq({"progress", r})
             /\ page'[r].heard \in {"nobody", r}
  <2>1. Install!Working(r)
    BY <1>3, <1>5
  <2>2. CASE UNCHANGED <<last, page>>
    BY <1>2, <2>1, <2>2
  <2>3. ASSUME j \in Requests, NEW e \in {j, "progress"}, Told(e)
        PROVE  /\ last' \in {"none", "progress", r}
               /\ page'[r].chan \in Seq({"progress", r})
               /\ page'[r].heard \in {"nobody", r}
    <3>1. j = r
      BY <1>2, <2>1, <2>3 DEF Install!OnItsWay, Install!Working, Shape
    <3>2. {"progress", r} \in SUBSET Events /\ e \in {"progress", r}
      BY <2>3, <3>1 DEF Events
    <3>3. page'[r].chan \in Seq({"progress", r})
      BY <1>2, <2>1, <2>3, <3>2 DEF Told
    <3> QED BY <1>2, <2>1, <2>3, <3>2, <3>3 DEF Told
  <2> QED BY <2>2, <2>3 DEF Shape
<1> QED BY <1>2, <1>4, <1>5

\* What is left to show of a step of job j.
LEMMA ShapeStep ==
    ASSUME Install!InstallInv, NEW j \in Jobs, Shape(j),
           Install!JobIsTrue(j)', Install!FlagIsOne',
           \A k \in Jobs : k # j /\ Install!Writing(k) /\ iJob[k].dev \in mounted'
                            => iJob[k].dev \in mounted \/ iJob'[k].late,
           \/ Install!HasWritten(j)' => Install!HasWritten(j)
           \/ "beside" \in iExcuse'
           \/ \A k \in Jobs : k # j => ~Install!HasWritten(k),
           \A d \in Disks : iDisk'[d] # iDisk[d] => d = iJob[j].dev /\ Install!HasWritten(j),
           "beside" \notin iExcuse' => Install!Made(j)' \subseteq iDisk'[iJob'[j].dev]
    PROVE  Install!InstallInv'
<1>1. ASSUME NEW k \in Jobs, k # j PROVE Install!JobIsTrue(k)'
  <2>1. SameJob(k)
    BY <1>1 DEF Shape
  <2>2. Install!JobIsTrue(k)
    BY DEF Install!InstallInv, Jobs
  <2>3. /\ iJob[k].pc = "write" => iJob[k].at \in {1, 2, 4}
        /\ Install!Writing(k) => iJob[k].wrote /\ iJob[k].dev # Stick
        /\ iJob[k].wrote => Install!Writing(k) \/ iJob[k].pc = "unbusy"
        /\ iJob[k].touched => iJob[k].wrote
        /\ iJob[k].ends = "refused" => ~iJob[k].wrote
        /\ iJob[k].ends = "ready" => iJob[k].wrote
        /\ iJob[k].pc # "unbusy" => iJob[k].ends = "none"
        /\ (iJob[k].pc = "write" /\ iJob[k].at < 4) \/ iJob[k].pc = "wait"
           => (iJob[k].dev \in mounted => iJob[k].late)
    BY <2>2, Zenon DEF Install!JobIsTrue
  <2>4. Install!Writing(k)' <=> Install!Writing(k)
    BY <2>1 DEF Install!Writing, SameJob
  <2>5. iJob[k].pc \in {"write", "wait"} => Install!Writing(k)
    BY DEF Install!Writing
  <2> QED BY <1>1, <2>1, <2>3, <2>4, <2>5 DEF Install!JobIsTrue, SameJob
<1>2. Install!DiskIsMade'
  <2> SUFFICES ASSUME "beside" \notin iExcuse'
               PROVE  /\ \A i, k \in Jobs : Install!HasWritten(i)' /\ Install!HasWritten(k)' => i = k
                      /\ \A k \in Jobs : Install!Made(k)' \subseteq iDisk'[iJob'[k].dev]
    BY DEF Install!DiskIsMade, Jobs
  <2>1. /\ \A i, k \in Jobs : Install!HasWritten(i) /\ Install!HasWritten(k) => i = k
        /\ \A k \in Jobs : Install!Made(k) \subseteq iDisk[iJob[k].dev]
    BY DEF Install!InstallInv, Install!DiskIsMade, Shape, Jobs
  <2>2. \A k \in Jobs : k # j => (Install!HasWritten(k)' <=> Install!HasWritten(k))
    BY DEF Install!HasWritten, Install!Working, Shape, SameJob
  <2>3. ASSUME NEW k \in Jobs, k # j PROVE Install!Made(k)' \subseteq iDisk'[iJob'[k].dev]
    <3>1. SameJob(k) /\ iJob[k] \in JobRecs
      BY <2>3, InstallTypes DEF Shape, Install!InstallInv
    <3>2. Install!Made(k)' = Install!Made(k)
      BY <3>1 DEF SameJob, Install!Made
    <3>3. CASE Install!Made(k) = {}
      BY <3>2, <3>3
    <3>4. CASE Install!Made(k) # {}
      <4>1. Install!HasWritten(k)
        <5>1. Install!Writing(k) \/ (iJob[k].pc = "unbusy" /\ iJob[k].ends = "ready")
          BY <3>4, Zenon DEF Install!Made, Install!Writing
        <5>2. iJob[k].wrote
          BY <5>1 DEF Install!InstallInv, Install!JobIsTrue, Jobs
        <5> QED BY <5>1, <5>2 DEF Install!HasWritten, Install!Working, Install!Writing
      <4>2. ~Install!HasWritten(j)
        BY <2>1, <2>3, <4>1
      <4>3. iJob[k].dev \in Disks /\ iJob'[k].dev = iJob[k].dev
        BY <3>1 DEF JobRecs, SameJob
      <4>4. iDisk'[iJob[k].dev] = iDisk[iJob[k].dev]
        BY <4>2, <4>3
      <4> QED BY <2>1, <3>2, <4>3, <4>4
    <3> QED BY <3>3, <3>4
  <2>4. ASSUME NEW k \in Jobs, k # j, Install!HasWritten(j)', Install!HasWritten(k)' PROVE FALSE
    BY <2>1, <2>2, <2>4
  <2> QED BY <2>2, <2>1, <2>3, <2>4
<1>3. Install!TypeOK' /\ Install!PostIsFirst' /\ Install!PageIsOwn'
  BY ShapeType, ShapePost, ShapePage
<1> QED BY <1>1, <1>2, <1>3 DEF Install!InstallInv, Jobs

\* The flag stays where it is.
LEMMA FlagKept ==
    ASSUME Install!InstallInv, NEW j \in Jobs, Shape(j), busy' = busy,
           Install!Holds(j)' => Install!Holds(j)
    PROVE  Install!FlagIsOne'
<1>1. \A r \in Requests : Install!Holds(r)' => Install!Holds(r)
  BY DEF Install!Holds, Install!Working, Shape, SameJob, Jobs, Install!Jobs
<1> QED BY <1>1 DEF Install!InstallInv, Install!FlagIsOne

\* A job goes on to a phase.
Goes(j, p, a) == [iJob[j] EXCEPT !.pc = p, !.at = a]

\* A job that goes on keeps all but its place.
LEMMA JobGoes ==
    ASSUME iJob \in [Jobs -> JobRecs], NEW j \in Jobs, NEW a \in 0..4,
           NEW p \in {"check", "again", "write", "wait", "copy", "umount", "unbusy", "end"}
    PROVE  LET y == Goes(j, p, a)
           IN  /\ y \in JobRecs /\ y.pc = p /\ y.at = a /\ y.dev = iJob[j].dev
               /\ y.wrote = iJob[j].wrote /\ y.late = iJob[j].late /\ y.copied = iJob[j].copied
               /\ y.touched = iJob[j].touched /\ y.ends = iJob[j].ends
<1> DEFINE z == [iJob[j] EXCEPT !.pc = p]
           y == Goes(j, p, a)
<1>1. /\ z \in JobRecs /\ z.pc = p /\ z.dev = iJob[j].dev /\ z.wrote = iJob[j].wrote
      /\ z.late = iJob[j].late /\ z.copied = iJob[j].copied /\ z.touched = iJob[j].touched
      /\ z.ends = iJob[j].ends
  <2>1. iJob[j] \in JobRecs
    OBVIOUS
  <2> QED BY <2>1 DEF JobRecs
<1>2. y = [z EXCEPT !.at = a]
  BY DEF Goes
<1> HIDE DEF z
<1>3. /\ y \in JobRecs /\ y.pc = p /\ y.at = a /\ y.dev = iJob[j].dev
      /\ y.wrote = iJob[j].wrote /\ y.late = iJob[j].late /\ y.copied = iJob[j].copied
      /\ y.touched = iJob[j].touched /\ y.ends = iJob[j].ends
  <2> HIDE DEF y
  <2> QED BY <1>1, <1>2 DEF JobRecs
<1> QED BY <1>3

\* The record of a job that is over.
LEMMA OverIs ==
    LET x == Install!OverJob
    IN  /\ x \in JobRecs /\ x.pc = "end" /\ x.ends = "none" /\ x.wrote = FALSE
        /\ x.touched = FALSE
<1> DEFINE n == Install!NewJob
<1>1. n \in JobRecs /\ n.ends = "none" /\ n.wrote = FALSE /\ n.touched = FALSE
  BY InstallAssumption DEF Install!NewJob, JobRecs
<1>2. Install!OverJob = [n EXCEPT !.pc = "end"]
  BY DEF Install!OverJob
<1> HIDE DEF n
<1> QED BY <1>1, <1>2 DEF JobRecs

\* The job that Run makes ends at once or holds the flag.
LEMMA InstallRun == ASSUME Install!InstallInv, NEW j \in Jobs, Install!Run(j) PROVE Install!InstallInv'
<1>1. /\ iJob \in [Jobs -> JobRecs] /\ iJob[j] \in JobRecs /\ iJob[j].pc = "start" /\ Stick \in Disks
      /\ busy \in BOOLEAN /\ iDisk \in [Disks -> SUBSET Parts] /\ nodes \subseteq Disks
      /\ mounted \subseteq Disks /\ iFaults \in 0..MaxInstall
      /\ UNCHANGED <<post, iDisk, nodes, mounted, iExcuse, iFaults>>
  BY InstallTypes, InstallAssumption DEF Install!InstallInv, Install!Run
<1>2. Install!JobIsTrue(j)
  BY DEF Install!InstallInv, Jobs
<1>3. CASE j # Terminal /\ busy
  <2>1. iJob' = [iJob EXCEPT ![j] = Install!OverJob] /\ Install!Send(j, j) /\ busy' = busy
    BY <1>3 DEF Install!Run
  <2>2. /\ Install!OverJob \in JobRecs /\ Install!OverJob.pc = "end" /\ Install!OverJob.ends = "none"
        /\ Install!OverJob.wrote = FALSE /\ Install!OverJob.touched = FALSE
    BY OverIs
  <2>3. /\ iJob' \in [Jobs -> JobRecs] /\ iJob'[j] = Install!OverJob
        /\ \A k \in Jobs : k # j => iJob'[k] = iJob[k]
    BY <1>1, <2>1, <2>2, JobSet
  <2>4. Shape(j)
    <3>1. UNCHANGED <<last, page>> \/ (j \in Requests /\ Told(j))
      BY <2>1, ShapeTells
    <3> QED BY <1>1, <2>1, <2>3, <3>1 DEF Shape, SameJob
  <2>5. Install!JobIsTrue(j)'
    BY <2>2, <2>3 DEF Install!JobIsTrue, Install!Writing
  <2>6. Install!FlagIsOne'
    BY <2>1, <2>2, <2>3, <2>4, FlagKept DEF Install!Holds, Install!Working
  <2>7. Install!Made(j)' = {} /\ ~Install!HasWritten(j)'
    BY <2>2, <2>3 DEF Install!Made, Install!HasWritten, Install!Working
  <2> QED BY <1>1, <2>3, <2>4, <2>5, <2>6, <2>7, ShapeStep
<1>4. CASE ~(j # Terminal /\ busy)
  <2> DEFINE x == [iJob[j] EXCEPT !.pc = "check"]
  <2>1. iJob' = [iJob EXCEPT ![j] = x] /\ Install!Send(j, "progress") /\ busy' = (busy \/ j # Terminal)
    BY <1>4 DEF Install!Run, Install!Progress
  <2>2. /\ x \in JobRecs /\ x.pc = "check" /\ x.ends = iJob[j].ends /\ x.wrote = iJob[j].wrote
        /\ x.touched = iJob[j].touched /\ x.dev = iJob[j].dev
    BY <1>1 DEF JobRecs
  <2> HIDE DEF x
  <2>3. /\ iJob' \in [Jobs -> JobRecs] /\ iJob'[j] = x
        /\ \A k \in Jobs : k # j => iJob'[k] = iJob[k]
    BY <1>1, <2>1, <2>2, JobSet
  <2>4. Shape(j)
    <3>1. UNCHANGED <<last, page>> \/ (j \in Requests /\ Told("progress"))
      BY <2>1, ShapeTells
    <3> QED BY <1>1, <2>1, <2>3, <3>1 DEF Shape, SameJob
  <2>5. Install!JobIsTrue(j)'
    BY <1>1, <1>2, <2>2, <2>3 DEF Install!JobIsTrue, Install!Writing
  <2>6. Install!FlagIsOne'
    <3>1. Install!FlagIsOne
      BY DEF Install!InstallInv
    <3>2. \A r \in Requests : r # j => (Install!Holds(r)' <=> Install!Holds(r))
      BY <2>3 DEF Install!Holds, Install!Working, Jobs, Install!Jobs
    <3>3. CASE j \in Requests
      <4>1. busy = FALSE /\ busy' = TRUE
        BY <1>1, <1>4, <2>1, <3>3, InstallAssumption
      <4>2. \A r \in Requests : ~Install!Holds(r)
        BY <3>1, <4>1 DEF Install!FlagIsOne
      <4>3. \A r \in Requests : Install!Holds(r)' => r = j
        BY <3>2, <4>2
      <4> QED BY <4>1, <4>3 DEF Install!FlagIsOne
    <3>4. CASE j = Terminal
      <4>1. busy' = busy /\ j \notin Requests
        BY <1>1, <2>1, <3>4, InstallAssumption
      <4>2. \A r \in Requests : Install!Holds(r)' <=> Install!Holds(r)
        BY <3>2, <4>1
      <4> QED BY <3>1, <4>1, <4>2 DEF Install!FlagIsOne
    <3> QED BY <3>3, <3>4 DEF Jobs, Install!Jobs
  <2>7. Install!Made(j)' = {} /\ (Install!HasWritten(j)' => Install!HasWritten(j))
    BY <1>1, <2>2, <2>3 DEF Install!Made, Install!HasWritten, Install!Working
  <2> QED BY <1>1, <2>3, <2>4, <2>5, <2>6, <2>7, ShapeStep
<1> QED BY <1>3, <1>4

\* The job ends, and the flag of the daemon goes back.
LEMMA InstallUnbusy ==
    ASSUME Install!InstallInv, NEW j \in Jobs, Install!Unbusy(j) PROVE Install!InstallInv'
<1>1. /\ iJob \in [Jobs -> JobRecs] /\ iJob[j].pc = "unbusy" /\ Stick \in Disks
      /\ busy \in BOOLEAN /\ iDisk \in [Disks -> SUBSET Parts] /\ nodes \subseteq Disks
      /\ mounted \subseteq Disks /\ iFaults \in 0..MaxInstall
      /\ UNCHANGED <<post, iDisk, nodes, mounted, last, page, iExcuse, iFaults>>
  BY InstallTypes, InstallAssumption DEF Install!InstallInv, Install!Unbusy
<1>2. iJob' = [iJob EXCEPT ![j] = Install!OverJob] /\ busy' = (busy /\ j = Terminal)
  BY DEF Install!Unbusy
<1>3. /\ Install!OverJob \in JobRecs /\ Install!OverJob.pc = "end" /\ Install!OverJob.ends = "none"
      /\ Install!OverJob.wrote = FALSE /\ Install!OverJob.touched = FALSE
  BY OverIs
<1>4. /\ iJob' \in [Jobs -> JobRecs] /\ iJob'[j] = Install!OverJob
      /\ \A k \in Jobs : k # j => iJob'[k] = iJob[k]
  BY <1>1, <1>2, <1>3, JobSet
<1>5. Shape(j)
  BY <1>1, <1>2, <1>4 DEF Shape, SameJob
<1>6. Install!JobIsTrue(j)'
  BY <1>3, <1>4 DEF Install!JobIsTrue, Install!Writing
<1>7. Install!FlagIsOne'
  <2>1. Install!FlagIsOne
    BY DEF Install!InstallInv
  <2>2. \A r \in Requests : Install!Holds(r)' => Install!Holds(r) /\ r # j
    BY <1>3, <1>4 DEF Install!Holds, Install!Working, Jobs, Install!Jobs
  <2>3. CASE j = Terminal
    BY <1>1, <1>2, <2>1, <2>2, <2>3 DEF Install!FlagIsOne
  <2>4. CASE j \in Requests
    <3>1. Install!Holds(j)
      BY <1>1 DEF Install!Holds, Install!Working
    <3>2. \A r \in Requests : ~Install!Holds(r)'
      BY <2>1, <2>2, <2>4, <3>1 DEF Install!FlagIsOne
    <3> QED BY <3>2 DEF Install!FlagIsOne
  <2> QED BY <2>3, <2>4 DEF Jobs, Install!Jobs
<1>8. Install!Made(j)' = {} /\ ~Install!HasWritten(j)'
  BY <1>3, <1>4 DEF Install!Made, Install!HasWritten, Install!Working
<1> QED BY <1>1, <1>4, <1>5, <1>6, <1>7, <1>8, ShapeStep

\* The record of a job that ended.
LEMMA EndedIs ==
    ASSUME NEW j \in Jobs, iJob \in [Jobs -> JobRecs], NEW ok \in BOOLEAN
    PROVE  LET x == Install!Ended(j, ok)
           IN  /\ x \in JobRecs /\ x.pc = "unbusy" /\ x.dev = iJob[j].dev
               /\ x.wrote = iJob[j].wrote /\ x.touched = iJob[j].touched
               /\ x.ends = IF ok THEN "ready" ELSE IF iJob[j].wrote THEN "stopped" ELSE "refused"
<1>1. iJob[j] \in JobRecs
  OBVIOUS
<1> QED BY <1>1 DEF Install!Ended, JobRecs

\* The two looks: what the second lets through is no disk in use, and not the disk
\* that the system runs from.
LEMMA InstallLook == ASSUME Install!InstallInv, NEW j \in Jobs, Install!Look(j) PROVE Install!InstallInv'
<1>1. /\ iJob \in [Jobs -> JobRecs] /\ iJob[j] \in JobRecs /\ iJob[j].pc \in {"check", "again"}
      /\ busy \in BOOLEAN /\ iDisk \in [Disks -> SUBSET Parts] /\ nodes \subseteq Disks
      /\ mounted \subseteq Disks /\ iFaults \in 0..MaxInstall
      /\ UNCHANGED <<post, busy, iDisk, nodes, mounted, iFaults>>
      /\ iExcuse' \in {iExcuse, iExcuse \cup {"beside"}}
  BY InstallTypes DEF Install!InstallInv, Install!Look
<1>2. Install!JobIsTrue(j) /\ Install!Holds(j)
  BY <1>1 DEF Install!InstallInv, Jobs, Install!Holds, Install!Working
<1>3. CASE ~Install!Check(iJob[j].dev)
  <2> DEFINE x == Install!Ended(j, FALSE)
  <2>1. iJob' = [iJob EXCEPT ![j] = x] /\ Install!Send(j, j)
    BY <1>3 DEF Install!Look, Install!Done
  <2>2. /\ x \in JobRecs /\ x.pc = "unbusy" /\ x.wrote = iJob[j].wrote /\ x.touched = iJob[j].touched
        /\ x.ends = IF iJob[j].wrote THEN "stopped" ELSE "refused"
    BY <1>1, EndedIs
  <2> HIDE DEF x
  <2>3. /\ iJob' \in [Jobs -> JobRecs] /\ iJob'[j] = x
        /\ \A k \in Jobs : k # j => iJob'[k] = iJob[k]
    BY <1>1, <2>1, <2>2, JobSet
  <2>4. Shape(j)
    <3>1. UNCHANGED <<last, page>> \/ (j \in Requests /\ Told(j))
      BY <2>1, ShapeTells
    <3> QED BY <1>1, <2>1, <2>3, <3>1 DEF Shape, SameJob
  <2>5. Install!JobIsTrue(j)'
    BY <1>2, <2>2, <2>3 DEF Install!JobIsTrue, Install!Writing
  <2>6. Install!FlagIsOne'
    BY <1>1, <1>2, <2>4, FlagKept
  <2>7. Install!Made(j)' = {} /\ (Install!HasWritten(j)' => Install!HasWritten(j))
    BY <1>1, <2>2, <2>3 DEF Install!Made, Install!HasWritten, Install!Working
  <2> QED BY <1>1, <2>3, <2>4, <2>5, <2>6, <2>7, ShapeStep
<1>4. CASE Install!Check(iJob[j].dev) /\ iJob[j].pc = "check"
  <2> DEFINE x == [iJob[j] EXCEPT !.pc = "again"]
  <2>1. iJob' = [iJob EXCEPT ![j] = x] /\ Install!Send(j, "progress")
    BY <1>4 DEF Install!Look, Install!Progress
  <2>2. /\ x \in JobRecs /\ x.pc = "again" /\ x.ends = iJob[j].ends /\ x.wrote = iJob[j].wrote
        /\ x.touched = iJob[j].touched /\ x.dev = iJob[j].dev
    BY <1>1 DEF JobRecs
  <2> HIDE DEF x
  <2>3. /\ iJob' \in [Jobs -> JobRecs] /\ iJob'[j] = x
        /\ \A k \in Jobs : k # j => iJob'[k] = iJob[k]
    BY <1>1, <2>1, <2>2, JobSet
  <2>4. Shape(j)
    <3>1. UNCHANGED <<last, page>> \/ (j \in Requests /\ Told("progress"))
      BY <2>1, ShapeTells
    <3> QED BY <1>1, <2>1, <2>3, <3>1 DEF Shape, SameJob
  <2>5. Install!JobIsTrue(j)'
    BY <1>1, <1>2, <2>2, <2>3 DEF Install!JobIsTrue, Install!Writing
  <2>6. Install!FlagIsOne'
    BY <1>1, <1>2, <2>4, FlagKept
  <2>7. Install!Made(j)' = {} /\ (Install!HasWritten(j)' => Install!HasWritten(j))
    BY <1>1, <2>2, <2>3 DEF Install!Made, Install!HasWritten, Install!Working
  <2> QED BY <1>1, <2>3, <2>4, <2>5, <2>6, <2>7, ShapeStep
<1>5. CASE Install!Check(iJob[j].dev) /\ iJob[j].pc = "again"
  <2> DEFINE x == [iJob[j] EXCEPT !.pc = "write", !.at = 1, !.wrote = TRUE]
  <2>1. iJob' = [iJob EXCEPT ![j] = x] /\ Install!Send(j, "progress")
    <3>1. iJob' = [iJob EXCEPT ![j].pc = "write", ![j].at = 1, ![j].wrote = TRUE]
      BY <1>5 DEF Install!Look
    <3>2. [iJob EXCEPT ![j].pc = "write", ![j].at = 1, ![j].wrote = TRUE] = [iJob EXCEPT ![j] = x]
      BY <1>1
    <3> QED BY <1>5, <3>1, <3>2 DEF Install!Look, Install!Progress
  <2>2. /\ x \in JobRecs /\ x.pc = "write" /\ x.ends = iJob[j].ends /\ x.wrote /\ x.at = 1
        /\ x.dev = iJob[j].dev
    <3> DEFINE y == Goes(j, "write", 1)
    <3>1. /\ y \in JobRecs /\ y.pc = "write" /\ y.ends = iJob[j].ends /\ y.at = 1
          /\ y.dev = iJob[j].dev
      <4>1. 1 \in 0..4
        OBVIOUS
      <4> QED BY <1>1, <4>1, JobGoes
    <3>2. x = [y EXCEPT !.wrote = TRUE]
      BY DEF Goes
    <3> HIDE DEF x, y
    <3> QED BY <3>1, <3>2 DEF JobRecs
  <2> HIDE DEF x
  <2>3. /\ iJob' \in [Jobs -> JobRecs] /\ iJob'[j] = x
        /\ \A k \in Jobs : k # j => iJob'[k] = iJob[k]
    BY <1>1, <2>1, <2>2, JobSet
  <2>4. Shape(j)
    <3>1. UNCHANGED <<last, page>> \/ (j \in Requests /\ Told("progress"))
      BY <2>1, ShapeTells
    <3> QED BY <1>1, <2>1, <2>3, <3>1 DEF Shape, SameJob
  <2>5. Install!JobIsTrue(j)'
    <3>1. iJob[j].dev # Stick /\ iJob[j].dev \notin mounted
      BY <1>5 DEF Install!Check, Install!Source, Install!InUse
    <3>2. x.ends = "none"
      BY <1>1, <1>2, <2>2 DEF Install!JobIsTrue
    <3> QED BY <1>1, <2>2, <2>3, <3>1, <3>2 DEF Install!JobIsTrue, Install!Writing
  <2>6. Install!FlagIsOne'
    BY <1>1, <1>2, <2>4, FlagKept
  <2>7. Install!Made(j)' = {}
    BY <2>2, <2>3 DEF Install!Made
  <2>8. "beside" \in iExcuse' \/ \A k \in Jobs : k # j => ~Install!HasWritten(k)
    <3> SUFFICES ASSUME NEW k \in Jobs, k # j, Install!HasWritten(k) PROVE "beside" \in iExcuse'
      OBVIOUS
    <3>1. Install!Working(k) /\ (k \in Requests => Install!Holds(k))
      <4>1. Install!JobIsTrue(k)
        BY DEF Install!InstallInv, Jobs
      <4>2. iJob[k].pc # "start"
        BY <4>1 DEF Install!HasWritten, Install!JobIsTrue, Install!Writing
      <4> QED BY <4>2 DEF Install!HasWritten, Install!Holds
    <3>2. Terminal \in {j, k}
      <4>1. ASSUME j \in Requests, k \in Requests PROVE FALSE
        BY <1>2, <3>1, <4>1 DEF Install!InstallInv, Install!FlagIsOne
      <4> QED BY <4>1 DEF Jobs, Install!Jobs
    <3>3. iJob'[j].pc = "write"
      BY <2>2, <2>3
    <3> QED BY <3>1, <3>2, <3>3 DEF Install!Look, Jobs
  <2> QED BY <1>1, <2>3, <2>4, <2>5, <2>6, <2>7, <2>8, ShapeStep
<1> QED BY <1>1, <1>3, <1>4, <1>5

\* A wait that is over, and a copy: what is on the disk so far stays there.
LEMMA InstallWait ==
    ASSUME Install!InstallInv, NEW j \in Jobs, Install!waitForPartitions(j) PROVE Install!InstallInv'
<1>1. /\ iJob \in [Jobs -> JobRecs] /\ iJob[j] \in JobRecs /\ iJob[j].pc = "wait"
      /\ busy \in BOOLEAN /\ iDisk \in [Disks -> SUBSET Parts] /\ nodes \subseteq Disks
      /\ mounted \subseteq Disks /\ iFaults \in 0..MaxInstall
      /\ UNCHANGED <<post, busy, iDisk, nodes, mounted, last, page, iExcuse, iFaults>>
  BY InstallTypes DEF Install!InstallInv, Install!waitForPartitions
<1>2. Install!JobIsTrue(j) /\ Install!Holds(j) /\ Install!Writing(j)
  BY <1>1 DEF Install!InstallInv, Jobs, Install!Holds, Install!Working, Install!Writing
<1> DEFINE x == Goes(j, "write", 2)
<1>3. iJob' = [iJob EXCEPT ![j] = x]
  <2>1. iJob' = [iJob EXCEPT ![j].pc = "write", ![j].at = 2]
    BY DEF Install!waitForPartitions
  <2> QED BY <1>1, <2>1 DEF Goes
<1>4. /\ x \in JobRecs /\ x.pc = "write" /\ x.at = 2 /\ x.dev = iJob[j].dev /\ x.wrote = iJob[j].wrote
      /\ x.late = iJob[j].late /\ x.copied = iJob[j].copied /\ x.touched = iJob[j].touched
      /\ x.ends = iJob[j].ends
  <2>1. 2 \in 0..4
    OBVIOUS
  <2> QED BY <1>1, <2>1, JobGoes
<1> HIDE DEF x
<1>5. /\ iJob' \in [Jobs -> JobRecs] /\ iJob'[j] = x
      /\ \A k \in Jobs : k # j => iJob'[k] = iJob[k]
  BY <1>1, <1>3, <1>4, JobSet
<1>6. Shape(j)
  BY <1>1, <1>5 DEF Shape, SameJob
<1>7. Install!JobIsTrue(j)'
  BY <1>1, <1>2, <1>4, <1>5 DEF Install!JobIsTrue, Install!Writing
<1>8. Install!FlagIsOne'
  BY <1>1, <1>2, <1>6, FlagKept
<1>9. Install!HasWritten(j)
  BY <1>1, <1>2 DEF Install!HasWritten, Install!Working, Install!JobIsTrue
<1>10. "beside" \notin iExcuse' => Install!Made(j)' \subseteq iDisk'[iJob'[j].dev]
  <2>1. Install!Made(j)' = {"table"} /\ Install!Made(j) = {"table"}
    BY <1>1, <1>4, <1>5 DEF Install!Made
  <2> QED BY <1>1, <1>4, <1>5, <2>1 DEF Install!InstallInv, Install!DiskIsMade, Jobs
<1> QED BY <1>1, <1>5, <1>6, <1>7, <1>8, <1>9, <1>10, ShapeStep

\* A phase that writes: each adds its part to the parts of the phases before it.
LEMMA InstallPhase ==
    ASSUME Install!InstallInv, NEW j \in Jobs, Install!WritePhase(j) PROVE Install!InstallInv'
<1>1. /\ iJob \in [Jobs -> JobRecs] /\ iJob[j] \in JobRecs /\ iJob[j].pc = "write"
      /\ busy \in BOOLEAN /\ iDisk \in [Disks -> SUBSET Parts] /\ nodes \subseteq Disks
      /\ mounted \subseteq Disks /\ iFaults \in 0..MaxInstall
      /\ UNCHANGED <<post, busy, mounted, iExcuse, iFaults>>
  BY InstallTypes DEF Install!InstallInv, Install!WritePhase
<1>2. Install!JobIsTrue(j) /\ Install!Holds(j) /\ Install!Writing(j)
  BY <1>1 DEF Install!InstallInv, Jobs, Install!Holds, Install!Working, Install!Writing
<1>3. Install!HasWritten(j)
  BY <1>1, <1>2 DEF Install!HasWritten, Install!Working, Install!JobIsTrue
<1>4. /\ iJob[j].at \in {1, 2, 4} /\ iJob[j].wrote /\ iJob[j].dev # Stick /\ iJob[j].ends = "none"
      /\ iJob[j].at < 4 /\ iJob[j].dev \in mounted => iJob[j].late
  BY <1>1, <1>2 DEF Install!JobIsTrue
<1> DEFINE d == iJob[j].dev
<1>5. d \in Disks /\ ("beside" \notin iExcuse => Install!Made(j) \subseteq iDisk[d])
  BY <1>1 DEF JobRecs, Install!InstallInv, Install!DiskIsMade, Jobs
<1>6. ASSUME NEW x \in JobRecs, iJob' = [iJob EXCEPT ![j] = x],
             NEW D \in SUBSET Parts, iDisk' = [iDisk EXCEPT ![d] = D], nodes' \subseteq Disks,
             \E e \in {j, "progress"} : Install!Send(j, e),
             x.pc # "none", x.pc # "start",
             x.dev = d, x.wrote = iJob[j].wrote,
             x.pc = "write" => x.at \in {1, 2, 4},
             x.ends = "refused" => ~x.wrote,
             x.ends = "none" \/ x.pc = "unbusy",
             x.pc \in {"wait", "copy", "unbusy"},
             x.pc = "wait" => iJob[j].at < 4 /\ x.late = iJob[j].late,
             "beside" \notin iExcuse' => Install!Made(j)' \subseteq iDisk'[iJob'[j].dev]
      PROVE  Install!InstallInv'
  <2>1. /\ iJob' \in [Jobs -> JobRecs] /\ iJob'[j] = x
        /\ \A k \in Jobs : k # j => iJob'[k] = iJob[k]
    BY <1>1, <1>6, JobSet
  <2>2. Shape(j)
    <3>1. UNCHANGED <<last, page>> \/ (j \in Requests /\ \E e \in {j, "progress"} : Told(e))
      BY <1>6, ShapeTells
    <3>2. iDisk' \in [Disks -> SUBSET Parts]
      BY <1>1, <1>6
    <3> QED BY <1>1, <1>6, <2>1, <3>1, <3>2 DEF Shape, SameJob
  <2>3. Install!JobIsTrue(j)'
    BY <1>1, <1>4, <1>6, <2>1 DEF Install!JobIsTrue, Install!Writing
  <2>4. Install!FlagIsOne'
    BY <1>1, <1>2, <2>2, FlagKept
  <2>5. \A k \in Disks : iDisk'[k] # iDisk[k] => k = iJob[j].dev /\ Install!HasWritten(j)
    BY <1>1, <1>3, <1>6
  <2> QED BY <1>1, <1>3, <1>6, <2>1, <2>2, <2>3, <2>4, <2>5, ShapeStep
<1>7. CASE iJob[j].at = 1
  <2> DEFINE x == [iJob[j] EXCEPT !.pc = "wait", !.touched = TRUE]
  <2>1. /\ iDisk' = [iDisk EXCEPT ![d] = {"table"}] /\ nodes' \subseteq Disks
        /\ iJob' = [iJob EXCEPT ![j] = x] /\ Install!Send(j, "progress")
    BY <1>1, <1>7 DEF Install!WritePhase, Install!writeTable, Install!After, Install!Progress
  <2>2. /\ x \in JobRecs /\ x.pc = "wait" /\ x.dev = d /\ x.wrote = iJob[j].wrote /\ x.late = iJob[j].late
        /\ x.ends = iJob[j].ends
    BY <1>1 DEF JobRecs
  <2> HIDE DEF x
  <2>3. iJob'[j] = x
    BY <1>1, <2>1
  <2>4. Install!Made(j)' \subseteq iDisk'[iJob'[j].dev]
    BY <1>1, <1>5, <2>1, <2>2, <2>3 DEF Install!Made
  <2> HIDE DEF d
  <2>5. {"table"} \in SUBSET Parts
    BY DEF Parts
  <2>6. iJob[j].at < 4 /\ x.ends = "none"
    BY <1>4, <1>7, <2>2
  <2>7. \E e \in {j, "progress"} : Install!Send(j, e)
    BY <2>1
  <2> QED BY <1>6, <2>1, <2>2, <2>4, <2>5, <2>6, <2>7
<1>8. CASE iJob[j].at = 2
  <2> DEFINE x == Goes(j, "copy", 3)
             D == iDisk[d] \cup {"parts"}
  <2>1. /\ iDisk' = [iDisk EXCEPT ![d] = D] /\ nodes' \subseteq Disks
        /\ iJob' = [iJob EXCEPT ![j] = x] /\ Install!Send(j, "progress")
    BY <1>1, <1>8 DEF Install!WritePhase, Install!clone, Install!After, Install!Progress, Goes
  <2>2. /\ x \in JobRecs /\ x.pc = "copy" /\ x.dev = d /\ x.wrote = iJob[j].wrote /\ x.late = iJob[j].late
        /\ x.ends = iJob[j].ends
    <3>1. 3 \in 0..4
      OBVIOUS
    <3> QED BY <1>1, <3>1, JobGoes
  <2> HIDE DEF x
  <2>3. iJob'[j] = x
    BY <1>1, <2>1
  <2>4. "beside" \notin iExcuse' => Install!Made(j)' \subseteq iDisk'[iJob'[j].dev]
    <3>1. Install!Made(j) = {"table"}
      BY <1>1, <1>8 DEF Install!Made
    <3>2. Install!Made(j)' = {"table", "parts"}
      BY <2>2, <2>3 DEF Install!Made
    <3>3. iDisk'[iJob'[j].dev] = D
      BY <1>1, <1>5, <2>1, <2>2, <2>3
    <3> QED BY <1>1, <1>5, <3>1, <3>2, <3>3
  <2>5. D \in SUBSET Parts
    BY <1>1, <1>5 DEF Parts
  <2> HIDE DEF d, D
  <2> QED BY <1>4, <1>6, <2>1, <2>2, <2>4, <2>5
<1>9. CASE iJob[j].at = 4
  <2> DEFINE x == Install!Ended(j, TRUE)
             D == iDisk[d] \cup {"code"}
  <2>1. /\ iDisk' = [iDisk EXCEPT ![d] = D] /\ nodes' \subseteq Disks
        /\ iJob' = [iJob EXCEPT ![j] = x] /\ Install!Send(j, j)
    BY <1>1, <1>9 DEF Install!WritePhase, Install!writeBootCode, Install!Done
  <2>2. /\ x \in JobRecs /\ x.pc = "unbusy" /\ x.dev = d /\ x.wrote = iJob[j].wrote /\ x.ends = "ready"
    BY <1>1, EndedIs
  <2> HIDE DEF x
  <2>3. iJob'[j] = x
    BY <1>1, <2>1
  <2>4. "beside" \notin iExcuse' => Install!Made(j)' \subseteq iDisk'[iJob'[j].dev]
    <3>1. Install!Made(j) = {"table", "parts", "files"}
      BY <1>1, <1>9 DEF Install!Made
    <3>2. Install!Made(j)' = Parts
      BY <2>2, <2>3, PartsAre, Zenon DEF Install!Made
    <3>3. iDisk'[iJob'[j].dev] = D
      BY <1>1, <1>5, <2>1, <2>2, <2>3
    <3> QED BY <1>1, <1>5, <3>1, <3>2, <3>3 DEF Parts
  <2>5. D \in SUBSET Parts
    BY <1>1, <1>5 DEF Parts
  <2> HIDE DEF d, D
  <2> QED BY <1>4, <1>6, <2>1, <2>2, <2>4, <2>5
<1> QED BY <1>4, <1>7, <1>8, <1>9

\* A mount that the writing jobs of a disk see.
LEMMA SurprisedIs ==
    ASSUME iJob \in [Jobs -> JobRecs], NEW d, NEW S
    PROVE  LET q == Install!Surprised(d, S)
           IN  /\ q \in [Jobs -> JobRecs]
               /\ \A k \in Jobs :
                    /\ q[k].pc = iJob[k].pc /\ q[k].dev = iJob[k].dev /\ q[k].at = iJob[k].at
                    /\ q[k].wrote = iJob[k].wrote /\ q[k].copied = iJob[k].copied
                    /\ q[k].touched = iJob[k].touched /\ q[k].ends = iJob[k].ends
                    /\ iJob[k].late => q[k].late
                    /\ k \notin S => q[k] = iJob[k]
                    /\ k \in S /\ Install!Writing(k) /\ iJob[k].dev = d => q[k].late
<1> DEFINE q == Install!Surprised(d, S)
<1>1. q = [k \in Jobs |-> IF k \in S /\ Install!Writing(k) /\ iJob[k].dev = d
                          THEN [iJob[k] EXCEPT !.late = TRUE] ELSE iJob[k]]
  BY DEF Install!Surprised, Jobs
<1> HIDE DEF q
<1>2. ASSUME NEW k \in Jobs
      PROVE  /\ q[k] \in JobRecs
             /\ q[k].pc = iJob[k].pc /\ q[k].dev = iJob[k].dev /\ q[k].at = iJob[k].at
             /\ q[k].wrote = iJob[k].wrote /\ q[k].copied = iJob[k].copied
             /\ q[k].touched = iJob[k].touched /\ q[k].ends = iJob[k].ends
             /\ iJob[k].late => q[k].late
             /\ k \notin S => q[k] = iJob[k]
             /\ k \in S /\ Install!Writing(k) /\ iJob[k].dev = d => q[k].late
  <2>1. iJob[k] \in JobRecs
    OBVIOUS
  <2> DEFINE y == [iJob[k] EXCEPT !.late = TRUE]
  <2>2. /\ y \in JobRecs /\ y.late = TRUE
        /\ y.pc = iJob[k].pc /\ y.dev = iJob[k].dev /\ y.at = iJob[k].at
        /\ y.wrote = iJob[k].wrote /\ y.copied = iJob[k].copied
        /\ y.touched = iJob[k].touched /\ y.ends = iJob[k].ends
    BY <2>1 DEF JobRecs
  <2>3. q[k] = IF k \in S /\ Install!Writing(k) /\ iJob[k].dev = d THEN y ELSE iJob[k]
    BY <1>1
  <2> HIDE DEF y
  <2>4. CASE k \in S /\ Install!Writing(k) /\ iJob[k].dev = d
    <3>1. q[k] = y
      BY <2>3, <2>4
    <3> QED BY <2>2, <2>4, <3>1
  <2>5. CASE ~(k \in S /\ Install!Writing(k) /\ iJob[k].dev = d)
    <3>1. q[k] = iJob[k]
      BY <2>3, <2>5
    <3> QED BY <2>1, <2>5, <3>1
  <2> QED BY <2>4, <2>5
<1>3. q \in [Jobs -> JobRecs]
  BY <1>1, <1>2
<1> QED BY <1>2, <1>3 DEF q

\* The copy mounts the disk: who else writes it sees that.
LEMMA InstallCopy == ASSUME Install!InstallInv, NEW j \in Jobs, Install!copyMedia(j) PROVE Install!InstallInv'
<1> DEFINE d == iJob[j].dev
           q == Install!Surprised(d, Jobs \ {j})
<1>1. /\ iJob \in [Jobs -> JobRecs] /\ iJob[j] \in JobRecs /\ iJob[j].pc = "copy"
      /\ busy \in BOOLEAN /\ iDisk \in [Disks -> SUBSET Parts] /\ nodes \subseteq Disks
      /\ mounted \subseteq Disks /\ iFaults \in 0..MaxInstall /\ d \in Disks
      /\ UNCHANGED <<post, busy, nodes, last, page, iExcuse>> /\ mounted' = mounted \cup {d}
  BY InstallTypes DEF Install!InstallInv, Install!copyMedia, JobRecs
<1>2. Install!JobIsTrue(j) /\ Install!Holds(j) /\ Install!Writing(j)
  BY <1>1 DEF Install!InstallInv, Jobs, Install!Holds, Install!Working, Install!Writing
<1>3. Install!HasWritten(j)
  BY <1>1, <1>2 DEF Install!HasWritten, Install!Working, Install!JobIsTrue
<1>4. iJob[j].wrote /\ d # Stick /\ iJob[j].ends = "none"
  BY <1>1, <1>2 DEF Install!JobIsTrue
<1>5. PICK ok \in BOOLEAN :
        /\ IF ok THEN UNCHANGED iFaults ELSE Install!Fault("io")
        /\ iDisk' = IF ok THEN [iDisk EXCEPT ![d] = @ \cup {"files"}] ELSE iDisk
        /\ iJob' = [q EXCEPT ![j].pc = "umount", ![j].copied = ok]
  BY DEF Install!copyMedia, Install!copyTree, Jobs
<1>6. /\ q \in [Jobs -> JobRecs] /\ q[j] = iJob[j]
      /\ \A k \in Jobs :
            /\ q[k].pc = iJob[k].pc /\ q[k].dev = iJob[k].dev /\ q[k].at = iJob[k].at
            /\ q[k].wrote = iJob[k].wrote /\ q[k].copied = iJob[k].copied
            /\ q[k].touched = iJob[k].touched /\ q[k].ends = iJob[k].ends
            /\ iJob[k].late => q[k].late
            /\ k # j /\ Install!Writing(k) /\ iJob[k].dev = d => q[k].late
  BY <1>1, SurprisedIs
<1> HIDE DEF q
<1> DEFINE x == [iJob[j] EXCEPT !.pc = "umount", !.copied = ok]
<1>7. iJob' = [q EXCEPT ![j] = x]
  BY <1>1, <1>5, <1>6
<1>8. /\ x \in JobRecs /\ x.pc = "umount" /\ x.copied = ok /\ x.dev = d /\ x.wrote = iJob[j].wrote
      /\ x.touched = iJob[j].touched /\ x.ends = iJob[j].ends
  BY <1>1 DEF JobRecs
<1> HIDE DEF x
<1>9. /\ iJob' \in [Jobs -> JobRecs] /\ iJob'[j] = x
      /\ \A k \in Jobs : k # j => iJob'[k] = q[k]
  BY <1>6, <1>7, <1>8
<1>10. iDisk' \in [Disks -> SUBSET Parts] /\ \A k \in Disks : iDisk'[k] # iDisk[k] => k = d
  BY <1>1, <1>5 DEF Parts
<1>11. Shape(j)
  <2>1. \A k \in Jobs : k # j => SameJob(k)
    BY <1>6, <1>9 DEF SameJob
  <2>2. iFaults' \in 0..MaxInstall
    BY <1>1, <1>5, InstallCount
  <2> QED BY <1>1, <1>9, <1>10, <2>1, <2>2 DEF Shape
<1>12. Install!JobIsTrue(j)'
  BY <1>2, <1>4, <1>8, <1>9 DEF Install!JobIsTrue, Install!Writing
<1>13. Install!FlagIsOne'
  BY <1>1, <1>2, <1>11, FlagKept
<1>14. ASSUME NEW k \in Jobs, k # j, Install!Writing(k), iJob[k].dev \in mounted'
       PROVE  iJob[k].dev \in mounted \/ iJob'[k].late
  BY <1>1, <1>6, <1>9, <1>14
<1>15. "beside" \notin iExcuse' => Install!Made(j)' \subseteq iDisk'[iJob'[j].dev]
  <2>1. Install!Made(j) = {"table", "parts"}
    BY <1>1 DEF Install!Made
  <2>2. "beside" \notin iExcuse => Install!Made(j) \subseteq iDisk[d]
    BY DEF Install!InstallInv, Install!DiskIsMade, Jobs
  <2>3. CASE ok = TRUE
    <3>1. Install!Made(j)' = {"table", "parts", "files"}
      BY <1>8, <1>9, <2>3 DEF Install!Made
    <3>2. iDisk'[iJob'[j].dev] = iDisk[d] \cup {"files"}
      BY <1>1, <1>5, <1>8, <1>9, <2>3
    <3> QED BY <1>1, <2>1, <2>2, <3>1, <3>2
  <2>4. CASE ok = FALSE
    BY <1>8, <1>9, <2>4 DEF Install!Made
  <2> QED BY <2>3, <2>4
<1> QED BY <1>1, <1>3, <1>10, <1>11, <1>12, <1>13, <1>14, <1>15, ShapeStep

\* A job that wrote ends with an error: it says so, and nothing of the disk.
LEMMA InstallStops ==
    ASSUME Install!InstallInv, NEW j \in Jobs, Install!Writing(j), Install!Send(j, j),
           NEW touched \in BOOLEAN,
           iJob' = [iJob EXCEPT ![j] = [Install!Ended(j, FALSE) EXCEPT !.touched = touched]],
           NEW D \in SUBSET Parts, iDisk' = [iDisk EXCEPT ![iJob[j].dev] = D],
           mounted' \subseteq mounted, iFaults' \in 0..MaxInstall,
           UNCHANGED <<post, busy, nodes, iExcuse>>
    PROVE  Install!InstallInv'
<1>1. /\ iJob \in [Jobs -> JobRecs] /\ iJob[j] \in JobRecs /\ iJob[j].pc \in {"write", "wait", "copy", "umount"}
      /\ busy \in BOOLEAN /\ iDisk \in [Disks -> SUBSET Parts] /\ nodes \subseteq Disks
      /\ mounted \subseteq Disks /\ iJob[j].dev \in Disks
  BY InstallTypes DEF Install!InstallInv, Install!Writing, JobRecs
<1>2. Install!JobIsTrue(j) /\ Install!Holds(j)
  BY <1>1 DEF Install!InstallInv, Jobs, Install!Holds, Install!Working
<1>3. iJob[j].wrote
  BY <1>2 DEF Install!JobIsTrue
<1>4. Install!HasWritten(j)
  BY <1>1, <1>3 DEF Install!HasWritten, Install!Working
<1> DEFINE y == Install!Ended(j, FALSE)
           x == [y EXCEPT !.touched = touched]
<1>5. y \in JobRecs /\ y.pc = "unbusy" /\ y.wrote = iJob[j].wrote /\ y.ends = "stopped"
  BY <1>1, <1>3, EndedIs
<1>6. iJob' = [iJob EXCEPT ![j] = x]
  OBVIOUS
<1>7. x \in JobRecs /\ x.pc = "unbusy" /\ x.wrote = iJob[j].wrote /\ x.ends = "stopped"
  <2> HIDE DEF y
  <2> QED BY <1>5 DEF JobRecs
<1> HIDE DEF x, y
<1>8. /\ iJob' \in [Jobs -> JobRecs] /\ iJob'[j] = x
      /\ \A k \in Jobs : k # j => iJob'[k] = iJob[k]
  BY <1>1, <1>6, <1>7, JobSet
<1>9. iDisk' \in [Disks -> SUBSET Parts] /\ \A k \in Disks : iDisk'[k] # iDisk[k] => k = iJob[j].dev
  BY <1>1
<1>10. Shape(j)
  <2>1. UNCHANGED <<last, page>> \/ (j \in Requests /\ Told(j))
    BY ShapeTells
  <2> QED BY <1>1, <1>8, <1>9, <2>1 DEF Shape, SameJob
<1>11. Install!JobIsTrue(j)'
  BY <1>3, <1>7, <1>8 DEF Install!JobIsTrue, Install!Writing
<1>12. Install!FlagIsOne'
  BY <1>1, <1>2, <1>10, FlagKept
<1>13. Install!Made(j)' = {}
  BY <1>7, <1>8 DEF Install!Made
<1> QED BY <1>4, <1>8, <1>9, <1>10, <1>11, <1>12, <1>13, ShapeStep

\* The umount, after a copy that came through or that did not.
LEMMA InstallUmount == ASSUME Install!InstallInv, NEW j \in Jobs, Install!umount(j) PROVE Install!InstallInv'
<1>1. /\ iJob \in [Jobs -> JobRecs] /\ iJob[j] \in JobRecs /\ iJob[j].pc = "umount"
      /\ busy \in BOOLEAN /\ iDisk \in [Disks -> SUBSET Parts] /\ nodes \subseteq Disks
      /\ mounted \subseteq Disks /\ iFaults \in 0..MaxInstall /\ iJob[j].dev \in Disks
      /\ UNCHANGED <<post, busy, iDisk, nodes, iExcuse>> /\ mounted' \subseteq mounted
  BY InstallTypes DEF Install!InstallInv, Install!umount, JobRecs
<1>2. Install!JobIsTrue(j) /\ Install!Holds(j) /\ Install!Writing(j)
  BY <1>1 DEF Install!InstallInv, Jobs, Install!Holds, Install!Working, Install!Writing
<1>3. Install!HasWritten(j) /\ iJob[j].wrote /\ iJob[j].dev # Stick /\ iJob[j].ends = "none"
  BY <1>1, <1>2 DEF Install!HasWritten, Install!Working, Install!JobIsTrue
<1>4. iFaults' \in 0..MaxInstall
  BY <1>1, InstallCount DEF Install!umount
<1>5. CASE iJob[j].copied
  <2> DEFINE x == Goes(j, "write", 4)
  <2>1. iJob' = [iJob EXCEPT ![j] = x] /\ Install!Send(j, "progress")
    <3>1. iJob' = [iJob EXCEPT ![j].pc = "write", ![j].at = 4] /\ Install!Send(j, "progress")
      BY <1>5 DEF Install!umount, Install!Progress
    <3> QED BY <1>1, <3>1 DEF Goes
  <2>2. /\ x \in JobRecs /\ x.pc = "write" /\ x.at = 4 /\ x.dev = iJob[j].dev /\ x.wrote = iJob[j].wrote
        /\ x.late = iJob[j].late /\ x.copied = iJob[j].copied /\ x.touched = iJob[j].touched
        /\ x.ends = iJob[j].ends
    <3>1. 4 \in 0..4
      OBVIOUS
    <3> QED BY <1>1, <3>1, JobGoes
  <2> HIDE DEF x
  <2>3. /\ iJob' \in [Jobs -> JobRecs] /\ iJob'[j] = x
        /\ \A k \in Jobs : k # j => iJob'[k] = iJob[k]
    BY <1>1, <2>1, <2>2, JobSet
  <2>4. Shape(j)
    <3>1. UNCHANGED <<last, page>> \/ (j \in Requests /\ Told("progress"))
      BY <2>1, ShapeTells
    <3> QED BY <1>1, <1>4, <2>3, <3>1 DEF Shape, SameJob
  <2>5. Install!JobIsTrue(j)'
    <3>1. /\ x.pc = "write" /\ x.at = 4 /\ ~(x.at < 4) /\ x.dev # Stick /\ x.ends = "none"
          /\ x.wrote
      BY <1>3, <2>2
    <3> QED BY <2>3, <3>1 DEF Install!JobIsTrue, Install!Writing
  <2>6. Install!FlagIsOne'
    BY <1>1, <1>2, <2>4, FlagKept
  <2>7. "beside" \notin iExcuse' => Install!Made(j)' \subseteq iDisk'[iJob'[j].dev]
    <3>1. Install!Made(j)' = {"table", "parts", "files"}
      BY <2>2, <2>3 DEF Install!Made
    <3>2. Install!Made(j) = {"table", "parts", "files"}
      BY <1>1, <1>5 DEF Install!Made
    <3> QED BY <1>1, <2>2, <2>3, <3>1, <3>2 DEF Install!InstallInv, Install!DiskIsMade, Jobs
  <2> QED BY <1>1, <1>3, <2>3, <2>4, <2>5, <2>6, <2>7, ShapeStep
<1>6. CASE ~iJob[j].copied
  <2>1. iJob' = [iJob EXCEPT ![j] = Install!Ended(j, FALSE)] /\ Install!Send(j, j)
    BY <1>6 DEF Install!umount, Install!Done
  <2>2. iDisk' = [iDisk EXCEPT ![iJob[j].dev] = iDisk[iJob[j].dev]] /\ iDisk[iJob[j].dev] \in SUBSET Parts
    BY <1>1
  <2>3. Install!Ended(j, FALSE) = [Install!Ended(j, FALSE) EXCEPT !.touched = iJob[j].touched]
    <3>1. Install!Ended(j, FALSE) \in JobRecs /\ Install!Ended(j, FALSE).touched = iJob[j].touched
      BY <1>1, EndedIs
    <3> QED BY <3>1 DEF JobRecs
  <2>4. iJob[j].touched \in BOOLEAN
    BY <1>1 DEF JobRecs
  <2> QED BY <1>1, <1>2, <1>4, <2>1, <2>2, <2>3, <2>4, InstallStops
<1> QED BY <1>5, <1>6

\* A phase that fails.
LEMMA InstallFails ==
    ASSUME Install!InstallInv, NEW j \in Jobs, Install!PhaseFails(j) PROVE Install!InstallInv'
<1>1. /\ iJob \in [Jobs -> JobRecs] /\ iJob[j] \in JobRecs /\ iJob[j].pc \in {"write", "wait", "copy"}
      /\ iDisk \in [Disks -> SUBSET Parts] /\ iFaults \in 0..MaxInstall /\ iJob[j].dev \in Disks
      /\ UNCHANGED <<post, busy, nodes, mounted, iExcuse>>
  BY InstallTypes DEF Install!InstallInv, Install!PhaseFails, JobRecs
<1>2. Install!Writing(j) /\ mounted' \subseteq mounted /\ iJob[j].touched \in BOOLEAN
  BY <1>1 DEF Install!Writing, JobRecs
<1>3. iFaults' \in 0..MaxInstall
  BY <1>1, InstallCount DEF Install!PhaseFails
<1>4. CASE iDisk' = iDisk /\ Install!Done(j, FALSE)
  <2>1. iJob' = [iJob EXCEPT ![j] = Install!Ended(j, FALSE)] /\ Install!Send(j, j)
    BY <1>4 DEF Install!Done
  <2>2. iDisk' = [iDisk EXCEPT ![iJob[j].dev] = iDisk[iJob[j].dev]] /\ iDisk[iJob[j].dev] \in SUBSET Parts
    BY <1>1, <1>4
  <2>3. Install!Ended(j, FALSE) = [Install!Ended(j, FALSE) EXCEPT !.touched = iJob[j].touched]
    <3>1. Install!Ended(j, FALSE) \in JobRecs /\ Install!Ended(j, FALSE).touched = iJob[j].touched
      BY <1>1, EndedIs
    <3> QED BY <3>1 DEF JobRecs
  <2> QED BY <1>1, <1>2, <1>3, <2>1, <2>2, <2>3, InstallStops
<1>5. CASE /\ iDisk' = [iDisk EXCEPT ![iJob[j].dev] = {}]
           /\ iJob' = [iJob EXCEPT ![j] = [Install!Ended(j, FALSE) EXCEPT !.touched = TRUE]]
           /\ Install!Send(j, j)
  <2>1. TRUE \in BOOLEAN /\ {} \in SUBSET Parts
    OBVIOUS
  <2> QED BY <1>1, <1>2, <1>3, <1>5, <2>1, InstallStops
<1> QED BY <1>4, <1>5 DEF Install!PhaseFails

\* Every step of a job keeps the invariant.
LEMMA InstallJobStep ==
    ASSUME Install!InstallInv, NEW j \in Jobs, Install!JobStep(j) PROVE Install!InstallInv'
BY InstallRun, InstallUnbusy, InstallLook, InstallPhase, InstallWait, InstallCopy, InstallUmount,
   InstallFails DEF Install!JobStep

-----------------------------------------------------------------------------
(* The other steps.                                                        *)

\* A job that writes nothing.
Quiet(k) ==
    /\ iJob'[k].pc \in {"none", "start", "end"} /\ iJob'[k].wrote = FALSE
    /\ iJob'[k].touched = FALSE /\ iJob'[k].ends = "none"

\* What the steps that are of no job leave to show.
LEMMA JobsMove ==
    ASSUME Install!InstallInv, iJob' \in [Jobs -> JobRecs], iDisk' = iDisk,
           \A k \in Jobs : SameJob(k) \/ Quiet(k),
           \A k \in Jobs : SameJob(k) /\ Install!Writing(k) /\ iJob[k].dev \in mounted'
                            => iJob[k].dev \in mounted \/ iJob'[k].late,
           busy' = busy \/ \A k \in Requests : Quiet(k),
           "beside" \notin iExcuse' => "beside" \notin iExcuse
    PROVE  Install!FlagIsOne' /\ Install!DiskIsMade' /\ \A k \in Jobs : Install!JobIsTrue(k)'
<1>1. \A k \in Jobs : Quiet(k) => /\ ~Install!HasWritten(k)' /\ Install!Made(k)' = {}
                                 /\ Install!JobIsTrue(k)' /\ ~Install!Holds(k)'
  BY DEF Quiet, Install!HasWritten, Install!Made, Install!JobIsTrue, Install!Writing, Install!Holds,
     Install!Working
<1>2. \A k \in Jobs : SameJob(k) => /\ Install!HasWritten(k)' <=> Install!HasWritten(k)
                                    /\ Install!Holds(k)' <=> Install!Holds(k)
  BY DEF SameJob, Install!HasWritten, Install!Holds, Install!Working
<1>3. \A k \in Jobs : SameJob(k) => Install!Made(k)' = Install!Made(k) /\ iJob'[k].dev = iJob[k].dev
  BY DEF SameJob, Install!Made
<1>4. ASSUME NEW k \in Jobs PROVE Install!JobIsTrue(k)'
  <2>1. CASE SameJob(k)
    <3>1. Install!JobIsTrue(k)
      BY DEF Install!InstallInv, Jobs
    <3>2. /\ iJob[k].pc = "write" => iJob[k].at \in {1, 2, 4}
          /\ Install!Writing(k) => iJob[k].wrote /\ iJob[k].dev # Stick
          /\ iJob[k].wrote => Install!Writing(k) \/ iJob[k].pc = "unbusy"
          /\ iJob[k].touched => iJob[k].wrote
          /\ iJob[k].ends = "refused" => ~iJob[k].wrote
          /\ iJob[k].ends = "ready" => iJob[k].wrote
          /\ iJob[k].pc # "unbusy" => iJob[k].ends = "none"
          /\ (iJob[k].pc = "write" /\ iJob[k].at < 4) \/ iJob[k].pc = "wait"
             => (iJob[k].dev \in mounted => iJob[k].late)
      BY <3>1, Zenon DEF Install!JobIsTrue
    <3>3. Install!Writing(k)' <=> Install!Writing(k)
      BY <2>1 DEF Install!Writing, SameJob
    <3>4. iJob[k].pc \in {"write", "wait"} => Install!Writing(k)
      BY DEF Install!Writing
    <3> QED BY <2>1, <3>2, <3>3, <3>4 DEF Install!JobIsTrue, SameJob
  <2> QED BY <1>1, <2>1
<1>5. Install!FlagIsOne'
  <2>1. Install!FlagIsOne /\ Requests \subseteq Jobs
    BY DEF Install!InstallInv, Jobs, Install!Jobs
  <2>2. \A k \in Requests : Install!Holds(k)' => Install!Holds(k)
    BY <1>1, <1>2, <2>1
  <2>3. (\A k \in Requests : Quiet(k)) => \A k \in Requests : ~Install!Holds(k)'
    BY <1>1, <2>1
  <2> QED BY <2>1, <2>2, <2>3 DEF Install!FlagIsOne
<1>6. Install!DiskIsMade'
  <2>1. Install!DiskIsMade
    BY DEF Install!InstallInv
  <2>2. \A k \in Jobs : Install!HasWritten(k)' => Install!HasWritten(k)
    BY <1>1, <1>2
  <2>3. \A k \in Jobs : \/ Install!Made(k)' = {}
                        \/ Install!Made(k)' = Install!Made(k) /\ iJob'[k].dev = iJob[k].dev
    BY <1>1, <1>3
  <2> QED BY <2>1, <2>2, <2>3 DEF Install!DiskIsMade, Jobs
<1> QED BY <1>4, <1>5, <1>6

\* The types of the next state, as InstallTypes reads them.
LEMMA InstallTypesNext ==
    ASSUME post' \in [Requests -> {"none", "free", "checked", "started", "refused"}],
           iJob' \in [Jobs -> JobRecs], busy' \in BOOLEAN,
           iDisk' \in [Disks -> SUBSET Parts], nodes' \subseteq Disks, mounted' \subseteq Disks,
           last' \in Events \cup {"none"}, page' \in [Requests -> Pages],
           \A r \in Requests : Len(page'[r].chan) <= hubQueue,
           iExcuse' \subseteq {"overlap", "beside"}, iFaults' \in 0..MaxInstall
    PROVE  Install!TypeOK'
<1> DEFINE T == /\ post \in [Requests -> {"none", "free", "checked", "started", "refused"}]
                /\ iJob \in [Jobs -> JobRecs]
                /\ busy \in BOOLEAN
                /\ iDisk \in [Disks -> SUBSET Parts]
                /\ nodes \subseteq Disks /\ mounted \subseteq Disks
                /\ last \in Events \cup {"none"}
                /\ page \in [Requests -> Pages] /\ \A r \in Requests : Len(page[r].chan) <= hubQueue
                /\ iExcuse \subseteq {"overlap", "beside"}
                /\ iFaults \in 0..MaxInstall
<1>1. T'
  OBVIOUS
<1>2. (Install!TypeOK <=> T)'
  BY InstallTypes, PTL
<1> QED BY <1>1, <1>2

\* PageIsOwn with its marks written out, in both states.
LEMMA PageIsOwnIs ==
    /\ Install!PageIsOwn <=>
        ("overlap" \notin iExcuse =>
            /\ \A r, s \in Requests : Install!OnItsWay(r) /\ Install!OnItsWay(s) => r = s
            /\ \A r \in Requests : Install!Working(r) =>
                /\ last \in {"none", "progress", r}
                /\ page[r].chan \in Seq({"progress", r}) /\ page[r].heard \in {"nobody", r})
    /\ Install!PageIsOwn' <=>
        ("overlap" \notin iExcuse' =>
            /\ \A r, s \in Requests : Install!OnItsWay(r)' /\ Install!OnItsWay(s)' => r = s
            /\ \A r \in Requests : Install!Working(r)' =>
                /\ last' \in {"none", "progress", r}
                /\ page'[r].chan \in Seq({"progress", r}) /\ page'[r].heard \in {"nobody", r})
BY Zenon DEF Install!PageIsOwn, Install!NoEvent, Install!Progress, Install!NoJob

\* A page of an answered request moves.
LEMMA PageMoves ==
    ASSUME Install!InstallInv, NEW r \in Requests, page[r].pc # "none",
           page'[r] \in Pages, Len(page'[r].chan) <= hubQueue,
           page' = [page EXCEPT ![r] = page'[r]],
           "overlap" \notin iExcuse /\ Install!Working(r)
            => page'[r].chan \in Seq({"progress", r}) /\ page'[r].heard \in {"nobody", r},
           iFaults' \in 0..MaxInstall,
           UNCHANGED <<post, iJob, busy, iDisk, nodes, mounted, last, iExcuse>>
    PROVE  Install!InstallInv'
<1>1. /\ post \in [Requests -> {"none", "free", "checked", "started", "refused"}]
      /\ iJob \in [Jobs -> JobRecs] /\ busy \in BOOLEAN
      /\ iDisk \in [Disks -> SUBSET Parts] /\ nodes \subseteq Disks /\ mounted \subseteq Disks
      /\ last \in Events \cup {"none"} /\ page \in [Requests -> Pages]
      /\ \A s \in Requests : Len(page[s].chan) <= hubQueue
      /\ iExcuse \subseteq {"overlap", "beside"}
  BY InstallTypes DEF Install!InstallInv
<1>2. page' \in [Requests -> Pages] /\ \A s \in Requests : s # r => page'[s] = page[s]
  BY <1>1
<1>3. Install!TypeOK'
  <2>1. \A s \in Requests : Len(page'[s].chan) <= hubQueue
    BY <1>1, <1>2
  <2> QED BY <1>1, <1>2, <2>1, InstallTypesNext
<1>4. Install!FlagIsOne' /\ Install!DiskIsMade' /\ \A k \in Jobs : Install!JobIsTrue(k)'
  <2>1. \A k \in Jobs : SameJob(k)
    BY DEF SameJob
  <2> QED BY <1>1, <2>1, JobsMove
<1>5. Install!PostIsFirst'
  <2>1. Install!PostIsFirst
    BY DEF Install!InstallInv
  <2>2. Install!NewPage.pc = "none"
    BY DEF Install!NewPage
  <2>3. post[r] = "started"
    BY <2>1, <2>2 DEF Install!PostIsFirst
  <2> QED BY <1>2, <2>1, <2>3 DEF Install!PostIsFirst
<1>6. Install!PageIsOwn'
  <2>1. Install!PageIsOwn
    BY DEF Install!InstallInv
  <2>2. \A s \in Requests : /\ Install!Working(s)' <=> Install!Working(s)
                            /\ Install!OnItsWay(s)' <=> Install!OnItsWay(s)
    BY DEF Install!Working, Install!OnItsWay
  <2> QED BY <1>2, <2>1, <2>2, PageIsOwnIs
<1> QED BY <1>3, <1>4, <1>5, <1>6 DEF Install!InstallInv, Jobs

\* What the page makes of an event.
LEMMA WatchIs ==
    ASSUME NEW p \in Pages, Len(p.chan) <= hubQueue, NEW e \in Events \cup {"none"}
    PROVE  LET q == Install!watchInstall(p, e)
           IN  /\ q \in Pages /\ Len(q.chan) <= hubQueue
               /\ \A S : p.chan \in Seq(S) => q.chan \in Seq(S)
               /\ q.heard = p.heard \/ (e \in Requests /\ q.heard = e)
<1>1. hubQueue \in Nat /\ Len(<<>>) = 0 /\ <<>> \in Seq(Events)
  BY InstallAssumption
<1>2. CASE e \in Requests
  <2> DEFINE q == [p EXCEPT !.pc = "closed", !.heard = e, !.chan = <<>>]
  <2>1. Install!watchInstall(p, e) = q
    BY <1>2 DEF Install!watchInstall
  <2>2. q \in Pages /\ q.chan = <<>> /\ q.heard = e
    BY <1>1, <1>2 DEF Pages
  <2>3. \A S : <<>> \in Seq(S)
    OBVIOUS
  <2> HIDE DEF q
  <2> QED BY <1>1, <1>2, <2>1, <2>2, <2>3
<1>3. CASE e \notin Requests
  <2>1. Install!watchInstall(p, e) = [p EXCEPT !.pc = "open"]
    BY <1>3 DEF Install!watchInstall
  <2> QED BY <2>1 DEF Pages
<1> QED BY <1>2, <1>3

\* The steps of a stream: it opens with nothing, hears the last event, and then one
\* after the other.
LEMMA InstallStream ==
    ASSUME Install!InstallInv, NEW r \in Requests,
           \/ Install!subscribe(r) \/ Install!serveLast(r) \/ Install!serve(r)
           \/ Install!Reconnect(r)
    PROVE  Install!InstallInv'
<1>1. /\ page \in [Requests -> Pages] /\ page[r] \in Pages /\ Len(page[r].chan) <= hubQueue
      /\ last \in Events \cup {"none"} /\ iFaults \in 0..MaxInstall
      /\ hubQueue \in Nat /\ <<>> \in Seq(Events) /\ Len(<<>>) = 0
  BY InstallTypes, InstallAssumption DEF Install!InstallInv
<1>2. "overlap" \notin iExcuse /\ Install!Working(r) =>
        /\ last \in {"none", "progress", r}
        /\ page[r].chan \in Seq({"progress", r}) /\ page[r].heard \in {"nobody", r}
  BY PageIsOwnIs DEF Install!InstallInv
<1>3. /\ page[r].pc # "none" /\ iFaults' \in 0..MaxInstall
      /\ UNCHANGED <<post, iJob, busy, iDisk, nodes, mounted, last, iExcuse>>
  BY <1>1, InstallCount DEF Install!subscribe, Install!serveLast, Install!serve, Install!Reconnect
<1>4. ASSUME NEW pc \in {"subscribed", "answered"},
             page' = [page EXCEPT ![r] = [page[r] EXCEPT !.pc = pc, !.chan = <<>>]]
      PROVE  Install!InstallInv'
  <2>1. /\ page'[r] \in Pages /\ page'[r].chan = <<>> /\ page'[r].heard = page[r].heard
        /\ page' = [page EXCEPT ![r] = page'[r]]
    <3> DEFINE x == [page[r] EXCEPT !.pc = pc, !.chan = <<>>]
    <3>1. x \in Pages /\ x.chan = <<>> /\ x.heard = page[r].heard
      BY <1>1 DEF Pages
    <3>2. page' = [page EXCEPT ![r] = x]
      BY <1>4
    <3> HIDE DEF x
    <3> QED BY <1>1, <3>1, <3>2
  <2>2. Len(page'[r].chan) <= hubQueue
    BY <1>1, <2>1
  <2>3. "overlap" \notin iExcuse /\ Install!Working(r)
           => page'[r].chan \in Seq({"progress", r}) /\ page'[r].heard \in {"nobody", r}
    <3>1. <<>> \in Seq({"progress", r})
      OBVIOUS
    <3> QED BY <1>2, <2>1, <3>1
  <2> QED BY <1>3, <2>1, <2>2, <2>3, PageMoves
<1>5. ASSUME NEW p \in Pages, NEW e \in Events \cup {"none"}, Len(p.chan) <= hubQueue,
             p.heard = page[r].heard,
             page' = [page EXCEPT ![r] = Install!watchInstall(p, e)],
             "overlap" \notin iExcuse /\ Install!Working(r)
                => e \in {"none", "progress", r} /\ p.chan \in Seq({"progress", r})
      PROVE  Install!InstallInv'
  <2> DEFINE q == Install!watchInstall(p, e)
  <2>1. /\ q \in Pages /\ Len(q.chan) <= hubQueue
        /\ \A S : p.chan \in Seq(S) => q.chan \in Seq(S)
        /\ q.heard = p.heard \/ (e \in Requests /\ q.heard = e)
    BY <1>5, WatchIs
  <2>2. page' = [page EXCEPT ![r] = q]
    BY <1>5
  <2> HIDE DEF q
  <2>3. page'[r] = q /\ page' = [page EXCEPT ![r] = page'[r]]
    BY <1>1, <2>2
  <2>4. "overlap" \notin iExcuse /\ Install!Working(r)
            => q.chan \in Seq({"progress", r}) /\ q.heard \in {"nobody", r}
    <3>1. "progress" \notin Requests /\ "none" \notin Requests
      BY InstallAssumption
    <3> QED BY <1>2, <1>5, <2>1, <3>1
  <2> QED BY <1>3, <2>1, <2>3, <2>4, PageMoves
<1>6. CASE Install!subscribe(r)
  <2>1. page' = [page EXCEPT ![r].pc = "subscribed", ![r].chan = <<>>]
    BY <1>6 DEF Install!subscribe
  <2>2. page' = [page EXCEPT ![r] = [page[r] EXCEPT !.pc = "subscribed", !.chan = <<>>]]
    BY <1>1, <2>1
  <2> QED BY <1>4, <2>2
<1>7. CASE Install!Reconnect(r)
  <2>1. page' = [page EXCEPT ![r].pc = "answered", ![r].chan = <<>>]
    BY <1>7 DEF Install!Reconnect
  <2>2. page' = [page EXCEPT ![r] = [page[r] EXCEPT !.pc = "answered", !.chan = <<>>]]
    BY <1>1, <2>1
  <2> QED BY <1>4, <2>2
<1>8. CASE Install!serveLast(r)
  <2> DEFINE p == page[r]
             e == last
  <2>1. /\ page' = [page EXCEPT ![r] = Install!watchInstall(p, e)]
        /\ p \in Pages /\ e \in Events \cup {"none"} /\ Len(p.chan) <= hubQueue
        /\ p.heard = page[r].heard
        /\ "overlap" \notin iExcuse /\ Install!Working(r)
            => e \in {"none", "progress", r} /\ p.chan \in Seq({"progress", r})
    BY <1>1, <1>2, <1>8 DEF Install!serveLast
  <2> HIDE DEF p, e
  <2> QED BY <1>5, <2>1
<1>9. CASE Install!serve(r)
  <2> DEFINE p == [page[r] EXCEPT !.chan = Tail(page[r].chan)]
             e == Head(page[r].chan)
  <2>1. page' = [page EXCEPT ![r] = Install!watchInstall(p, e)] /\ page[r].chan # <<>>
    BY <1>9 DEF Install!serve
  <2>2. /\ page[r].chan \in Seq(Events) /\ Tail(page[r].chan) \in Seq(Events) /\ e \in Events
        /\ Len(Tail(page[r].chan)) <= hubQueue
    <3>1. page[r].chan \in Seq(Events)
      BY <1>1 DEF Pages
    <3> QED BY <1>1, <2>1, <3>1
  <2>3. \A S : page[r].chan \in Seq(S) => e \in S /\ Tail(page[r].chan) \in Seq(S)
    BY <2>1
  <2> HIDE DEF e
  <2>4. p \in Pages /\ p.chan = Tail(page[r].chan) /\ p.heard = page[r].heard
    BY <1>1, <2>2 DEF Pages
  <2> HIDE DEF p
  <2>5. "overlap" \notin iExcuse /\ Install!Working(r)
            => e \in {"none", "progress", r} /\ p.chan \in Seq({"progress", r})
    <3>1. page[r].chan \in Seq({"progress", r})
            => e \in {"progress", r} /\ Tail(page[r].chan) \in Seq({"progress", r})
      BY <2>3
    <3> QED BY <1>2, <2>4, <3>1
  <2> QED BY <1>5, <2>1, <2>2, <2>4, <2>5
<1> QED BY <1>6, <1>7, <1>8, <1>9

\* A post that finds the flag free: with another one on its way, that is an overlap.
LEMMA InstallPost ==
    ASSUME Install!InstallInv, NEW r \in Requests, NEW d \in Disks, Install!startInstall(r, d)
    PROVE  Install!InstallInv'
<1>1. /\ post \in [Requests -> {"none", "free", "checked", "started", "refused"}]
      /\ iJob \in [Jobs -> JobRecs] /\ busy \in BOOLEAN
      /\ iDisk \in [Disks -> SUBSET Parts] /\ nodes \subseteq Disks /\ mounted \subseteq Disks
      /\ last \in Events \cup {"none"} /\ page \in [Requests -> Pages]
      /\ \A s \in Requests : Len(page[s].chan) <= hubQueue
      /\ iExcuse \subseteq {"overlap", "beside"} /\ iFaults \in 0..MaxInstall
      /\ r \in Jobs /\ Requests \subseteq Jobs
  BY InstallTypes DEF Install!InstallInv, Jobs, Install!Jobs
<1>2. /\ post[r] = "none" /\ post' = [post EXCEPT ![r] = "free"]
      /\ UNCHANGED <<busy, iDisk, nodes, mounted, last, page, iFaults>>
      /\ iExcuse' = IF \E s \in Requests \ {r} : Install!OnItsWay(s)
                      THEN iExcuse \cup {"overlap"} ELSE iExcuse
  BY DEF Install!startInstall, Install!OnItsWay
<1>3. /\ iJob[r].pc = "none" /\ iJob[r].ends = "none" /\ iJob[r].wrote = FALSE
      /\ iJob[r].touched = FALSE /\ page[r] = Install!NewPage
  <2>1. ~iJob[r].wrote /\ ~iJob[r].touched /\ iJob[r] \in JobRecs
    BY <1>1, <1>2 DEF Install!InstallInv, Install!PostIsFirst
  <2> QED BY <1>2, <2>1 DEF Install!InstallInv, Install!PostIsFirst, JobRecs
<1> DEFINE x == [iJob[r] EXCEPT !.dev = d]
<1>4. iJob' = [iJob EXCEPT ![r] = x]
  BY <1>1 DEF Install!startInstall
<1>5. /\ x \in JobRecs /\ x.pc = "none" /\ x.ends = "none" /\ x.wrote = FALSE /\ x.touched = FALSE
  <2>1. iJob[r] \in JobRecs
    BY <1>1
  <2> QED BY <1>3, <2>1 DEF JobRecs
<1> HIDE DEF x
<1>6. /\ iJob' \in [Jobs -> JobRecs] /\ iJob'[r] = x
      /\ \A k \in Jobs : k # r => iJob'[k] = iJob[k]
  BY <1>1, <1>4, <1>5, JobSet
<1>7. Install!TypeOK'
  BY <1>1, <1>2, <1>6, InstallTypesNext
<1>8. Install!FlagIsOne' /\ Install!DiskIsMade' /\ \A k \in Jobs : Install!JobIsTrue(k)'
  <2>1. \A k \in Jobs : SameJob(k) \/ Quiet(k)
    BY <1>5, <1>6 DEF SameJob, Quiet
  <2> QED BY <1>1, <1>2, <1>6, <2>1, JobsMove
<1>9. Install!PostIsFirst'
  BY <1>1, <1>2, <1>3, <1>5, <1>6 DEF Install!InstallInv, Install!PostIsFirst
<1>10. Install!PageIsOwn'
  <2>1. Install!PageIsOwn
    BY DEF Install!InstallInv
  <2>2. \A s \in Requests : Install!Working(s)' => Install!Working(s)
    BY <1>1, <1>5, <1>6 DEF Install!Working
  <2>3. \A s \in Requests : s # r => (Install!OnItsWay(s)' => Install!OnItsWay(s))
    BY <1>1, <1>2, <2>2 DEF Install!OnItsWay
  <2>4. "overlap" \notin iExcuse' => /\ "overlap" \notin iExcuse
                                      /\ \A s \in Requests : s # r => ~Install!OnItsWay(s)
    BY <1>2
  <2> QED BY <1>2, <2>1, <2>2, <2>3, <2>4, PageIsOwnIs
<1> QED BY <1>7, <1>8, <1>9, <1>10 DEF Install!InstallInv, Jobs

\* The answer to the post is a refusal, or the job may run.
LEMMA InstallCheck ==
    ASSUME Install!InstallInv, NEW r \in Requests, Install!PostCheck(r) PROVE Install!InstallInv'
<1>1. /\ post \in [Requests -> {"none", "free", "checked", "started", "refused"}]
      /\ iJob \in [Jobs -> JobRecs] /\ busy \in BOOLEAN
      /\ iDisk \in [Disks -> SUBSET Parts] /\ nodes \subseteq Disks /\ mounted \subseteq Disks
      /\ last \in Events \cup {"none"} /\ page \in [Requests -> Pages]
      /\ \A s \in Requests : Len(page[s].chan) <= hubQueue
      /\ iExcuse \subseteq {"overlap", "beside"} /\ iFaults \in 0..MaxInstall
  BY InstallTypes DEF Install!InstallInv
<1>2. PICK answer \in {"checked", "refused"} :
        /\ post[r] = "free" /\ post' = [post EXCEPT ![r] = answer]
        /\ UNCHANGED <<iJob, busy, iDisk, nodes, mounted, last, page, iExcuse, iFaults>>
  BY Zenon DEF Install!PostCheck
<1>3. Install!TypeOK'
  BY <1>1, <1>2, InstallTypesNext
<1>4. Install!FlagIsOne' /\ Install!DiskIsMade' /\ \A k \in Jobs : Install!JobIsTrue(k)'
  <2>1. \A k \in Jobs : SameJob(k)
    BY <1>2 DEF SameJob
  <2> QED BY <1>1, <1>2, <2>1, JobsMove
<1>5. Install!PostIsFirst'
  BY <1>1, <1>2 DEF Install!InstallInv, Install!PostIsFirst
<1>6. Install!PageIsOwn'
  <2>1. Install!PageIsOwn
    BY DEF Install!InstallInv
  <2>2. \A s \in Requests : Install!Working(s)' <=> Install!Working(s)
    BY <1>2 DEF Install!Working
  <2>3. \A s \in Requests : Install!OnItsWay(s)' => Install!OnItsWay(s)
    BY <1>1, <1>2, <2>2 DEF Install!OnItsWay
  <2> QED BY <1>2, <2>1, <2>2, <2>3, PageIsOwnIs
<1> QED BY <1>3, <1>4, <1>5, <1>6 DEF Install!InstallInv, Jobs

\* The hub forgets the install before, and the job begins.
LEMMA InstallBegins ==
    ASSUME Install!InstallInv, NEW r \in Requests, Install!PostRuns(r) PROVE Install!InstallInv'
<1>1. /\ post \in [Requests -> {"none", "free", "checked", "started", "refused"}]
      /\ iJob \in [Jobs -> JobRecs] /\ busy \in BOOLEAN
      /\ iDisk \in [Disks -> SUBSET Parts] /\ nodes \subseteq Disks /\ mounted \subseteq Disks
      /\ last \in Events \cup {"none"} /\ page \in [Requests -> Pages]
      /\ \A s \in Requests : Len(page[s].chan) <= hubQueue
      /\ iExcuse \subseteq {"overlap", "beside"} /\ iFaults \in 0..MaxInstall
      /\ r \in Jobs /\ Requests \subseteq Jobs
  BY InstallTypes DEF Install!InstallInv, Jobs, Install!Jobs
<1>2. /\ post[r] = "checked" /\ post' = [post EXCEPT ![r] = "started"] /\ last' = "none"
      /\ UNCHANGED <<busy, iDisk, nodes, mounted, iExcuse, iFaults>>
  BY DEF Install!PostRuns, Install!Reset, Install!NoEvent
<1>3. /\ iJob[r].pc = "none" /\ iJob[r].ends = "none" /\ ~iJob[r].wrote
      /\ ~iJob[r].touched /\ page[r] = Install!NewPage
  BY <1>2 DEF Install!InstallInv, Install!PostIsFirst
<1> DEFINE x == [iJob[r] EXCEPT !.pc = "start"]
           y == [page[r] EXCEPT !.pc = "answered"]
<1>4. iJob' = [iJob EXCEPT ![r] = x] /\ page' = [page EXCEPT ![r] = y]
  BY <1>1 DEF Install!PostRuns
<1>5. /\ x \in JobRecs /\ x.pc = "start" /\ x.ends = "none" /\ x.wrote = FALSE /\ x.touched = FALSE
  <2>1. iJob[r] \in JobRecs
    BY <1>1
  <2> QED BY <1>3, <2>1 DEF JobRecs
<1>6. y \in Pages /\ y.chan = <<>> /\ y.heard = "nobody"
  <2>1. page[r] \in Pages /\ page[r].chan = <<>> /\ page[r].heard = "nobody"
    BY <1>1, <1>3 DEF Install!NewPage, Install!NoJob
  <2> QED BY <2>1 DEF Pages
<1> HIDE DEF x, y
<1>7. /\ iJob' \in [Jobs -> JobRecs] /\ iJob'[r] = x
      /\ \A k \in Jobs : k # r => iJob'[k] = iJob[k]
  BY <1>1, <1>4, <1>5, JobSet
<1>8. /\ page' \in [Requests -> Pages] /\ page'[r] = y /\ \A s \in Requests : s # r => page'[s] = page[s]
  BY <1>1, <1>4, <1>6
<1>9. Install!TypeOK'
  <2>1. \A s \in Requests : Len(page'[s].chan) <= hubQueue
    <3>1. hubQueue \in Nat /\ Len(<<>>) = 0
      BY InstallAssumption
    <3> QED BY <1>1, <1>6, <1>8, <3>1
  <2> QED BY <1>1, <1>2, <1>7, <1>8, <2>1, InstallTypesNext
<1>10. Install!FlagIsOne' /\ Install!DiskIsMade' /\ \A k \in Jobs : Install!JobIsTrue(k)'
  <2>1. \A k \in Jobs : SameJob(k) \/ Quiet(k)
    BY <1>5, <1>7 DEF SameJob, Quiet
  <2> QED BY <1>1, <1>2, <1>7, <2>1, JobsMove
<1>11. Install!PostIsFirst'
  BY <1>1, <1>2, <1>7, <1>8 DEF Install!InstallInv, Install!PostIsFirst
<1>12. Install!PageIsOwn'
  <2>1. Install!PageIsOwn
    BY DEF Install!InstallInv
  <2>2. Install!OnItsWay(r)
    BY <1>2 DEF Install!OnItsWay
  <2>3. \A s \in Requests : s # r => (Install!Working(s)' <=> Install!Working(s))
    BY <1>1, <1>7 DEF Install!Working
  <2>4. \A s \in Requests : s # r => (Install!OnItsWay(s)' <=> Install!OnItsWay(s))
    BY <1>1, <1>2, <2>3 DEF Install!OnItsWay
  <2>5. <<>> \in Seq({"progress", r})
    OBVIOUS
  <2>6. SUFFICES ASSUME "overlap" \notin iExcuse
                 PROVE  /\ \A s, t \in Requests : Install!OnItsWay(s)' /\ Install!OnItsWay(t)' => s = t
                        /\ \A s \in Requests : Install!Working(s)' =>
                            /\ last' \in {"none", "progress", s}
                            /\ page'[s].chan \in Seq({"progress", s}) /\ page'[s].heard \in {"nobody", s}
    BY <1>2, PageIsOwnIs
  <2>7. \A s \in Requests : s # r => ~Install!OnItsWay(s) /\ ~Install!Working(s)
    BY <2>1, <2>2, <2>6, PageIsOwnIs DEF Install!OnItsWay
  <2>8. \A s \in Requests : Install!OnItsWay(s)' \/ Install!Working(s)' => s = r
    BY <2>3, <2>4, <2>7
  <2> QED BY <1>2, <1>6, <1>8, <2>5, <2>8
<1> QED BY <1>9, <1>10, <1>11, <1>12 DEF Install!InstallInv, Jobs

\* The kernel makes nodes, and somebody mounts a disk or unmounts it: who writes it
\* sees a mount.
LEMMA InstallMachine ==
    ASSUME Install!InstallInv, Install!Kernel \/ \E d \in Disks : Install!Mount(d)
    PROVE  Install!InstallInv'
<1>1. /\ post \in [Requests -> {"none", "free", "checked", "started", "refused"}]
      /\ iJob \in [Jobs -> JobRecs] /\ busy \in BOOLEAN
      /\ iDisk \in [Disks -> SUBSET Parts] /\ nodes \subseteq Disks /\ mounted \subseteq Disks
      /\ last \in Events \cup {"none"} /\ page \in [Requests -> Pages]
      /\ \A s \in Requests : Len(page[s].chan) <= hubQueue
      /\ iExcuse \subseteq {"overlap", "beside"} /\ iFaults \in 0..MaxInstall
      /\ Requests \subseteq Jobs
  BY InstallTypes DEF Install!InstallInv, Jobs, Install!Jobs
<1>2. /\ UNCHANGED <<post, busy, iDisk, last, page, iExcuse>> /\ nodes' \subseteq Disks
      /\ iFaults' \in 0..MaxInstall
  BY <1>1, InstallCount DEF Install!Kernel, Install!Mount
<1>3. /\ iJob' \in [Jobs -> JobRecs] /\ mounted' \subseteq Disks /\ \A k \in Jobs : SameJob(k)
      /\ \A k \in Jobs : Install!Writing(k) /\ iJob[k].dev \in mounted'
                            => iJob[k].dev \in mounted \/ iJob'[k].late
  <2>1. CASE Install!Kernel
    BY <1>1, <2>1 DEF Install!Kernel, SameJob
  <2>2. ASSUME NEW d \in Disks, Install!Mount(d)
        PROVE  /\ iJob' \in [Jobs -> JobRecs] /\ mounted' \subseteq Disks /\ \A k \in Jobs : SameJob(k)
               /\ \A k \in Jobs : Install!Writing(k) /\ iJob[k].dev \in mounted'
                                    => iJob[k].dev \in mounted \/ iJob'[k].late
    <3> DEFINE q == Install!Surprised(d, Jobs)
    <3>1. /\ q \in [Jobs -> JobRecs]
          /\ \A k \in Jobs :
                /\ q[k].pc = iJob[k].pc /\ q[k].dev = iJob[k].dev /\ q[k].at = iJob[k].at
                /\ q[k].wrote = iJob[k].wrote /\ q[k].copied = iJob[k].copied
                /\ q[k].touched = iJob[k].touched /\ q[k].ends = iJob[k].ends
                /\ iJob[k].late => q[k].late
                /\ Install!Writing(k) /\ iJob[k].dev = d => q[k].late
      BY <1>1, SurprisedIs
    <3>2. iJob' = q /\ mounted' \in {mounted \ {d}, mounted \cup {d}}
      BY <2>2 DEF Install!Mount, Jobs
    <3> HIDE DEF q
    <3> QED BY <1>1, <3>1, <3>2 DEF SameJob
  <2> QED BY <2>1, <2>2
<1>4. Install!TypeOK'
  BY <1>1, <1>2, <1>3, InstallTypesNext
<1>5. Install!FlagIsOne' /\ Install!DiskIsMade' /\ \A k \in Jobs : Install!JobIsTrue(k)'
  BY <1>1, <1>2, <1>3, JobsMove
<1>6. Install!PostIsFirst'
  BY <1>1, <1>2, <1>3 DEF Install!InstallInv, Install!PostIsFirst, SameJob
<1>7. Install!PageIsOwn'
  <2>1. \A s \in Requests : Install!Working(s)' <=> Install!Working(s)
    BY <1>1, <1>3 DEF Install!Working, SameJob
  <2>2. \A s \in Requests : Install!OnItsWay(s)' <=> Install!OnItsWay(s)
    BY <1>2, <2>1 DEF Install!OnItsWay
  <2> QED BY <1>2, <2>1, <2>2, PageIsOwnIs DEF Install!InstallInv
<1> QED BY <1>4, <1>5, <1>6, <1>7 DEF Install!InstallInv, Jobs

\* The command line begins a job of its own.
LEMMA InstallCommand ==
    ASSUME Install!InstallInv, NEW d \in Disks, Install!installToDiskCommand(d)
    PROVE  Install!InstallInv'
<1>1. /\ post \in [Requests -> {"none", "free", "checked", "started", "refused"}]
      /\ iJob \in [Jobs -> JobRecs] /\ busy \in BOOLEAN
      /\ iDisk \in [Disks -> SUBSET Parts] /\ nodes \subseteq Disks /\ mounted \subseteq Disks
      /\ last \in Events \cup {"none"} /\ page \in [Requests -> Pages]
      /\ \A s \in Requests : Len(page[s].chan) <= hubQueue
      /\ iExcuse \subseteq {"overlap", "beside"} /\ iFaults \in 0..MaxInstall
      /\ Requests \subseteq Jobs /\ Terminal \in Jobs /\ Terminal \notin Requests
  BY InstallTypes, InstallAssumption DEF Install!InstallInv, Jobs, Install!Jobs
<1>2. /\ UNCHANGED <<post, busy, iDisk, nodes, mounted, last, page, iExcuse>>
      /\ iFaults' \in 0..MaxInstall /\ iJob[Terminal].pc = "none"
  BY <1>1, InstallCount DEF Install!installToDiskCommand
<1>3. /\ iJob[Terminal] \in JobRecs /\ iJob[Terminal].wrote = FALSE
      /\ iJob[Terminal].touched = FALSE /\ iJob[Terminal].ends = "none"
  <2>1. iJob[Terminal] \in JobRecs
    BY <1>1
  <2>2. Install!JobIsTrue(Terminal)
    BY <1>1 DEF Install!InstallInv, Jobs
  <2>3. ~iJob[Terminal].wrote /\ ~iJob[Terminal].touched /\ iJob[Terminal].ends = "none"
    BY <1>2, <2>2 DEF Install!JobIsTrue, Install!Writing
  <2> QED BY <2>1, <2>3 DEF JobRecs
<1> DEFINE x == [iJob[Terminal] EXCEPT !.pc = "start", !.dev = d]
<1>4. iJob' = [iJob EXCEPT ![Terminal] = x]
  <2>1. iJob' = [iJob EXCEPT ![Terminal].pc = "start", ![Terminal].dev = d]
    BY DEF Install!installToDiskCommand
  <2> QED BY <1>1, <2>1
<1>5. /\ x \in JobRecs /\ x.pc = "start" /\ x.wrote = FALSE /\ x.touched = FALSE /\ x.ends = "none"
  BY <1>3 DEF JobRecs
<1> HIDE DEF x
<1>6. /\ iJob' \in [Jobs -> JobRecs] /\ iJob'[Terminal] = x
      /\ \A k \in Jobs : k # Terminal => iJob'[k] = iJob[k]
  BY <1>1, <1>4, <1>5, JobSet
<1>7. \A s \in Requests : iJob'[s] = iJob[s]
  BY <1>1, <1>6
<1>8. Install!TypeOK'
  BY <1>1, <1>2, <1>6, InstallTypesNext
<1>9. Install!FlagIsOne' /\ Install!DiskIsMade' /\ \A k \in Jobs : Install!JobIsTrue(k)'
  <2>1. \A k \in Jobs : SameJob(k) \/ Quiet(k)
    BY <1>5, <1>6 DEF SameJob, Quiet
  <2> QED BY <1>1, <1>2, <1>6, <2>1, JobsMove
<1>10. Install!PostIsFirst'
  BY <1>2, <1>7 DEF Install!InstallInv, Install!PostIsFirst
<1>11. Install!PageIsOwn'
  <2>1. \A s \in Requests : Install!Working(s)' <=> Install!Working(s)
    BY <1>7 DEF Install!Working
  <2>2. \A s \in Requests : Install!OnItsWay(s)' <=> Install!OnItsWay(s)
    BY <1>2, <2>1 DEF Install!OnItsWay
  <2> QED BY <1>2, <2>1, <2>2, PageIsOwnIs DEF Install!InstallInv
<1> QED BY <1>8, <1>9, <1>10, <1>11 DEF Install!InstallInv, Jobs

\* The daemon stops in the middle of everything.
LEMMA InstallStop == ASSUME Install!InstallInv, Install!Stop PROVE Install!InstallInv'
<1>1. /\ post \in [Requests -> {"none", "free", "checked", "started", "refused"}]
      /\ iJob \in [Jobs -> JobRecs] /\ busy \in BOOLEAN
      /\ iDisk \in [Disks -> SUBSET Parts] /\ nodes \subseteq Disks /\ mounted \subseteq Disks
      /\ page \in [Requests -> Pages] /\ \A s \in Requests : Len(page[s].chan) <= hubQueue
      /\ iExcuse \subseteq {"overlap", "beside"} /\ iFaults \in 0..MaxInstall
      /\ Requests \subseteq Jobs /\ Terminal \notin Requests
  BY InstallTypes, InstallAssumption DEF Install!InstallInv, Jobs, Install!Jobs
<1>2. /\ UNCHANGED <<iDisk, nodes, mounted, iExcuse>> /\ busy' = FALSE /\ last' = "none"
      /\ iFaults' \in 0..MaxInstall
      /\ post' = [r \in Requests |-> IF post[r] = "none" THEN "none" ELSE "started"]
      /\ iJob' = [k \in Jobs |-> IF k # Terminal /\ Install!Working(k) THEN Install!OverJob ELSE iJob[k]]
      /\ page' = [r \in Requests |-> IF page[r].pc \in {"none", "closed"} THEN page[r]
                                     ELSE [page[r] EXCEPT !.pc = "lost", !.chan = <<>>]]
  BY <1>1, InstallCount DEF Install!Stop, Install!NoEvent, Jobs
<1>3. /\ Install!OverJob \in JobRecs /\ Install!OverJob.pc = "end" /\ Install!OverJob.ends = "none"
      /\ Install!OverJob.wrote = FALSE /\ Install!OverJob.touched = FALSE
  BY OverIs
<1>4. /\ iJob' \in [Jobs -> JobRecs]
      /\ \A k \in Jobs : iJob'[k] = iJob[k] \/ iJob'[k] = Install!OverJob
      /\ \A r \in Requests : /\ iJob'[r].pc \in {"none", "end"}
                             /\ ~Install!Working(r) => iJob'[r] = iJob[r]
  BY <1>1, <1>2, <1>3 DEF Install!Working
<1>5. /\ page' \in [Requests -> Pages]
      /\ \A r \in Requests : /\ Len(page'[r].chan) <= hubQueue
                             /\ page[r].pc = "none" => page'[r] = page[r]
  <2>1. ASSUME NEW r \in Requests
        PROVE  /\ page'[r] \in Pages /\ Len(page'[r].chan) <= hubQueue
               /\ page[r].pc = "none" => page'[r] = page[r]
    <3> DEFINE y == [page[r] EXCEPT !.pc = "lost", !.chan = <<>>]
    <3>1. y \in Pages /\ y.chan = <<>>
      <4>1. page[r] \in Pages /\ <<>> \in Seq(Events)
        BY <1>1
      <4> QED BY <4>1 DEF Pages
    <3>2. page'[r] = IF page[r].pc \in {"none", "closed"} THEN page[r] ELSE y
      BY <1>2
    <3> HIDE DEF y
    <3>3. hubQueue \in Nat /\ Len(<<>>) = 0 /\ page[r] \in Pages /\ Len(page[r].chan) <= hubQueue
      BY <1>1, InstallAssumption
    <3> QED BY <3>1, <3>2, <3>3
  <2> QED BY <1>2, <2>1
<1>6. Install!TypeOK'
  <2>1. post' \in [Requests -> {"none", "free", "checked", "started", "refused"}]
    BY <1>2
  <2> QED BY <1>1, <1>2, <1>4, <1>5, <2>1, InstallTypesNext
<1>7. Install!FlagIsOne' /\ Install!DiskIsMade' /\ \A k \in Jobs : Install!JobIsTrue(k)'
  <2>1. \A k \in Jobs : SameJob(k) \/ Quiet(k)
    BY <1>3, <1>4 DEF SameJob, Quiet
  <2>2. \A k \in Requests : Quiet(k)
    <3> TAKE k \in Requests
    <3>1. CASE iJob'[k] = Install!OverJob
      BY <1>3, <3>1 DEF Quiet
    <3>2. CASE iJob'[k] = iJob[k]
      <4>1. iJob[k].pc \in {"none", "end"} /\ iJob[k] \in JobRecs /\ Install!JobIsTrue(k)
        BY <1>1, <1>4, <3>2 DEF Install!InstallInv, Jobs
      <4>2. ~iJob[k].wrote /\ ~iJob[k].touched /\ iJob[k].ends = "none"
        BY <4>1 DEF Install!JobIsTrue, Install!Writing
      <4>3. iJob[k].wrote = FALSE /\ iJob[k].touched = FALSE
        BY <4>1, <4>2 DEF JobRecs
      <4> QED BY <3>2, <4>1, <4>2, <4>3 DEF Quiet
    <3> QED BY <1>1, <1>4, <3>1, <3>2
  <2>3. \A k \in Jobs : SameJob(k) /\ Install!Writing(k) /\ iJob[k].dev \in mounted'
                            => iJob[k].dev \in mounted \/ iJob'[k].late
    BY <1>2
  <2> QED BY <1>2, <1>4, <2>1, <2>2, <2>3, JobsMove
<1>8. Install!PostIsFirst'
  <2> SUFFICES ASSUME NEW r \in Requests, post'[r] # "started"
               PROVE  /\ iJob'[r].pc = "none" /\ iJob'[r].ends = "none"
                      /\ ~iJob'[r].wrote /\ ~iJob'[r].touched /\ page'[r] = Install!NewPage
    BY DEF Install!PostIsFirst
  <2>1. post[r] = "none"
    BY <1>2
  <2>2. /\ iJob[r].pc = "none" /\ iJob[r].ends = "none" /\ ~iJob[r].wrote /\ ~iJob[r].touched
        /\ page[r] = Install!NewPage
    BY <2>1 DEF Install!InstallInv, Install!PostIsFirst
  <2>3. page[r].pc = "none" /\ iJob'[r] = iJob[r]
    BY <1>4, <2>2 DEF Install!NewPage, Install!Working
  <2> QED BY <1>5, <2>2, <2>3
<1>9. Install!PageIsOwn'
  <2>1. \A s \in Requests : ~Install!Working(s)'
    BY <1>4 DEF Install!Working
  <2>2. \A s \in Requests : ~Install!OnItsWay(s)'
    BY <1>2, <2>1 DEF Install!OnItsWay
  <2> QED BY <2>1, <2>2, PageIsOwnIs
<1> QED BY <1>6, <1>7, <1>8, <1>9 DEF Install!InstallInv, Jobs

\* It holds of a daemon that starts.
LEMMA InstallInit == Install!Init => Install!InstallInv
<1> SUFFICES ASSUME Install!Init PROVE Install!InstallInv
  OBVIOUS
<1> DEFINE n == Install!NewJob
           p == Install!NewPage
<1>1. /\ n \in JobRecs /\ n.pc = "none" /\ n.ends = "none" /\ n.wrote = FALSE /\ n.touched = FALSE
  BY InstallAssumption DEF Install!NewJob, JobRecs
<1>2. p \in Pages /\ p.chan = <<>>
  <2>1. <<>> \in Seq(Events)
    OBVIOUS
  <2> QED BY <2>1 DEF Install!NewPage, Install!NoJob, Pages
<1>3. /\ post = [r \in Requests |-> "none"] /\ iJob = [j \in Jobs |-> n] /\ busy = FALSE
      /\ iDisk = [d \in Disks |-> {}] /\ nodes = {} /\ mounted = {Stick} /\ last = "none"
      /\ page = [r \in Requests |-> p] /\ iExcuse = {} /\ iFaults = 0
  BY DEF Install!Init, Install!NoEvent, Jobs
<1> HIDE DEF n, p
<1>4. /\ \A j \in Jobs : iJob[j] = n
      /\ \A r \in Requests : r \in Jobs /\ page[r] = p /\ post[r] = "none"
  BY <1>3 DEF Jobs, Install!Jobs
<1>5. Install!TypeOK
  <2>1. \A r \in Requests : Len(page[r].chan) <= hubQueue
    <3>1. hubQueue \in Nat /\ Len(<<>>) = 0
      BY InstallAssumption
    <3> QED BY <1>2, <1>4, <3>1
  <2>2. 0 \in 0..MaxInstall
    BY BoundAssumption
  <2> QED BY <1>1, <1>2, <1>3, <2>1, <2>2, InstallTypes, InstallAssumption
<1>6. Install!PostIsFirst
  BY <1>1, <1>4 DEF Install!PostIsFirst, p
<1>7. \A j \in Jobs : Install!JobIsTrue(j)
  BY <1>1, <1>4 DEF Install!JobIsTrue, Install!Writing
<1>8. Install!FlagIsOne
  BY <1>1, <1>4 DEF Install!FlagIsOne, Install!Holds, Install!Working
<1>9. Install!DiskIsMade
  <2>1. \A j \in Jobs : ~Install!HasWritten(j) /\ Install!Made(j) = {}
    BY <1>1, <1>4 DEF Install!HasWritten, Install!Working, Install!Made
  <2> QED BY <2>1 DEF Install!DiskIsMade, Jobs
<1>10. Install!PageIsOwn
  <2>1. \A r \in Requests : ~Install!OnItsWay(r) /\ ~Install!Working(r)
    BY <1>1, <1>4 DEF Install!OnItsWay, Install!Working
  <2> QED BY <2>1 DEF Install!PageIsOwn
<1> QED BY <1>5, <1>6, <1>7, <1>8, <1>9, <1>10 DEF Install!InstallInv, Jobs

\* Every step of the install keeps the invariant.
LEMMA InstallStep == ASSUME Install!InstallInv, Install!Next PROVE Install!InstallInv'
BY InstallStream, InstallPost, InstallCheck, InstallBegins, InstallJobStep, InstallMachine,
   InstallCommand, InstallStop DEF Install!Next, Install!PageStep, Jobs

\* A component that is not in focus does not move.
LEMMA InstallFrame == ASSUME Install!InstallInv, UNCHANGED installVars PROVE Install!InstallInv'
<1>1. UNCHANGED <<post, iJob, busy, iDisk, nodes, mounted, last, page, iExcuse, iFaults>>
  BY DEF installVars
<1>2. Install!TypeOK' = Install!TypeOK
  BY <1>1 DEF Install!TypeOK
<1>3. Install!FlagIsOne' = Install!FlagIsOne /\ Install!PostIsFirst' = Install!PostIsFirst
  BY <1>1 DEF Install!FlagIsOne, Install!Holds, Install!Working, Install!PostIsFirst
<1>4. Install!DiskIsMade' = Install!DiskIsMade
  BY <1>1 DEF Install!DiskIsMade, Install!HasWritten, Install!Working, Install!Made
<1>5. Install!PageIsOwn' = Install!PageIsOwn
  BY <1>1 DEF Install!PageIsOwn, Install!OnItsWay, Install!Working
<1>6. \A j \in Jobs : Install!JobIsTrue(j)' = Install!JobIsTrue(j)
  BY <1>1 DEF Install!JobIsTrue, Install!Writing
<1> QED BY <1>2, <1>3, <1>4, <1>5, <1>6 DEF Install!InstallInv, Jobs

\* InstallIsHonest (what the report of an install and the page say is true of the
\* disk): with any number of posts, pages, disks, faults and mounts, "ready" is said
\* only of a disk with every part, a refusal touched nothing, the daemon writes with
\* one job on no disk that was in use, and a page takes no end for its own but its own.
THEOREM InstallSafe == DeviceSpec => []InstallIsHonest
<1>1. DeviceInit => Install!InstallInv
  BY InstallInit DEF DeviceInit
<1>2. Install!InstallInv /\ [DeviceNext]_deviceVars => Install!InstallInv'
  <2> SUFFICES ASSUME Install!InstallInv, [DeviceNext]_deviceVars PROVE Install!InstallInv'
    OBVIOUS
  <2>1. Install!Next \/ UNCHANGED installVars
    BY DEF DeviceNext, OfPower, OfSync, OfEditor, OfHash, OfConfig, OfSched, OfInstall, deviceVars
  <2> QED BY <2>1, InstallStep, InstallFrame
<1>3. Install!InstallInv => InstallIsHonest
  <2> SUFFICES ASSUME Install!InstallInv PROVE Install!InstallIsHonest
    BY DEF InstallIsHonest
  <2>1. Install!TypeOK /\ \A j \in Jobs : Install!JobIsTrue(j)
    BY DEF Install!InstallInv, Jobs
  <2>2. /\ iJob \in [Jobs -> JobRecs] /\ iDisk \in [Disks -> SUBSET Parts] /\ Requests \subseteq Jobs
    BY <2>1, InstallTypes DEF Jobs, Install!Jobs
  <2>3. Install!ReadyIsReady
    <3> SUFFICES ASSUME NEW j \in Jobs, iJob[j].pc = "unbusy", iJob[j].ends = "ready", "beside" \notin iExcuse
                 PROVE  iDisk[iJob[j].dev] = Install!Complete
      BY DEF Install!ReadyIsReady, Jobs
    <3>1. Install!Made(j) = Install!Complete
      BY DEF Install!Made
    <3>2. Install!Made(j) \subseteq iDisk[iJob[j].dev]
      BY DEF Install!InstallInv, Install!DiskIsMade, Jobs
    <3>3. iJob[j].dev \in Disks
      <4>1. iJob[j] \in JobRecs
        BY <2>2
      <4> QED BY <4>1 DEF JobRecs
    <3>4. iDisk[iJob[j].dev] \subseteq Parts
      BY <2>2, <3>3
    <3> QED BY <3>1, <3>2, <3>4, PartsAre, Zenon
  <2>4. Install!RefusalIsHarmless
    BY <2>1 DEF Install!RefusalIsHarmless, Install!JobIsTrue, Jobs
  <2>5. Install!WritesAlone
    <3>1. \A i, j \in Requests : Install!Writing(i) /\ Install!Writing(j) => i = j
      BY DEF Install!InstallInv, Install!FlagIsOne, Install!Holds, Install!Working, Install!Writing
    <3>2. \A j \in Jobs : iJob[j].pc = "write" =>
            /\ iJob[j].dev # Stick
            /\ iJob[j].dev \in mounted /\ iJob[j].at < 4 => iJob[j].late
      BY <2>1 DEF Install!JobIsTrue, Install!Writing
    <3> QED BY <3>1, <3>2 DEF Install!WritesAlone, Jobs
  <2>6. Install!EndIsOwn
    BY PageIsOwnIs DEF Install!InstallInv, Install!EndIsOwn, Install!NoJob
  <2> QED BY <2>1, <2>3, <2>4, <2>5, <2>6 DEF Install!InstallIsHonest
<1> QED BY <1>1, <1>2, <1>3, PTL DEF DeviceSpec
=============================================================================
