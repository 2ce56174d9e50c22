---------------------------- MODULE ServerProofs ----------------------------
(***************************************************************************)
(* Proofs about the components of the server, as MCServer composes them:   *)
(* for every set of machines, versions, objects and uploads, and for any   *)
(* number of events.                                                       *)
(***************************************************************************)
EXTENDS MCServer, TLAPS

-----------------------------------------------------------------------------
(* The media store.                                                        *)

\* MediaInv holds at the start.
LEMMA StoreInit == Store!Init => Store!MediaInv
<1> SUFFICES ASSUME Store!Init PROVE Store!MediaInv
  OBVIOUS
<1>1. Store!TypeOK
  BY BoundAssumption DEF Store!Init, Store!TypeOK, Store!NoUpload, Store!NoRequest, Store!NoSweep
<1> QED
  BY <1>1 DEF Store!Init, Store!MediaInv, Store!MediaIsKept, Store!RowHasFile,
     Store!ItemsHaveRows, Store!Named, Store!UploadHasFile, Store!NewRowIsYoung,
     Store!NoUpload, Store!NoRequest, Store!NoSweep

\* A counted step stays in its bound.
LEMMA CountStep == ASSUME Store!TypeOK, Store!Counted PROVE mCount' \in 0..MaxMedia
BY BoundAssumption DEF Store!TypeOK, Store!Counted

\* An upload that finds the file of its object, or makes it.
LEMMA StorePut ==
    ASSUME Store!MediaInv, NEW u \in Two,
           \/ \E o \in Two : Store!postMedia(u, o)
           \/ Store!Put(u) \/ Store!PutTouch(u)
    PROVE  Store!MediaInv'
<1> USE DEF Store!MediaInv, Store!MediaIsKept, Store!RowHasFile, Store!ItemsHaveRows,
            Store!Named, Store!UploadHasFile, Store!NewRowIsYoung, Store!TypeOK
<1>1. ASSUME NEW o \in Two, Store!postMedia(u, o) PROVE Store!MediaInv'
  BY <1>1, CountStep DEF Store!postMedia
<1>2. CASE Store!Put(u)
  BY <1>2 DEF Store!Put
<1>3. CASE Store!PutTouch(u)
  BY <1>3 DEF Store!PutTouch, Store!Touched
<1> QED BY <1>1, <1>2, <1>3

\* The end of an upload: its row, or the removal of the file that it made.
LEMMA StoreAdd ==
    ASSUME Store!MediaInv, NEW u \in Two, Store!AddMedia(u) \/ Store!undoMedia(u)
    PROVE  Store!MediaInv'
<1> USE DEF Store!MediaInv, Store!MediaIsKept, Store!RowHasFile, Store!ItemsHaveRows,
            Store!Named, Store!UploadHasFile, Store!NewRowIsYoung, Store!TypeOK,
            Store!NoUpload
<1>1. CASE Store!AddMedia(u)
  <2>1. /\ up[u].pc = "row"
        /\ UNCHANGED <<file, items, del, save, sweep, raced>>
        /\ \/ mRows' = mRows \cup {up[u].o} /\ mCount' = mCount
           \/ mRows' = mRows /\ mCount' \in 0..MaxMedia
    BY <1>1, CountStep DEF Store!AddMedia, Store!Event
  <2>2. /\ up' \in [Two -> [pc : {"idle", "arrived", "touch", "row", "undo"},
                           o : Two \cup {NoObject}, dup : BOOLEAN]]
        /\ \A w \in Two : w # u => up'[w] = up[w]
        /\ up'[u].pc \in {"idle", "undo"} /\ up'[u].o \in {NoObject, up[u].o}
        /\ up'[u].pc = "undo" => up'[u].o = up[u].o
    <3> DEFINE Upload == [pc : {"idle", "arrived", "touch", "row", "undo"},
                          o : Two \cup {NoObject}, dup : BOOLEAN]
               undone == [up[u] EXCEPT !.pc = "undo"]
    <3>1. up[u] \in Upload /\ Store!NoUpload \in Upload
      OBVIOUS
    <3>2. undone \in Upload /\ undone.pc = "undo" /\ undone.o = up[u].o
      BY <3>1
    <3>3. up' = [up EXCEPT ![u] = Store!NoUpload] \/ up' = [up EXCEPT ![u] = undone]
      BY <1>1 DEF Store!AddMedia
    <3>4. up \in [Two -> Upload]
      OBVIOUS
    <3>5. Store!NoUpload.pc = "idle" /\ Store!NoUpload.o = NoObject
      OBVIOUS
    <3> HIDE DEF undone, Upload, Store!NoUpload
    <3>6. up' \in [Two -> Upload] /\ \A w \in Two : w # u => up'[w] = up[w]
      BY <3>1, <3>2, <3>3, <3>4
    <3>7. up'[u] = Store!NoUpload \/ up'[u] = undone
      BY <3>3, <3>4
    <3> QED BY <3>2, <3>5, <3>6, <3>7 DEF Upload
  <2>3. Store!TypeOK' /\ Store!ItemsHaveRows' /\ Store!Named'
    BY <2>1, <2>2
  <2>4. Store!RowHasFile' /\ Store!UploadHasFile' /\ Store!NewRowIsYoung'
    BY <2>1, <2>2
  <2> QED BY <2>3, <2>4
<1>2. CASE Store!undoMedia(u)
  BY <1>2 DEF Store!undoMedia, Store!Gone, Store!Relied
<1> QED BY <1>1, <1>2

\* A delete and the save of a playlist, each in two steps.
LEMMA StoreRequest ==
    ASSUME Store!MediaInv,
           \/ \E o \in Two : Store!DeleteMedia(o) \/ Store!validatePlaylist(o) \/ Store!dropItem(o)
           \/ Store!DeleteFile \/ Store!SavePlaylist
    PROVE  Store!MediaInv'
<1> USE DEF Store!MediaInv, Store!MediaIsKept, Store!RowHasFile, Store!ItemsHaveRows,
            Store!Named, Store!UploadHasFile, Store!NewRowIsYoung, Store!TypeOK,
            Store!NoRequest
<1>1. ASSUME NEW o \in Two, Store!DeleteMedia(o) PROVE Store!MediaInv'
  BY <1>1, CountStep DEF Store!DeleteMedia
<1>2. ASSUME NEW o \in Two, Store!validatePlaylist(o) PROVE Store!MediaInv'
  BY <1>2, CountStep DEF Store!validatePlaylist
<1>3. ASSUME NEW o \in Two, Store!dropItem(o) PROVE Store!MediaInv'
  BY <1>3, CountStep DEF Store!dropItem
<1>4. CASE Store!DeleteFile
  BY <1>4, CountStep DEF Store!DeleteFile, Store!Gone, Store!Relied, Store!Event
<1>5. CASE Store!SavePlaylist
  BY <1>5 DEF Store!SavePlaylist, Store!ForeignKey
<1> QED BY <1>1, <1>2, <1>3, <1>4, <1>5

\* The sweep, time, and a stop of the process.
LEMMA StoreSweep ==
    ASSUME Store!MediaInv,
           \/ \E o \in Two : Store!Age(o)
           \/ Store!KnownHashes \/ Store!Sweep \/ Store!SweepRemove \/ Store!Stop
           \/ UNCHANGED storeVars
    PROVE  Store!MediaInv'
<1> USE DEF Store!MediaInv, Store!MediaIsKept, Store!RowHasFile, Store!ItemsHaveRows,
            Store!Named, Store!UploadHasFile, Store!NewRowIsYoung, Store!TypeOK,
            Store!NoUpload, Store!NoRequest, Store!NoSweep
<1>1. ASSUME NEW o \in Two, Store!Age(o) PROVE Store!MediaInv'
  BY <1>1 DEF Store!Age, Store!Relied
<1>2. CASE Store!KnownHashes
  BY <1>2 DEF Store!KnownHashes
<1>3. CASE Store!Sweep
  <2>1. CASE sweep.todo = {} /\ sweep' = Store!NoSweep
    BY <1>3, <2>1 DEF Store!Sweep
  <2>2. ASSUME NEW o \in sweep.todo, Store!Orphan(o),
               sweep' = [sweep EXCEPT !.pc = "remove", !.todo = @ \ {o}, !.o = o]
        PROVE  Store!MediaInv'
    <3>1. /\ sweep'.known = sweep.known /\ sweep'.o = o /\ sweep.pc # "idle"
          /\ sweep' \in [pc : {"idle", "walk", "remove"}, known : SUBSET Two,
                         todo : SUBSET Two, o : Two \cup {NoObject}]
      BY <1>3, <2>2 DEF Store!Sweep
    <3> QED BY <1>3, <2>2, <3>1 DEF Store!Sweep, Store!Orphan
  <2>3. ASSUME NEW o \in sweep.todo, sweep' = [sweep EXCEPT !.todo = @ \ {o}]
        PROVE  Store!MediaInv'
    BY <1>3, <2>3 DEF Store!Sweep
  <2> QED BY <1>3, <2>1, <2>2, <2>3 DEF Store!Sweep
<1>4. CASE Store!SweepRemove
  <2>1. /\ sweep.pc = "remove" /\ sweep.o \in Two \ sweep.known
        /\ sweep'.pc = "walk" /\ sweep'.known = sweep.known
        /\ sweep' \in [pc : {"idle", "walk", "remove"}, known : SUBSET Two,
                       todo : SUBSET Two, o : Two \cup {NoObject}]
        /\ file'[sweep.o] = "none" /\ \A o \in Two : o # sweep.o => file'[o] = file[o]
        /\ file' \in [Two -> {"none", "young", "old"}]
        /\ raced \subseteq raced' /\ raced' \subseteq Two
        /\ UNCHANGED <<mRows, items, up, del, save, mCount>>
    BY <1>4 DEF Store!SweepRemove
  <2>2. sweep.o \in mRows => sweep.o \in raced' \/ file[sweep.o] = "none"
    BY <1>4, <2>1 DEF Store!SweepRemove
  <2>3. \A u \in Two : up[u].pc \in {"touch", "row"} /\ up[u].o = sweep.o
                       => sweep.o \in raced' \/ file[sweep.o] = "none"
    BY <1>4, <2>1 DEF Store!SweepRemove
  <2>4. Store!TypeOK' /\ Store!ItemsHaveRows' /\ Store!Named' /\ Store!NewRowIsYoung'
    BY <2>1
  <2>5. Store!RowHasFile'
    BY <2>1, <2>2
  <2>6. Store!UploadHasFile'
    BY <2>1, <2>3
  <2> QED BY <2>4, <2>5, <2>6
<1>5. CASE Store!Stop
  BY <1>5, CountStep DEF Store!Stop, Store!Event
<1>6. CASE UNCHANGED storeVars
  BY <1>6 DEF storeVars
<1> QED BY <1>1, <1>2, <1>3, <1>4, <1>5, <1>6

\* Whatever uploads, deletes, saves and sweeps run between each other's steps, and
\* wherever the process stops: a row has its file, unless a request took the file in
\* the middle of an upload of the same bytes, and an item has its row (postMedia,
\* deleteMedia, Sweep).
THEOREM MediaSafe == Spec => []MediaIsKept
<1>1. Init => Store!MediaInv
  BY StoreInit DEF Init
<1>2. Store!MediaInv /\ [Next]_vars => Store!MediaInv'
  <2> SUFFICES ASSUME Store!MediaInv, Store!Next \/ UNCHANGED storeVars
               PROVE  Store!MediaInv'
    BY DEF Next, OfEnroll, OfMirror, OfStore, OfPlan, vars, storeVars
  <2> QED BY StorePut, StoreAdd, StoreRequest, StoreSweep DEF Store!Next
<1>3. Store!MediaInv => MediaIsKept
  BY DEF Store!MediaInv, MediaIsKept
<1> QED BY <1>1, <1>2, <1>3, PTL DEF Spec

-----------------------------------------------------------------------------
(* The release mirror.                                                     *)

\* MirrorInv holds at the start.
LEMMA MirrorInit == Mirror!Init => Mirror!MirrorInv
<1> SUFFICES ASSUME Mirror!Init PROVE Mirror!MirrorInv
  OBVIOUS
<1> USE DEF Mirror!Init, Mirror!NoJob, Mirror!NoRequest, Mirror!NoFiles
<1>1. Mirror!TypeOK
  BY BoundAssumption DEF Mirror!TypeOK, Mirror!Jobs, Mirror!EmptyStaging
<1>2. Mirror!DoneIsVerified /\ Mirror!Named /\ Mirror!OnlyVerified /\ Mirror!CopyIsKept
  BY DEF Mirror!DoneIsVerified, Mirror!Named, Mirror!OnlyVerified, Mirror!CopyIsKept
<1>3. Mirror!CacheIsDue
  BY DEF Mirror!CacheIsDue, Mirror!Announced
<1> QED BY <1>1, <1>2, <1>3 DEF Mirror!MirrorInv

\* A counted step stays in its bound.
LEMMA MirrorCount == ASSUME Mirror!TypeOK, Mirror!Counted PROVE count' \in 0..MaxMirror
BY BoundAssumption DEF Mirror!TypeOK, Mirror!Counted

\* The mirror with no job.
LEMMA MirrorNoJob ==
    Mirror!NoJob \in Mirror!Jobs /\ Mirror!NoJob.pc = "idle" /\ ~Mirror!NoJob.old
BY DEF Mirror!NoJob, Mirror!Jobs, Mirror!EmptyStaging, Mirror!NoFiles

\* A job begins where none runs.
LEMMA MirrorBegin ==
    ASSUME NEW v \in Two, NEW by \in {"mirror", "bundle"}, Mirror!begin(v, by)
    PROVE  /\ job.pc = "idle" /\ job' \in Mirror!Jobs
           /\ job'.pc = "start" /\ job'.v = v /\ ~job'.old
<1>1. job.pc = "idle" /\ job' = [Mirror!NoJob EXCEPT !.pc = "start", !.v = v, !.by = by]
  BY DEF Mirror!begin
<1>2. job' = [pc |-> "start", v |-> v, by |-> by, files |-> Mirror!EmptyStaging, old |-> FALSE]
  BY <1>1 DEF Mirror!NoJob
<1>3. Mirror!EmptyStaging \in [Mirror!Files -> {Mirror!NoFiles, "good", "bad"}]
  BY DEF Mirror!EmptyStaging
<1>4. job' \in Mirror!Jobs
  BY <1>2, <1>3 DEF Mirror!Jobs
<1>5. job'.pc = "start" /\ job'.v = v /\ job'.old = FALSE
  BY <1>2
<1> QED BY <1>1, <1>4, <1>5

\* The job until its files are verified.
LEMMA MirrorFetch ==
    ASSUME Mirror!MirrorInv,
           \/ Mirror!reportStart \/ Mirror!mirror \/ Mirror!download
           \/ Mirror!installBundle \/ Mirror!extract \/ Mirror!verify
    PROVE  Mirror!MirrorInv'
<1> USE DEF Mirror!MirrorInv, Mirror!TypeOK, Mirror!DoneIsVerified, Mirror!Named,
            Mirror!OnlyVerified, Mirror!CopyIsKept, Mirror!CacheIsDue, Mirror!Announced,
            Mirror!NoFiles, Mirror!Jobs
<1>1. CASE Mirror!reportStart
  BY <1>1 DEF Mirror!reportStart, Mirror!ReportsWorking, Mirror!haveVersion
<1>2. CASE Mirror!mirror
  BY <1>2, MirrorCount DEF Mirror!mirror, Mirror!Fault
<1>3. CASE Mirror!download
  BY <1>3, MirrorCount DEF Mirror!download, Mirror!Fault, Mirror!writeMember
<1>4. CASE Mirror!installBundle
  BY <1>4, MirrorCount DEF Mirror!installBundle, Mirror!Fault
<1>5. CASE Mirror!extract
  BY <1>5, MirrorCount DEF Mirror!extract, Mirror!Fault, Mirror!writeMember
<1>6. CASE Mirror!verify
  BY <1>6 DEF Mirror!verify, Mirror!Verify
<1> QED BY <1>1, <1>2, <1>3, <1>4, <1>5, <1>6

\* The renames of commit, and the reports.
LEMMA MirrorCommit ==
    ASSUME Mirror!MirrorInv,
           \/ Mirror!commitAside \/ Mirror!commitPlace \/ Mirror!commitDrop
           \/ Mirror!reportEnd \/ Mirror!reportRefresh
    PROVE  Mirror!MirrorInv'
<1> USE DEF Mirror!MirrorInv, Mirror!TypeOK, Mirror!DoneIsVerified, Mirror!Named,
            Mirror!OnlyVerified, Mirror!CopyIsKept, Mirror!CacheIsDue, Mirror!Announced,
            Mirror!NoFiles, Mirror!Jobs
<1>1. CASE Mirror!commitAside
  <2>1. /\ job.pc = "aside" /\ job.v \in Two /\ ~job.old
        /\ UNCHANGED <<rows, approved, admin, fleet, excuse>>
        /\ \/ job' = [job EXCEPT !.pc = "place"]
           \/ job' = [job EXCEPT !.pc = "place", !.old = TRUE]
           \/ job' = [job EXCEPT !.pc = "failed"]
    BY <1>1 DEF Mirror!commitAside
  <2>2. job' \in Mirror!Jobs /\ job'.v = job.v /\ job'.files = job.files
    <3>1. CASE job' = [job EXCEPT !.pc = "place"] \/ job' = [job EXCEPT !.pc = "failed"]
      BY <3>1
    <3>2. CASE job' = [job EXCEPT !.pc = "place", !.old = TRUE]
      BY <3>2
    <3> QED BY <2>1, <3>1, <3>2
  <2>3. CASE dest[job.v] = "none"
    <3>1. job'.pc = "place" /\ ~job'.old /\ UNCHANGED <<dest, aside, count>>
      BY <1>1, <2>1, <2>3 DEF Mirror!commitAside, Mirror!haveVersion
    <3> QED BY <2>1, <2>2, <2>3, <3>1 DEF Mirror!Verify
  <2>4. CASE dest[job.v] = "good" /\ job'.pc = "place"
    <3>1. /\ job'.old = TRUE /\ UNCHANGED count
          /\ aside' = [aside EXCEPT ![job.v] = "good"]
          /\ dest' = [dest EXCEPT ![job.v] = "none"]
      BY <1>1, <2>1, <2>4, ZenonT(60) DEF Mirror!commitAside, Mirror!haveVersion
    <3> QED BY <2>1, <2>2, <2>4, <3>1 DEF Mirror!Verify
  <2>5. CASE dest[job.v] = "good" /\ job'.pc # "place"
    <3>1. /\ job'.pc = "failed" /\ ~job'.old /\ count' \in 0..MaxMirror /\ UNCHANGED dest
          /\ aside' = [aside EXCEPT ![job.v] = "none"]
      BY <1>1, <2>1, <2>5, MirrorCount, ZenonT(60) DEF Mirror!commitAside, Mirror!haveVersion, Mirror!Fault
    <3> QED BY <2>1, <2>2, <2>5, <3>1
  <2> QED BY <2>1, <2>3, <2>4, <2>5
<1>2. CASE Mirror!commitPlace
  BY <1>2, MirrorCount DEF Mirror!commitPlace, Mirror!Fault
<1>3. CASE Mirror!commitDrop
  BY <1>3 DEF Mirror!commitDrop
<1>4. CASE Mirror!reportEnd
  BY <1>4 DEF Mirror!reportEnd, Mirror!haveVersion
<1>5. CASE Mirror!reportRefresh
  <2>1. /\ job' \in Mirror!Jobs /\ job'.pc \in {"get", "idle"}
        /\ job'.pc = "get" => job'.v = job.v
        /\ ~job'.old
    BY <1>5, MirrorNoJob DEF Mirror!reportRefresh
  <2>2. job.pc \in {"refreshStart", "refreshEnd"} /\ fleet' = Mirror!Announced(rows)
        /\ UNCHANGED <<rows, approved, dest, aside, admin, excuse, count>>
    BY <1>5 DEF Mirror!reportRefresh, Mirror!refreshFleet
  <2> QED BY <2>1, <2>2
<1> QED BY <1>1, <1>2, <1>3, <1>4, <1>5

\* The requests of the admin, and a stop of the server.
LEMMA MirrorAdmin ==
    ASSUME Mirror!MirrorInv,
           \/ Mirror!NoteReleases
           \/ \E v \in Two : \/ Mirror!mirrorRelease(v) \/ Mirror!uploadBundle(v)
                             \/ Mirror!approveRelease(v)
           \/ Mirror!approveChanged \/ Mirror!approveRead \/ Mirror!approveStart
           \/ Mirror!Restart \/ UNCHANGED mirrorVars
    PROVE  Mirror!MirrorInv'
<1> USE DEF Mirror!MirrorInv, Mirror!TypeOK, Mirror!DoneIsVerified, Mirror!Named,
            Mirror!OnlyVerified, Mirror!CopyIsKept, Mirror!CacheIsDue, Mirror!Announced,
            Mirror!NoFiles, Mirror!NoRequest
<1>1. CASE Mirror!NoteReleases
  BY <1>1 DEF Mirror!NoteReleases
<1>2. ASSUME NEW v \in Two, Mirror!mirrorRelease(v) \/ Mirror!uploadBundle(v)
      PROVE  Mirror!MirrorInv'
  <2>1. /\ job.pc = "idle" /\ job' \in Mirror!Jobs
        /\ job'.pc = "start" /\ job'.v = v /\ ~job'.old
        /\ UNCHANGED <<rows, approved, dest, aside, admin, fleet, excuse>>
    BY <1>2, MirrorBegin DEF Mirror!mirrorRelease, Mirror!uploadBundle, Mirror!InstallBundle
  <2>2. count' \in 0..MaxMirror
    BY <1>2, MirrorCount DEF Mirror!mirrorRelease, Mirror!uploadBundle
  <2> QED BY <2>1, <2>2
<1>3. ASSUME NEW v \in Two, Mirror!approveRelease(v) PROVE Mirror!MirrorInv'
  BY <1>3, MirrorCount DEF Mirror!approveRelease
<1>4. CASE Mirror!approveChanged
  BY <1>4 DEF Mirror!approveChanged, Mirror!FleetChanged, Mirror!refreshFleet
<1>5. CASE Mirror!approveRead
  BY <1>5 DEF Mirror!approveRead
<1>6. CASE Mirror!approveStart
  <2>1. /\ job' \in Mirror!Jobs /\ admin.v \in Two /\ admin' = Mirror!NoRequest
        /\ UNCHANGED <<approved, dest, aside, fleet, count>>
    BY <1>6, MirrorBegin DEF Mirror!approveStart
  <2>2. CASE Mirror!begin(admin.v, "mirror") /\ UNCHANGED <<rows, excuse>>
    <3>1. job.pc = "idle" /\ job'.pc = "start" /\ job'.v = admin.v /\ ~job'.old
      BY <2>1, <2>2, MirrorBegin
    <3> QED BY <1>6, <2>1, <2>2, <3>1 DEF Mirror!approveStart
  <2>3. CASE job.pc # "idle" /\ UNCHANGED job
    BY <1>6, <2>1, <2>3 DEF Mirror!approveStart, Mirror!begin
  <2> QED BY <1>6, <2>2, <2>3 DEF Mirror!approveStart
<1>7. CASE Mirror!Restart
  BY <1>7, MirrorCount, MirrorNoJob DEF Mirror!Restart, Mirror!Fault,
     Mirror!ResetWorkingMirrors, Mirror!CleanStaging, Mirror!Recovers, Mirror!haveVersion
<1>8. CASE UNCHANGED mirrorVars
  BY <1>8 DEF mirrorVars
<1> QED BY <1>1, <1>2, <1>3, <1>4, <1>5, <1>6, <1>7, <1>8

\* Every step keeps MirrorInv.
LEMMA MirrorStep == ASSUME Mirror!MirrorInv, [Next]_vars PROVE Mirror!MirrorInv'
<1> SUFFICES ASSUME Mirror!Next \/ UNCHANGED mirrorVars PROVE Mirror!MirrorInv'
  BY DEF Next, OfEnroll, OfMirror, OfStore, OfPlan, vars, mirrorVars
<1> QED BY MirrorFetch, MirrorCommit, MirrorAdmin DEF Mirror!Next

\* For any number of versions, requests of the admin, failed downloads, failed
\* renames and stops of the server: a release that is shown as mirrored has verified
\* files, and a server with nothing under way names it in its manifests (run1, commit,
\* recoverOld, refreshFleet).
THEOREM MirrorSafe == Spec => []MirrorIsVerified
<1>1. Init => Mirror!MirrorInv
  BY MirrorInit DEF Init
<1>2. Mirror!MirrorInv /\ [Next]_vars => Mirror!MirrorInv'
  BY MirrorStep
<1>3. Mirror!MirrorInv => MirrorIsVerified
  BY DEF Mirror!MirrorInv, MirrorIsVerified, Mirror!MirrorIsVerified, Mirror!CacheFollows,
         Mirror!CacheIsDue
<1> QED BY <1>1, <1>2, <1>3, PTL DEF Spec

\* A step takes a mirrored release off the air only where the invariant has it
\* without files, or in approveStart.
LEMMA MirrorAir == ASSUME Mirror!MirrorInv, Mirror!Next PROVE Mirror!StaysOnTheAir
<1> USE DEF Mirror!MirrorInv, Mirror!TypeOK, Mirror!DoneIsVerified, Mirror!Named,
            Mirror!NoFiles, Mirror!StaysOnTheAir
<1>1. CASE Mirror!reportStart
  BY <1>1 DEF Mirror!reportStart, Mirror!ReportsWorking, Mirror!haveVersion
<1>2. CASE Mirror!reportEnd
  BY <1>2 DEF Mirror!reportEnd, Mirror!haveVersion
<1>3. CASE Mirror!approveStart
  BY <1>3 DEF Mirror!approveStart, Mirror!NoRequest
<1>4. CASE Mirror!Restart
  BY <1>4 DEF Mirror!Restart, Mirror!ResetWorkingMirrors
<1>5. CASE Mirror!NoteReleases
  BY <1>5 DEF Mirror!NoteReleases
<1>6. CASE \/ Mirror!reportRefresh \/ Mirror!mirror \/ Mirror!download
           \/ Mirror!installBundle \/ Mirror!extract \/ Mirror!verify
           \/ Mirror!commitAside \/ Mirror!commitPlace \/ Mirror!commitDrop
           \/ \E v \in Two : \/ Mirror!mirrorRelease(v) \/ Mirror!uploadBundle(v)
                             \/ Mirror!approveRelease(v)
           \/ Mirror!approveChanged \/ Mirror!approveRead
  <2>1. rows' = rows
    BY <1>6 DEF Mirror!reportRefresh, Mirror!mirror, Mirror!download, Mirror!installBundle,
       Mirror!extract, Mirror!verify, Mirror!commitAside, Mirror!commitPlace,
       Mirror!commitDrop, Mirror!mirrorRelease, Mirror!uploadBundle,
       Mirror!approveRelease, Mirror!approveChanged, Mirror!approveRead
  <2> QED BY <2>1
<1> QED BY <1>1, <1>2, <1>3, <1>4, <1>5, <1>6 DEF Mirror!Next

\* No report, download, rename or restart of a job takes a mirrored release off the
\* air: its row stays "done" unless a rename failed and left the directory empty
\* (run1 reports "working" and "failed" only for a version it does not have).
THEOREM MirrorStaysUp == Spec => StaysOnTheAir
<1>1. Init => Mirror!MirrorInv
  BY MirrorInit DEF Init
<1>2. Mirror!MirrorInv /\ [Next]_vars => Mirror!MirrorInv'
  BY MirrorStep
<1>3. Mirror!MirrorInv /\ [Next]_vars => [Mirror!StaysOnTheAir]_mirrorVars
  <2> SUFFICES ASSUME Mirror!MirrorInv, Mirror!Next PROVE Mirror!StaysOnTheAir
    BY DEF Next, OfEnroll, OfMirror, OfStore, OfPlan, vars, mirrorVars
  <2> QED BY MirrorAir
<1> QED BY <1>1, <1>2, <1>3, PTL DEF Spec, StaysOnTheAir

-----------------------------------------------------------------------------
(* Enrollment.                                                             *)

\* The three kinds of answers that Enroll gives to machine m, which sent s: nothing
\* new, a request that waits, and a new token.
OldAnswer(res, s) ==
    /\ res.row \in Enroll!Rows /\ res.row.exists = row.exists
    /\ res.row.paired = row.paired /\ res.row.token = row.token
    /\ res.reqs \subseteq reqs
    /\ res.secret \in {0, s} /\ res.secret \in 0..MaxSecrets

WaitAnswer(res, m) ==
    /\ res.row = row /\ res.status = "pending" /\ res.secret = secret
    /\ \E kept \in SUBSET reqs, n \in Enroll!Requests :
         /\ res.reqs = kept \cup {n}
         /\ \A r \in kept : r.hw = m => r.approved
         /\ n.claim = secret /\ n.hw = m /\ ~n.approved
         /\ n.collides <=> row.exists /\ row.paired
         /\ n.id = secret \/ \E r \in reqs : r.id = n.id /\ r.hw = m

PairAnswer(res, m) ==
    /\ res.row \in Enroll!Rows /\ res.row.exists /\ res.row.paired
    /\ res.row.token = secret /\ res.secret = secret
    /\ res.reqs = {} /\ res.status = "paired"
    /\ row.paired /\ ~copied => \/ m \in approvedFor
                                \/ m \in WithToken /\ etok.mode = "auto" /\ row.hw = m

\* A request that is rolled back gives nothing new.
LEMMA RollbackAnswer ==
    ASSUME Enroll!EnrollInv, NEW status, NEW s
    PROVE  /\ OldAnswer(Enroll!Rollback(status), s)
           /\ Enroll!Rollback(status).uses \in 0..MaxUses
BY BoundAssumption DEF OldAnswer, Enroll!Rollback, Enroll!EnrollInv,
   Enroll!RequestsAreSound, Enroll!TypeOK

\* makePending: the request of the machine takes the new claim, or a new one comes,
\* or the list is full.
LEMMA PendingAnswer ==
    ASSUME Enroll!EnrollInv, secret <= MaxSecrets, NEW m \in Two, NEW s,
           NEW collides \in BOOLEAN, collides <=> row.exists /\ row.paired,
           NEW u \in 0..MaxUses
    PROVE  LET res == Enroll!makePending(m, collides, u)
           IN  /\ OldAnswer(res, s) \/ WaitAnswer(res, m)
               /\ res.uses \in 0..MaxUses
<1> DEFINE res == Enroll!makePending(m, collides, u)
           new(id, old) == [id |-> id, claim |-> secret, hw |-> m, collides |-> collides,
                            approved |-> FALSE, old |-> old]
           made(set) == [row |-> row, reqs |-> set, uses |-> u,
                         status |-> "pending", secret |-> secret]
           sw == Enroll!sweepPending
           first == CHOOSE q \in Enroll!Mine(m) : \A p \in Enroll!Mine(m) : q.id <= p.id
<1>1. /\ reqs \subseteq Enroll!Requests /\ sw \subseteq reqs
      /\ secret \in 1..MaxSecrets /\ Enroll!OneWaits
  BY BoundAssumption DEF Enroll!EnrollInv, Enroll!RequestsAreSound, Enroll!TypeOK,
     Enroll!sweepPending
<1>2. CASE Enroll!Mine(m) # {}
  <2>1. PICK q \in Enroll!Mine(m) : TRUE
    BY <1>2
  <2>2. /\ q \in sw /\ q.hw = m /\ ~q.approved /\ q \in Enroll!Requests
        /\ \A p \in Enroll!Mine(m) : p = q
    BY <1>1, <2>1 DEF Enroll!Mine, Enroll!OneWaits
  <2>3. q.id <= q.id
    BY <2>2 DEF Enroll!Requests
  <2>4. first = q
    BY <2>1, <2>2, <2>3
  <2>5. res = made((sw \ {q}) \cup {new(q.id, q.old)})
    BY <1>2, <2>4 DEF Enroll!makePending
  <2>6. new(q.id, q.old) \in Enroll!Requests
    BY <1>1, <2>2 DEF Enroll!Requests
  <2>7. \A r \in sw \ {q} : r.hw = m => r.approved
    BY <1>1, <2>2 DEF Enroll!OneWaits
  <2>8. WaitAnswer(res, m)
    <3> DEFINE n == new(q.id, q.old)
    <3>1. /\ res.row = row /\ res.status = "pending" /\ res.secret = secret
          /\ res.reqs = (sw \ {q}) \cup {n}
      BY <2>5
    <3>2. /\ n.claim = secret /\ n.hw = m /\ ~n.approved
          /\ n.collides = collides /\ n.id = q.id
      OBVIOUS
    <3>3. sw \ {q} \in SUBSET reqs /\ q \in reqs
      BY <1>1, <2>2
    <3> HIDE DEF n, res
    <3> QED BY <2>2, <2>6, <2>7, <3>1, <3>2, <3>3, ZenonT(60) DEF WaitAnswer, n
  <2> QED BY <2>5, <2>8
<1>3. CASE Enroll!Mine(m) = {} /\ res = Enroll!Rollback("error")
  BY <1>3, RollbackAnswer
<1>4. CASE Enroll!Mine(m) = {} /\ res = made(sw \cup {new(secret, FALSE)})
  <2> DEFINE n == new(secret, FALSE)
  <2>1. /\ res.row = row /\ res.status = "pending" /\ res.secret = secret
        /\ res.reqs = sw \cup {n}
    BY <1>4
  <2>2. /\ n.claim = secret /\ n.hw = m /\ ~n.approved
        /\ n.collides = collides /\ n.id = secret
    OBVIOUS
  <2>3. n \in Enroll!Requests
    BY <1>1 DEF Enroll!Requests
  <2>4. \A r \in sw : r.hw = m => r.approved
    BY <1>4 DEF Enroll!Mine
  <2> HIDE DEF n, res
  <2>5. WaitAnswer(res, m)
    BY <1>1, <2>1, <2>2, <2>3, <2>4 DEF WaitAnswer
  <2>6. res.uses = u
    BY <1>4
  <2> QED BY <2>5, <2>6 DEF res
<1>5. Enroll!Mine(m) = {} => \/ res = Enroll!Rollback("error")
                             \/ res = made(sw \cup {new(secret, FALSE)})
  BY DEF Enroll!makePending
<1> QED BY <1>2, <1>3, <1>4, <1>5

\* A request that may pair gets a new token.
LEMMA PairRowAnswer ==
    ASSUME Enroll!EnrollInv, secret <= MaxSecrets, NEW m \in Two,
           NEW r \in Enroll!Rows, r.exists, NEW u \in 0..MaxUses,
           row.paired /\ ~copied => \/ m \in approvedFor
                                    \/ m \in WithToken /\ etok.mode = "auto" /\ row.hw = m
    PROVE  PairAnswer(Enroll!pairRow(r, m, u), m) /\ Enroll!pairRow(r, m, u).uses = u
<1> DEFINE t == Enroll!touchEnrolled(r, m)
           d == [t EXCEPT !.token = secret, !.paired = TRUE,
                   !.pend = NoMachine, !.fresh = FALSE, !.conflict = NoMachine]
<1>1. t \in Enroll!Rows /\ t.exists
  BY DEF Enroll!touchEnrolled, Enroll!Rows
<1>2. secret \in 0..MaxSecrets
  BY BoundAssumption DEF Enroll!EnrollInv, Enroll!RequestsAreSound, Enroll!TypeOK
<1> HIDE DEF t
<1>3. d \in Enroll!Rows /\ d.exists /\ d.paired /\ d.token = secret
  BY <1>1, <1>2 DEF Enroll!Rows
<1>4. Enroll!pairRow(r, m, u) = [row |-> d, reqs |-> {}, uses |-> u,
                                 status |-> "paired", secret |-> secret]
  BY DEF Enroll!pairRow, t
<1> HIDE DEF d
<1> QED BY <1>3, <1>4 DEF PairAnswer

\* What machine m may send: what it holds, nothing, or the token of its TOML.
Sends(m, s) ==
    \/ s \in Enroll!Holds(m) \cup {0}
    \/ s = Enroll!Etok /\ m \in WithToken

\* Every answer is one of the three kinds.
LEMMA AnyAnswer ==
    ASSUME Enroll!EnrollInv, secret <= MaxSecrets, NEW m \in Two,
           NEW s \in Enroll!Etok..MaxSecrets, Sends(m, s)
    PROVE  LET res == Enroll!Enroll(m, s)
           IN  /\ OldAnswer(res, s) \/ WaitAnswer(res, m) \/ PairAnswer(res, m)
               /\ res.uses \in 0..MaxUses
<1> DEFINE res == Enroll!Enroll(m, s)
           Good(x) == /\ OldAnswer(x, s) \/ WaitAnswer(x, m) \/ PairAnswer(x, m)
                      /\ x.uses \in 0..MaxUses
           claims == {r \in Enroll!sweepPending : r.claim = s}
<1>1. /\ row \in Enroll!Rows /\ reqs \subseteq Enroll!Requests
      /\ etok \in [mode : TokenModes, uses : 0..MaxUses, revoked : BOOLEAN]
      /\ Enroll!PairedHasRow /\ Enroll!sweepPending \subseteq reqs
  BY DEF Enroll!EnrollInv, Enroll!RequestsAreSound, Enroll!TypeOK, Enroll!sweepPending
<1>2. /\ row.exists \in BOOLEAN /\ row.paired \in BOOLEAN /\ etok.uses \in 0..MaxUses
      /\ row.paired => row.exists
  BY <1>1 DEF Enroll!Rows, Enroll!PairedHasRow
<1> HIDE DEF Good
<1>3. CASE s = 0
  <2>1. res = Enroll!makePending(m, Enroll!Taken, etok.uses)
    BY <1>3 DEF Enroll!Enroll, Enroll!Etok
  <2> QED BY <1>2, <2>1, PendingAnswer DEF Good, Enroll!Taken
<1>4. CASE s = Enroll!Etok
  <2>1. CASE etok.revoked \/ etok.uses >= MaxUses
    BY <1>4, <2>1, RollbackAnswer DEF Enroll!Enroll, Enroll!Etok, Good
  <2>2. CASE ~(etok.revoked \/ etok.uses >= MaxUses)
    <3>1. res = Enroll!enrollWithEnrollmentToken(m) /\ etok.uses + 1 \in 0..MaxUses
      BY <1>2, <1>4, <2>2, BoundAssumption DEF Enroll!Enroll, Enroll!Etok
    <3>2. m \in WithToken \/ Enroll!SecretsAreOwn
      BY DEF Enroll!EnrollInv
    <3>3. m \in WithToken
      <4>1. \A x \in Two : card[x].token # Enroll!Etok /\ card[x].claim # Enroll!Etok
        BY DEF Enroll!EnrollInv, Enroll!RequestsAreSound, Enroll!TypeOK, Enroll!Cards, Enroll!Etok
      <4> QED BY <1>4, <4>1 DEF Sends, Enroll!Holds, Enroll!EnrollInv, Enroll!SecretsAreOwn, Enroll!Etok
    <3>4. CASE Enroll!Taken /\ etok.mode = "auto" /\ row.hw = m
      <4>1. res = Enroll!pairRow(row, m, etok.uses + 1)
        BY <3>1, <3>4 DEF Enroll!enrollWithEnrollmentToken
      <4> QED BY <1>1, <3>1, <3>3, <3>4, <4>1, PairRowAnswer DEF Good, Enroll!Taken
    <3>5. CASE Enroll!Taken /\ ~(etok.mode = "auto" /\ row.hw = m)
      <4>1. res = Enroll!makePending(m, TRUE, etok.uses + 1)
        BY <3>1, <3>5 DEF Enroll!enrollWithEnrollmentToken
      <4> QED BY <3>1, <3>5, <4>1, PendingAnswer DEF Good, Enroll!Taken
    <3>6. CASE ~Enroll!Taken /\ etok.mode = "auto"
      <4>1. res = Enroll!pairRow(Enroll!upsertDevice(row, m), m, etok.uses + 1)
        BY <3>1, <3>6 DEF Enroll!enrollWithEnrollmentToken
      <4>2. Enroll!upsertDevice(row, m) \in Enroll!Rows /\ Enroll!upsertDevice(row, m).exists
        BY <1>1, <3>6 DEF Enroll!upsertDevice, Enroll!Rows, Enroll!Taken
      <4> QED BY <1>2, <3>1, <3>6, <4>1, <4>2, PairRowAnswer DEF Good, Enroll!Taken
    <3>7. CASE ~Enroll!Taken /\ etok.mode # "auto"
      <4>1. res = Enroll!makePending(m, FALSE, etok.uses + 1)
        BY <3>1, <3>7 DEF Enroll!enrollWithEnrollmentToken
      <4> QED BY <3>1, <3>7, <4>1, PendingAnswer DEF Good, Enroll!Taken
    <3> QED BY <3>4, <3>5, <3>6, <3>7 DEF Good
  <2> QED BY <2>1, <2>2 DEF Good
<1>5. CASE s > 0 /\ s = row.token
  <2> DEFINE t == Enroll!touchEnrolled(row, m)
  <2>1. res = [row |-> t, reqs |-> Enroll!sweepPending,
               uses |-> etok.uses, status |-> "paired", secret |-> s]
    BY <1>5 DEF Enroll!Enroll, Enroll!Etok
  <2>2. /\ t \in Enroll!Rows /\ t.exists = row.exists /\ t.paired = row.paired
        /\ t.token = row.token
    BY <1>1 DEF Enroll!touchEnrolled, Enroll!Rows
  <2>3. s \in 0..MaxSecrets
    BY <1>5 DEF Enroll!Etok
  <2> HIDE DEF t
  <2> QED BY <1>1, <1>2, <2>1, <2>2, <2>3 DEF OldAnswer, Good
<1>6. CASE s > 0 /\ s # row.token /\ claims # {}
  <2> DEFINE r == CHOOSE r \in claims : TRUE
  <2>1. res = Enroll!answerClaim(r, m)
    BY <1>6 DEF Enroll!Enroll, Enroll!Etok
  <2>2. r \in reqs /\ r.claim = s
    BY <1>1, <1>6
  <2> HIDE DEF r
  <2>3. CASE ~r.approved
    <3>1. res = [row |-> row, reqs |-> Enroll!sweepPending, uses |-> etok.uses,
                 status |-> "pending", secret |-> s]
      BY <2>1, <2>2, <2>3 DEF Enroll!answerClaim
    <3>2. s \in 0..MaxSecrets
      BY <1>6 DEF Enroll!Etok
    <3> QED BY <1>1, <1>2, <3>1, <3>2 DEF OldAnswer, Good
  <2>4. CASE r.approved /\ row.exists
    <3>1. res = Enroll!pairRow(row, m, etok.uses)
      BY <2>1, <2>4 DEF Enroll!answerClaim
    <3>2. s \in Enroll!Holds(m)
      BY <1>6 DEF Sends, Enroll!Etok
    <3>3. ~copied => r.hw = m
      BY <2>2, <3>2 DEF Enroll!EnrollInv, Enroll!SecretsAreOwn
    <3>4. r.hw \in approvedFor
      BY <2>2, <2>4 DEF Enroll!EnrollInv, Enroll!AdminSaw
    <3>5. row.paired /\ ~copied => \/ m \in approvedFor
                                   \/ m \in WithToken /\ etok.mode = "auto" /\ row.hw = m
      BY <3>3, <3>4
    <3>6. PairAnswer(Enroll!pairRow(row, m, etok.uses), m)
          /\ Enroll!pairRow(row, m, etok.uses).uses = etok.uses
      BY <1>1, <1>2, <2>4, <3>5, PairRowAnswer
    <3>7. PairAnswer(res, m) /\ res.uses = etok.uses
      BY <3>1, <3>6
    <3> QED BY <1>2, <3>7 DEF Good
  <2>5. CASE r.approved /\ ~row.exists
    BY <2>1, <2>5, RollbackAnswer DEF Enroll!answerClaim, Good
  <2> QED BY <2>3, <2>4, <2>5
<1>7. CASE s # 0 /\ s # Enroll!Etok /\ ~(s > 0 /\ s = row.token)
             /\ ~(s > 0 /\ s # row.token /\ claims # {})
  <2>1. res = Enroll!Rollback("revoked")
    BY <1>7 DEF Enroll!Enroll
  <2> QED BY <2>1, RollbackAnswer DEF Good
<1> QED BY <1>3, <1>4, <1>5, <1>6, <1>7 DEF Good

\* What the device makes of an answer.
LEMMA CardAnswer ==
    ASSUME NEW c \in Enroll!Cards, NEW by, NEW res, res.secret \in 0..MaxSecrets
    PROVE  LET n == Enroll!SaveServer(Enroll!takeEnrollment(c, by, res), by, res)
           IN  /\ n \in Enroll!Cards
               /\ n.token \in {c.token, res.secret}
               /\ n.claim \in {c.claim, 0, res.secret}
<1> DEFINE t == Enroll!takeEnrollment(c, by, res)
           n == Enroll!SaveServer(t, by, res)
<1>1. /\ t \in Enroll!Cards /\ t.token \in {c.token, res.secret}
      /\ t.claim \in {c.claim, 0, res.secret}
  <2> USE DEF Enroll!Cards
  <2>1. CASE res.status = "paired"
    <3>1. t = [c EXCEPT !.token = res.secret, !.claim = 0]
      BY <2>1 DEF Enroll!takeEnrollment
    <3>2. 0 \in 0..MaxSecrets
      BY BoundAssumption
    <3> HIDE DEF t
    <3>3. t.token = res.secret /\ t.claim = 0
      BY <3>1
    <3>4. t \in Enroll!Cards
      BY <3>1, <3>2
    <3> QED BY <3>3, <3>4
  <2>2. CASE res.status = "pending"
    <3>1. t = [c EXCEPT !.claim = res.secret]
      BY <2>2 DEF Enroll!takeEnrollment
    <3> QED BY <3>1
  <2>3. CASE res.status = "revoked" /\ by = "claim"
    <3>1. t = [c EXCEPT !.claim = 0]
      BY <2>3 DEF Enroll!takeEnrollment
    <3> QED BY <3>1, BoundAssumption
  <2>4. CASE res.status = "revoked" /\ by = "loop"
    <3>1. t = [c EXCEPT !.revoked = TRUE]
      BY <2>4 DEF Enroll!takeEnrollment
    <3> QED BY <3>1
  <2>5. CASE /\ res.status \notin {"paired", "pending"}
             /\ ~(res.status = "revoked" /\ by \in {"claim", "loop"})
    <3>1. t = c
      BY <2>5 DEF Enroll!takeEnrollment
    <3> QED BY <3>1
  <2> QED BY <2>1, <2>2, <2>3, <2>4, <2>5
<1> HIDE DEF t
<1>2. n \in Enroll!Cards /\ n.token = t.token /\ n.claim = t.claim
  BY <1>1 DEF Enroll!SaveServer, Enroll!Cards
<1> QED BY <1>1, <1>2 DEF t

\* A request, its answer or the loss of it, and the end of the round.
LEMMA ExchangeInv ==
    ASSUME Enroll!EnrollInv, NEW m \in Two, NEW by,
           NEW s \in Enroll!Etok..MaxSecrets, Sends(m, s), Enroll!Exchange(m, s, by),
           Enroll!Done(m) \/ UNCHANGED round
    PROVE  Enroll!EnrollInv' /\ Enroll!PairedRowIsKept
<1> DEFINE res == Enroll!Enroll(m, s)
           n == Enroll!SaveServer(Enroll!takeEnrollment(card[m], by, res), by, res)
           Types == /\ etok' \in [mode : TokenModes, uses : 0..MaxUses, revoked : BOOLEAN]
                    /\ card' \in [Two -> Enroll!Cards]
                    /\ round' \in [Two -> [pc : {"idle", "poll", "claim", "pair", "drop"},
                                           sent : Enroll!Etok..MaxSecrets]]
                    /\ granted' \in Two \cup {NoMachine}
                    /\ events' \in 0..MaxEvents
<1> USE DEF Enroll!EnrollInv, Enroll!RequestsAreSound
<1>1. /\ Enroll!TypeOK /\ secret <= MaxSecrets
      /\ row' = res.row /\ reqs' = res.reqs /\ etok' = [etok EXCEPT !.uses = res.uses]
      /\ secret' = IF res.secret = secret THEN secret + 1 ELSE secret
      /\ granted' = IF res.secret = secret /\ res.status = "paired" THEN m ELSE granted
      /\ card' = [card EXCEPT ![m] = n] \/ UNCHANGED card
      /\ UNCHANGED <<seen, approvedFor, copied>>
  BY DEF Enroll!Exchange, Enroll!postEnroll
<1>2. events' \in 0..MaxEvents
  BY <1>1, BoundAssumption DEF Enroll!Exchange, Enroll!Spend, Enroll!TypeOK
<1>3. /\ OldAnswer(res, s) \/ WaitAnswer(res, m) \/ PairAnswer(res, m)
      /\ res.uses \in 0..MaxUses
  BY <1>1, AnyAnswer
<1>4. /\ secret \in 1..MaxSecrets /\ \A x \in Two : \A y \in Enroll!Holds(x) : y < secret
      /\ \A r \in reqs : r.claim \in 1..MaxSecrets /\ r.id \in 1..MaxSecrets
      /\ reqs \subseteq Enroll!Requests
  BY <1>1, BoundAssumption DEF Enroll!TypeOK, Enroll!SecretsAreOld, Enroll!Requests
<1> DEFINE Known == /\ \A x \in Two : Enroll!Holds(x) \subseteq Int
                    /\ secret \in Int /\ seen.id \in Int
<1>0. Known
  BY <1>1, BoundAssumption DEF Enroll!TypeOK, Enroll!Holds, Enroll!Cards, Enroll!Etok
<1> HIDE DEF Known
<1>5. res.secret \in 0..MaxSecrets
  BY <1>3, <1>4 DEF OldAnswer, WaitAnswer, PairAnswer
<1> HIDE DEF res
<1>6. /\ n \in Enroll!Cards /\ n.token \in {card[m].token, res.secret}
      /\ n.claim \in {card[m].claim, 0, res.secret}
  BY <1>1, <1>5, CardAnswer DEF Enroll!TypeOK
<1> HIDE DEF n
<1>7. Types
  <2>1. etok' \in [mode : TokenModes, uses : 0..MaxUses, revoked : BOOLEAN]
    BY <1>1, <1>3 DEF Enroll!TypeOK
  <2>2. card' \in [Two -> Enroll!Cards]
    BY <1>1, <1>6 DEF Enroll!TypeOK
  <2>3. round' \in [Two -> [pc : {"idle", "poll", "claim", "pair", "drop"},
                           sent : Enroll!Etok..MaxSecrets]]
    BY <1>1, BoundAssumption DEF Enroll!Done, Enroll!Idle, Enroll!Etok, Enroll!TypeOK
  <2> QED BY <1>1, <1>2, <2>1, <2>2, <2>3 DEF Enroll!TypeOK
<1>8. \A x \in Two : Enroll!Holds(x)' \subseteq
                       Enroll!Holds(x) \cup {0} \cup (IF x = m THEN {res.secret} ELSE {})
  BY <1>1, <1>6 DEF Enroll!Holds, Enroll!Done, Enroll!Idle, Enroll!TypeOK
<1>9. \A x \in Two : (round[x].sent = Enroll!Etok)' => x \in WithToken
  BY <1>1 DEF Enroll!Done, Enroll!Idle, Enroll!Etok, Enroll!TypeOK, Enroll!SecretsAreOwn
<1>10. Types /\ Enroll!Rows = Enroll!Rows' /\ Enroll!Requests = Enroll!Requests'
  BY <1>7 DEF Enroll!Rows, Enroll!Requests
<1> HIDE DEF Types
<1>11. CASE OldAnswer(res, s)
  <2>1. res.secret \in Enroll!Holds(m) \cup {0} /\ secret' = secret
    BY <1>1, <1>4, <1>11 DEF OldAnswer, Sends, Enroll!Etok
  <2>2. /\ row' \in Enroll!Rows /\ row'.exists = row.exists /\ row'.paired = row.paired
        /\ row'.token = row.token /\ reqs' \subseteq reqs
    BY <1>1, <1>11 DEF OldAnswer
  <2>3. \A x \in Two : Enroll!Holds(x)' \subseteq Enroll!Holds(x) \cup {0}
    BY <1>8, <2>1
  <2>4. Enroll!TypeOK'
    BY <1>1, <1>10, <2>1, <2>2 DEF Enroll!TypeOK, Types
  <2>5. Enroll!CollisionsMarked' /\ Enroll!ApprovedHasRow' /\ Enroll!PairedHasRow'
    BY <2>2 DEF Enroll!CollisionsMarked, Enroll!ApprovedHasRow, Enroll!PairedHasRow,
                Enroll!Taken
  <2>6. Enroll!OneWaits' /\ Enroll!AdminSaw'
    BY <1>1, <2>2 DEF Enroll!OneWaits, Enroll!AdminSaw
  <2>7. Enroll!SecretsAreOld'
    BY <1>1, <1>4, <2>1, <2>2, <2>3 DEF Enroll!SecretsAreOld
  <2>8. Enroll!SecretsAreOwn'
    BY <1>1, <1>4, <1>9, <2>2, <2>3 DEF Enroll!SecretsAreOwn
  <2>9. Enroll!PairedRowIsKept
    BY <2>2 DEF Enroll!PairedRowIsKept
  <2> QED BY <2>4, <2>5, <2>6, <2>7, <2>8, <2>9
<1>12. CASE WaitAnswer(res, m)
  <2>1. /\ row' = row /\ secret' = secret + 1 /\ res.secret = secret
    BY <1>1, <1>12 DEF WaitAnswer
  <2>2. PICK kept \in SUBSET reqs, q \in Enroll!Requests :
         /\ reqs' = kept \cup {q}
         /\ \A r \in kept : r.hw = m => r.approved
         /\ q.claim = secret /\ q.hw = m /\ ~q.approved
         /\ q.collides <=> row.exists /\ row.paired
         /\ q.id = secret \/ \E r \in reqs : r.id = q.id /\ r.hw = m
    BY <1>1, <1>12 DEF WaitAnswer
  <2>3. Enroll!TypeOK'
    BY <1>1, <1>4, <1>10, <2>1, <2>2, BoundAssumption DEF Enroll!TypeOK, Types
  <2>4. Enroll!CollisionsMarked' /\ Enroll!ApprovedHasRow' /\ Enroll!PairedHasRow'
    BY <2>1, <2>2 DEF Enroll!CollisionsMarked, Enroll!ApprovedHasRow, Enroll!PairedHasRow,
                Enroll!Taken
  <2>5. Enroll!OneWaits' /\ Enroll!AdminSaw'
    BY <1>1, <1>4, <2>2 DEF Enroll!OneWaits, Enroll!AdminSaw, Enroll!SecretsAreOld
  <2>6. Enroll!SecretsAreOld'
    BY <1>0, <1>1, <1>4, <1>8, <2>1, <2>2 DEF Enroll!SecretsAreOld, Known
  <2>7. Enroll!SecretsAreOwn'
    BY <1>1, <1>4, <1>8, <1>9, <2>1, <2>2 DEF Enroll!SecretsAreOwn, Enroll!SecretsAreOld
  <2>8. Enroll!PairedRowIsKept
    BY <2>1 DEF Enroll!PairedRowIsKept
  <2> QED BY <2>3, <2>4, <2>5, <2>6, <2>7, <2>8
<1>13. CASE PairAnswer(res, m)
  <2>1. /\ row' \in Enroll!Rows /\ row'.exists /\ row'.paired /\ reqs' = {}
        /\ secret' = secret + 1 /\ res.secret = secret /\ granted' = m
    BY <1>1, <1>13 DEF PairAnswer
  <2>2. Enroll!TypeOK'
    BY <1>1, <1>4, <1>10, <2>1, BoundAssumption DEF Enroll!TypeOK, Types
  <2>3. /\ Enroll!CollisionsMarked' /\ Enroll!ApprovedHasRow' /\ Enroll!PairedHasRow'
        /\ Enroll!OneWaits' /\ Enroll!AdminSaw'
    BY <2>1 DEF Enroll!CollisionsMarked, Enroll!ApprovedHasRow, Enroll!PairedHasRow,
                Enroll!OneWaits, Enroll!AdminSaw
  <2>4. Enroll!SecretsAreOld'
    BY <1>0, <1>1, <1>4, <1>8, <2>1 DEF Enroll!SecretsAreOld, Known
  <2>5. Enroll!SecretsAreOwn'
    BY <1>9, <2>1 DEF Enroll!SecretsAreOwn
  <2>6. Enroll!PairedRowIsKept
    BY <1>13, <2>1 DEF Enroll!PairedRowIsKept, PairAnswer
  <2> QED BY <2>2, <2>3, <2>4, <2>5, <2>6
<1> QED BY <1>3, <1>11, <1>12, <1>13

\* EnrollInv holds at the start.
LEMMA EnrollInit == Enroll!Init => Enroll!EnrollInv
<1> SUFFICES ASSUME Enroll!Init PROVE Enroll!EnrollInv
  OBVIOUS
<1> USE DEF Enroll!Init, Enroll!NoRow, Enroll!NewCard, Enroll!Idle, Enroll!NoRequest, Enroll!Etok
<1>1. Enroll!TypeOK
  <2>1. row \in Enroll!Rows /\ card \in [Two -> Enroll!Cards]
    BY BoundAssumption DEF Enroll!Rows, Enroll!Cards
  <2>2. /\ etok \in [mode : TokenModes, uses : 0..MaxUses, revoked : BOOLEAN]
        /\ round \in [Two -> [pc : {"idle", "poll", "claim", "pair", "drop"},
                              sent : Enroll!Etok..MaxSecrets]]
    <3>1. etok.mode \in TokenModes /\ etok.uses = 0 /\ etok.revoked = FALSE
          /\ etok = [mode |-> etok.mode, uses |-> 0, revoked |-> FALSE]
      OBVIOUS
    <3>2. 0 \in 0..MaxUses /\ 0 \in Enroll!Etok..MaxSecrets
      BY BoundAssumption
    <3> QED BY <3>1, <3>2
  <2>3. seen \in [id : 0..MaxSecrets, hw : Two \cup {NoMachine}]
    BY BoundAssumption
  <2>4. secret \in 1..(MaxSecrets + 1) /\ events \in 0..MaxEvents
    BY BoundAssumption
  <2>5. /\ reqs \subseteq Enroll!Requests /\ copied \in BOOLEAN /\ approvedFor \subseteq Two
        /\ granted \in Two \cup {NoMachine}
    OBVIOUS
  <2> HIDE DEF Enroll!Init
  <2> QED BY <2>1, <2>2, <2>3, <2>4, <2>5 DEF Enroll!TypeOK
<1> QED
  BY <1>1 DEF Enroll!EnrollInv, Enroll!RequestsAreSound, Enroll!CollisionsMarked,
     Enroll!ApprovedHasRow, Enroll!PairedHasRow, Enroll!OneWaits, Enroll!AdminSaw,
     Enroll!SecretsAreOld, Enroll!SecretsAreOwn, Enroll!Holds

\* A counted step stays in its bound.
LEMMA EnrollCount ==
    ASSUME Enroll!TypeOK, NEW k \in Nat, Enroll!Spend(k) PROVE events' \in 0..MaxEvents
BY BoundAssumption DEF Enroll!TypeOK, Enroll!Spend

\* The passes of the sync loop that ask the server for a pairing.
LEMMA EnrollAsk ==
    ASSUME Enroll!EnrollInv, NEW m \in Two,
           Enroll!claimRound(m) \/ Enroll!Pair(m) \/ Enroll!PairByHand(m)
    PROVE  Enroll!EnrollInv' /\ (Enroll!PairedRowIsKept \/ UNCHANGED row)
<1>1. /\ \A x \in Two : card[x] \in Enroll!Cards /\ round[x].sent \in Enroll!Etok..MaxSecrets
      /\ Enroll!TypeOK
  BY DEF Enroll!EnrollInv, Enroll!RequestsAreSound, Enroll!TypeOK
<1>2. Enroll!Etok \in Enroll!Etok..MaxSecrets /\ 0 \in Enroll!Etok..MaxSecrets
      /\ \A x \in 0..MaxSecrets : x \in Enroll!Etok..MaxSecrets
  BY BoundAssumption DEF Enroll!Etok
<1>3. ASSUME NEW s \in Enroll!Etok..MaxSecrets, Sends(m, s)
      PROVE  Enroll!OnWire(m, s) \in Enroll!Etok..MaxSecrets /\ Sends(m, Enroll!OnWire(m, s))
  BY <1>1, <1>2, <1>3 DEF Enroll!OnWire, Sends, Enroll!Holds, Enroll!Cards
<1>4. CASE Enroll!claimRound(m)
  <2>1. Sends(m, round[m].sent)
    BY DEF Sends, Enroll!Holds
  <2> QED BY <1>1, <1>4, <2>1, ExchangeInv DEF Enroll!claimRound
<1>5. CASE Enroll!Pair(m) /\ card[m].token = 0
  <2>1. Sends(m, round[m].sent)
    BY DEF Sends, Enroll!Holds
  <2> QED BY <1>1, <1>3, <1>5, <2>1, ExchangeInv DEF Enroll!Pair
<1>6. CASE Enroll!Pair(m) /\ card[m].token # 0
  <2>1. /\ UNCHANGED <<row, reqs, etok, card, seen, approvedFor, granted, copied, secret, events>>
        /\ round' = [round EXCEPT ![m] = Enroll!Idle]
    BY <1>6 DEF Enroll!Pair, Enroll!Done, Enroll!serverVars
  <2>2. Enroll!TypeOK'
    BY <1>1, <1>2, <2>1 DEF Enroll!TypeOK, Enroll!Idle
  <2>3. \A x \in Two : /\ Enroll!Holds(x)' \subseteq Enroll!Holds(x) \cup {0}
                       /\ round'[x].sent = Enroll!Etok => round[x].sent = Enroll!Etok
    BY <1>1, <2>1 DEF Enroll!Holds, Enroll!TypeOK, Enroll!Idle, Enroll!Etok
  <2>4. secret \in Nat \ {0} /\ \A r \in reqs : r.claim # 0
    BY <1>1, BoundAssumption DEF Enroll!TypeOK, Enroll!Requests
  <2>5. Enroll!SecretsAreOld' /\ Enroll!SecretsAreOwn'
    BY <2>1, <2>3, <2>4 DEF Enroll!EnrollInv, Enroll!SecretsAreOld, Enroll!SecretsAreOwn
  <2> QED BY <2>1, <2>2, <2>5 DEF Enroll!EnrollInv, Enroll!RequestsAreSound,
             Enroll!CollisionsMarked, Enroll!ApprovedHasRow, Enroll!PairedHasRow,
             Enroll!OneWaits, Enroll!AdminSaw, Enroll!Taken
<1>7. CASE Enroll!PairByHand(m)
  <2>1. Enroll!TomlToken(m) \in Enroll!Etok..MaxSecrets /\ Sends(m, Enroll!TomlToken(m))
    BY <1>2 DEF Enroll!TomlToken, Sends
  <2> QED BY <1>3, <1>7, <2>1, ExchangeInv DEF Enroll!PairByHand
<1> QED BY <1>4, <1>5, <1>6, <1>7

\* The steps that leave the tables of the server alone and give a machine no secret
\* of another one.
LEMMA EnrollCards ==
    ASSUME Enroll!EnrollInv, NEW m \in Two,
           Enroll!Once(m) \/ Enroll!dropToken(m) \/ Enroll!Unpair(m) \/ Enroll!Reflash(m)
    PROVE  Enroll!EnrollInv' /\ UNCHANGED row
<1> USE DEF Enroll!Idle, Enroll!NewCard, Enroll!Etok
<1>1. Enroll!TypeOK
  BY DEF Enroll!EnrollInv, Enroll!RequestsAreSound
<1>2. UNCHANGED <<row, reqs, etok, seen, approvedFor, granted, copied, secret>>
  BY DEF Enroll!Once, Enroll!dropToken, Enroll!Unpair, Enroll!Reflash, Enroll!serverVars
<1>3. \E c \in Enroll!Cards :
        /\ card' = [card EXCEPT ![m] = c]
        /\ c.token \in {0, card[m].token} /\ c.claim \in {0, card[m].claim}
  <2>1. card[m] \in Enroll!Cards /\ card = [card EXCEPT ![m] = card[m]]
    BY <1>1 DEF Enroll!TypeOK
  <2>2. CASE Enroll!Once(m)
    BY <2>1, <2>2 DEF Enroll!Once
  <2>3. CASE Enroll!dropToken(m)
    <3> DEFINE c == [card[m] EXCEPT !.token = 0, !.claim = 0, !.revoked = TRUE]
    <3>1. 0 \in 0..MaxSecrets
      BY BoundAssumption
    <3>2. c \in Enroll!Cards
      BY <2>1, <3>1 DEF Enroll!Cards
    <3>3. c.token = 0 /\ c.claim = 0
      BY <2>1 DEF Enroll!Cards
    <3>4. card' = [card EXCEPT ![m] = c]
      BY <1>1, <2>3 DEF Enroll!dropToken, Enroll!TypeOK
    <3> HIDE DEF c
    <3> QED BY <3>2, <3>3, <3>4
  <2>4. CASE Enroll!Unpair(m) \/ Enroll!Reflash(m)
    <3> DEFINE c(url) == [token |-> 0, claim |-> 0, url |-> url, revoked |-> FALSE]
    <3>1. \A url \in BOOLEAN : c(url) \in Enroll!Cards
      BY BoundAssumption DEF Enroll!Cards
    <3>2. card' = [card EXCEPT ![m] = c(FALSE)] \/ card' = [card EXCEPT ![m] = c(TRUE)]
      BY <2>4 DEF Enroll!Unpair, Enroll!Reflash
    <3> QED BY <3>1, <3>2
  <2> QED BY <2>2, <2>3, <2>4
<1>4. Enroll!TypeOK'
  <2>1. events' \in 0..MaxEvents
    BY <1>1, EnrollCount DEF Enroll!Once, Enroll!dropToken, Enroll!Unpair, Enroll!Reflash,
       Enroll!Event, Enroll!TypeOK
  <2>2. card' \in [Two -> Enroll!Cards]
    <3>1. PICK c \in Enroll!Cards : card' = [card EXCEPT ![m] = c]
      BY <1>3
    <3> QED BY <1>1, <3>1 DEF Enroll!TypeOK
  <2>3. round' \in [Two -> [pc : {"idle", "poll", "claim", "pair", "drop"},
                           sent : Enroll!Etok..MaxSecrets]]
    BY <1>1, BoundAssumption DEF Enroll!Once, Enroll!dropToken, Enroll!Unpair,
       Enroll!Reflash, Enroll!TypeOK, Enroll!Cards, Enroll!Done, Enroll!TomlToken
  <2> QED BY <1>1, <1>2, <2>1, <2>2, <2>3 DEF Enroll!TypeOK
<1>5. \A x \in Two : Enroll!Holds(x)' \subseteq Enroll!Holds(x) \cup {0, Enroll!Etok}
  BY <1>1, <1>3 DEF Enroll!Once, Enroll!dropToken, Enroll!Unpair, Enroll!Reflash, Enroll!Done,
     Enroll!TomlToken, Enroll!Holds, Enroll!TypeOK, Enroll!Cards
<1>6. \A x \in Two : (round[x].sent = Enroll!Etok)' =>
                        round[x].sent = Enroll!Etok \/ x \in WithToken
  BY <1>1 DEF Enroll!Once, Enroll!dropToken, Enroll!Unpair, Enroll!Reflash, Enroll!Done,
     Enroll!TomlToken, Enroll!TypeOK, Enroll!Cards
<1>7. secret \in Nat \ {0} /\ \A r \in reqs : r.claim \in Nat \ {0}
  BY <1>1, BoundAssumption DEF Enroll!TypeOK, Enroll!Requests
<1>8. Enroll!SecretsAreOld' /\ Enroll!SecretsAreOwn'
  BY <1>2, <1>5, <1>6, <1>7 DEF Enroll!EnrollInv, Enroll!SecretsAreOld, Enroll!SecretsAreOwn
<1> QED BY <1>2, <1>4, <1>8 DEF Enroll!EnrollInv, Enroll!RequestsAreSound,
           Enroll!CollisionsMarked, Enroll!ApprovedHasRow, Enroll!PairedHasRow,
           Enroll!OneWaits, Enroll!AdminSaw, Enroll!Taken

\* A copied card: the secrets are not of one machine any more, and copied says so.
LEMMA EnrollCopy ==
    ASSUME Enroll!EnrollInv, NEW m \in Two, NEW n \in Two, Enroll!CopyCard(m, n)
    PROVE  Enroll!EnrollInv' /\ UNCHANGED row
<1>1. Enroll!TypeOK
  BY DEF Enroll!EnrollInv, Enroll!RequestsAreSound
<1>2. /\ UNCHANGED <<row, reqs, etok, seen, approvedFor, granted, secret>> /\ copied' = TRUE
      /\ card' = [card EXCEPT ![n] = card[m]] /\ round' = [round EXCEPT ![n] = Enroll!Idle]
  BY DEF Enroll!CopyCard, Enroll!serverVars
<1>3. Enroll!TypeOK'
  <2>1. events' \in 0..MaxEvents
    BY <1>1, EnrollCount DEF Enroll!CopyCard
  <2> QED BY <1>1, <1>2, <2>1, BoundAssumption DEF Enroll!TypeOK, Enroll!Idle, Enroll!Etok
<1>4. \A x \in Two : /\ Enroll!Holds(x)' \subseteq Enroll!Holds(x) \cup Enroll!Holds(m) \cup {0}
                     /\ round'[x].sent = Enroll!Etok => round[x].sent = Enroll!Etok
  BY <1>1, <1>2 DEF Enroll!Holds, Enroll!Idle, Enroll!TypeOK, Enroll!Etok
<1>5. secret \in Nat \ {0}
  BY <1>1, BoundAssumption DEF Enroll!TypeOK
<1>6. Enroll!SecretsAreOld' /\ Enroll!SecretsAreOwn'
  BY <1>2, <1>4, <1>5 DEF Enroll!EnrollInv, Enroll!SecretsAreOld, Enroll!SecretsAreOwn
<1> QED BY <1>2, <1>3, <1>6 DEF Enroll!EnrollInv, Enroll!RequestsAreSound,
           Enroll!CollisionsMarked, Enroll!ApprovedHasRow, Enroll!PairedHasRow,
           Enroll!OneWaits, Enroll!AdminSaw, Enroll!Taken

\* A heartbeat, and the admin or the clock at the hardware flags: the row stays the
\* row of a device that was paired, or was not, and gets no new token.
LEMMA EnrollFlags ==
    ASSUME Enroll!EnrollInv,
           \/ \E m \in Two : Enroll!pollRound(m)
           \/ Enroll!ConfirmHardware \/ Enroll!ResolveConflict \/ Enroll!WindowEnds
    PROVE  Enroll!EnrollInv' /\ row'.token \in {0, row.token}
<1> DEFINE Flags(r) == /\ r \in Enroll!Rows /\ r.exists = row.exists
                       /\ r.paired = row.paired /\ r.token \in {0, row.token}
<1>1. Enroll!TypeOK /\ row \in Enroll!Rows
  BY DEF Enroll!EnrollInv, Enroll!RequestsAreSound, Enroll!TypeOK
<1>2. /\ UNCHANGED <<reqs, etok, card, seen, approvedFor, granted, copied, secret, events>>
      /\ UNCHANGED round \/ \E m \in Two : \/ Enroll!Done(m)
                                           \/ round' = [round EXCEPT ![m].pc = "drop"]
  BY DEF Enroll!pollRound, Enroll!ConfirmHardware, Enroll!ResolveConflict,
         Enroll!WindowEnds, Enroll!deviceVars
<1>3. Flags(row')
  <2>1. ASSUME NEW m \in Two PROVE Flags(Enroll!hardwareRules(row, m))
    <3> DEFINE stale == row.pend \notin {NoMachine, m} /\ row.fresh
    <3>1. CASE row.hw = NoMachine
      <4>1. Enroll!hardwareRules(row, m) = [row EXCEPT !.hw = m]
        BY <3>1, NoMachineAssumption DEF Enroll!hardwareRules
      <4> QED BY <1>1, <4>1 DEF Enroll!Rows
    <3>2. CASE row.hw # NoMachine /\ stale
      <4>1. Enroll!hardwareRules(row, m) =
                [row EXCEPT !.conflict = IF m = row.hw THEN row.pend ELSE m]
        BY <3>2 DEF Enroll!hardwareRules
      <4> QED BY <1>1, <4>1 DEF Enroll!Rows
    <3>3. CASE row.hw # NoMachine /\ ~stale /\ row.hw = m
      <4>1. Enroll!hardwareRules(row, m) = [row EXCEPT !.pend = NoMachine, !.fresh = FALSE]
        BY <3>3 DEF Enroll!hardwareRules
      <4> QED BY <1>1, <4>1 DEF Enroll!Rows
    <3>4. CASE row.hw # NoMachine /\ ~stale /\ row.hw # m
      <4>1. Enroll!hardwareRules(row, m) = [row EXCEPT !.pend = m, !.fresh = TRUE]
        BY <3>4 DEF Enroll!hardwareRules
      <4> QED BY <1>1, <4>1 DEF Enroll!Rows
    <3> HIDE DEF Flags
    <3> QED BY <3>1, <3>2, <3>3, <3>4
  <2>2. Flags(row)
    BY <1>1
  <2>3. CASE \E m \in Two : Enroll!pollRound(m)
    <3> HIDE DEF Flags
    <3> QED BY <2>1, <2>2, <2>3 DEF Enroll!pollRound
  <2>4. CASE Enroll!ConfirmHardware
    BY <1>1, <2>4 DEF Enroll!ConfirmHardware, Enroll!Rows
  <2>5. CASE Enroll!ResolveConflict
    <3>1. row' = [row EXCEPT !.conflict = NoMachine, !.token = 0,
                             !.pend = NoMachine, !.fresh = FALSE]
      BY <2>5 DEF Enroll!ResolveConflict
    <3>2. 0 \in 0..MaxSecrets
      BY BoundAssumption
    <3>3. row' \in Enroll!Rows
      BY <1>1, <3>1, <3>2 DEF Enroll!Rows
    <3>4. row'.exists = row.exists /\ row'.paired = row.paired /\ row'.token = 0
      BY <1>1, <3>1 DEF Enroll!Rows
    <3> QED BY <3>3, <3>4
  <2>6. CASE Enroll!WindowEnds
    BY <1>1, <2>6 DEF Enroll!WindowEnds, Enroll!Rows
  <2> HIDE DEF Flags
  <2> QED BY <2>3, <2>4, <2>5, <2>6
<1>4. \A x \in Two : /\ Enroll!Holds(x)' \subseteq Enroll!Holds(x) \cup {0}
                     /\ round'[x].sent = Enroll!Etok => round[x].sent = Enroll!Etok
  BY <1>1, <1>2 DEF Enroll!Holds, Enroll!Idle, Enroll!Done, Enroll!TypeOK, Enroll!Etok
<1>5. secret \in Nat \ {0} /\ \A r \in reqs : r.claim # 0
  BY <1>1, BoundAssumption DEF Enroll!TypeOK, Enroll!Requests
<1>6. Enroll!SecretsAreOld' /\ Enroll!SecretsAreOwn'
  BY <1>2, <1>4, <1>5 DEF Enroll!EnrollInv, Enroll!SecretsAreOld, Enroll!SecretsAreOwn
<1>7. Enroll!TypeOK'
  <2>1. round' \in [Two -> [pc : {"idle", "poll", "claim", "pair", "drop"},
                           sent : Enroll!Etok..MaxSecrets]]
    BY <1>1, <1>2, BoundAssumption DEF Enroll!TypeOK, Enroll!Done, Enroll!Idle, Enroll!Etok
  <2> QED BY <1>1, <1>2, <1>3, <2>1 DEF Enroll!TypeOK
<1> QED BY <1>2, <1>3, <1>6, <1>7 DEF Enroll!EnrollInv, Enroll!RequestsAreSound,
           Enroll!CollisionsMarked, Enroll!ApprovedHasRow, Enroll!PairedHasRow,
           Enroll!OneWaits, Enroll!AdminSaw, Enroll!Taken

\* The admin looks at a request, approves it, or finds it gone: an approval marks the
\* request that was on the screen, and the row it leaves can be collected.
LEMMA EnrollApprove ==
    ASSUME Enroll!EnrollInv, Enroll!AdminLooks \/ Enroll!ApprovePending
    PROVE  Enroll!EnrollInv' /\ row'.token \in {0, row.token}
<1>1. Enroll!TypeOK /\ row \in Enroll!Rows /\ reqs \subseteq Enroll!Requests
  BY DEF Enroll!EnrollInv, Enroll!RequestsAreSound, Enroll!TypeOK
<1>2. UNCHANGED <<etok, card, round, granted, copied, secret, events>> /\ secret \in Nat \ {0}
  <2>1. secret \in Nat \ {0}
    BY <1>1, BoundAssumption DEF Enroll!TypeOK
  <2>2. CASE Enroll!AdminLooks
    BY <2>1, <2>2 DEF Enroll!AdminLooks, Enroll!deviceVars, Enroll!serverVars
  <2>3. CASE Enroll!ApprovePending
    BY <2>1, <2>3 DEF Enroll!ApprovePending, Enroll!deviceVars
  <2> QED BY <2>2, <2>3
<1>3. CASE Enroll!AdminLooks
  <2>1. PICK r \in reqs : seen' = [id |-> r.id, hw |-> r.hw]
    BY <1>3 DEF Enroll!AdminLooks
  <2>2. UNCHANGED <<row, reqs, approvedFor>>
    BY <1>3 DEF Enroll!AdminLooks, Enroll!serverVars
  <2>3. r.id \in 0..MaxSecrets /\ r.hw \in Two /\ r.id < secret
    BY <1>1 DEF Enroll!Requests, Enroll!EnrollInv, Enroll!SecretsAreOld
  <2>4. Enroll!TypeOK'
    BY <1>1, <1>2, <2>1, <2>2, <2>3 DEF Enroll!TypeOK
  <2>5. Enroll!AdminSaw' /\ Enroll!SecretsAreOld' /\ Enroll!SecretsAreOwn'
    BY <1>2, <2>1, <2>2, <2>3 DEF Enroll!EnrollInv, Enroll!AdminSaw, Enroll!OneWaits,
       Enroll!SecretsAreOld, Enroll!SecretsAreOwn, Enroll!Holds
  <2> QED BY <2>2, <2>4, <2>5 DEF Enroll!EnrollInv, Enroll!RequestsAreSound,
             Enroll!CollisionsMarked, Enroll!ApprovedHasRow, Enroll!PairedHasRow,
             Enroll!OneWaits, Enroll!Taken
<1>4. CASE Enroll!ApprovePending
  <2>1. seen' = [id |-> 0, hw |-> NoMachine]
    BY <1>4 DEF Enroll!ApprovePending, Enroll!AdminIsDone, Enroll!NoRequest
  <2>2. CASE UNCHANGED <<row, reqs, approvedFor>>
    <3>1. Enroll!TypeOK'
      BY <1>1, <1>2, <2>1, <2>2, BoundAssumption DEF Enroll!TypeOK
    <3>2. Enroll!AdminSaw' /\ Enroll!SecretsAreOld' /\ Enroll!SecretsAreOwn'
      BY <1>1, <1>2, <2>1, <2>2 DEF Enroll!EnrollInv, Enroll!AdminSaw, Enroll!Requests,
         Enroll!SecretsAreOld, Enroll!SecretsAreOwn, Enroll!Holds
    <3> QED BY <2>2, <3>1, <3>2 DEF Enroll!EnrollInv, Enroll!RequestsAreSound,
               Enroll!CollisionsMarked, Enroll!ApprovedHasRow, Enroll!PairedHasRow,
               Enroll!OneWaits, Enroll!Taken
  <2>3. ASSUME NEW r \in reqs, r.id = seen.id, ~r.approved, row' = Enroll!Approved(r),
               reqs' = (reqs \ {r}) \cup {[r EXCEPT !.approved = TRUE, !.old = FALSE]},
               approvedFor' = approvedFor \cup {seen.hw}
        PROVE  Enroll!EnrollInv' /\ row'.token \in {0, row.token}
    <3> DEFINE q == [r EXCEPT !.approved = TRUE, !.old = FALSE]
    <3>1. /\ q \in Enroll!Requests /\ q.id = r.id /\ q.claim = r.claim /\ q.hw = r.hw
          /\ q.collides = r.collides /\ q.approved
      BY <1>1 DEF Enroll!Requests
    <3>2. r.hw = seen.hw /\ r.hw \in Two
      BY <1>1, <2>3 DEF Enroll!EnrollInv, Enroll!AdminSaw, Enroll!Requests
    <3>3. /\ row' \in Enroll!Rows /\ row'.exists /\ row'.token \in {0, row.token}
          /\ row'.paired <=> Enroll!Taken
      <4>0. /\ row.paired => row.exists
            /\ r.collides <=> Enroll!Taken
            /\ 0 \in 0..MaxSecrets
        BY BoundAssumption DEF Enroll!EnrollInv, Enroll!RequestsAreSound,
           Enroll!PairedHasRow, Enroll!CollisionsMarked
      <4>1. CASE Enroll!Taken
        <5>1. row' = [row EXCEPT !.token = 0, !.hw = r.hw, !.pend = NoMachine,
                                 !.fresh = FALSE, !.conflict = NoMachine]
          BY <2>3, <4>0, <4>1 DEF Enroll!Approved, Enroll!upsertDevice, Enroll!Taken
        <5>2. row' \in Enroll!Rows
          BY <1>1, <3>2, <4>0, <5>1 DEF Enroll!Rows
        <5>3. row'.exists = row.exists /\ row'.paired = row.paired /\ row'.token = 0
          BY <1>1, <5>1 DEF Enroll!Rows
        <5> QED BY <4>1, <5>2, <5>3 DEF Enroll!Taken
      <4>2. CASE ~Enroll!Taken
        <5>1. row' = [row EXCEPT !.exists = TRUE, !.hw = r.hw]
          BY <2>3, <4>0, <4>2 DEF Enroll!Approved, Enroll!upsertDevice, Enroll!Taken
        <5>2. row' \in Enroll!Rows
          BY <1>1, <3>2, <5>1 DEF Enroll!Rows
        <5>3. row'.exists = TRUE /\ row'.paired = row.paired /\ row'.token = row.token
          BY <1>1, <5>1 DEF Enroll!Rows
        <5> QED BY <4>0, <4>2, <5>2, <5>3 DEF Enroll!Taken
      <4> QED BY <4>1, <4>2
    <3>4. reqs' = (reqs \ {r}) \cup {q}
      BY <2>3
    <3> HIDE DEF q
    <3>5. Enroll!TypeOK'
      BY <1>1, <1>2, <2>1, <2>3, <3>1, <3>2, <3>3, <3>4, BoundAssumption DEF Enroll!TypeOK
    <3>6. Enroll!CollisionsMarked' /\ Enroll!ApprovedHasRow' /\ Enroll!PairedHasRow'
      BY <3>1, <3>3, <3>4 DEF Enroll!EnrollInv, Enroll!RequestsAreSound,
         Enroll!CollisionsMarked, Enroll!ApprovedHasRow, Enroll!PairedHasRow, Enroll!Taken
    <3>7. Enroll!OneWaits'
      BY <3>1, <3>4 DEF Enroll!EnrollInv, Enroll!OneWaits
    <3>8. Enroll!AdminSaw'
      BY <1>1, <2>1, <2>3, <3>1, <3>2, <3>4 DEF Enroll!EnrollInv, Enroll!AdminSaw,
         Enroll!Requests
    <3>9. Enroll!SecretsAreOld' /\ Enroll!SecretsAreOwn'
      BY <1>2, <2>1, <3>1, <3>4 DEF Enroll!EnrollInv, Enroll!SecretsAreOld,
         Enroll!SecretsAreOwn, Enroll!Holds
    <3> QED BY <3>3, <3>5, <3>6, <3>7, <3>8, <3>9 DEF Enroll!EnrollInv,
               Enroll!RequestsAreSound
  <2> QED BY <1>4, <2>2, <2>3 DEF Enroll!ApprovePending
<1> QED BY <1>3, <1>4

\* Requests that go away, with the row where nothing needs it any more, and the end of
\* the enrollment token.
LEMMA EnrollLoses ==
    ASSUME Enroll!EnrollInv,
           \/ Enroll!RejectPending \/ Enroll!DeleteDevice \/ Enroll!RevokeEnrollToken
           \/ Enroll!SweepPending
    PROVE  Enroll!EnrollInv' /\ row'.token \in {0, row.token}
<1>1. Enroll!TypeOK /\ row \in Enroll!Rows /\ reqs \subseteq Enroll!Requests
  BY DEF Enroll!EnrollInv, Enroll!RequestsAreSound, Enroll!TypeOK
<1>2. /\ UNCHANGED <<card, round, seen, approvedFor, granted, copied, secret>>
      /\ reqs' \subseteq reqs
  BY DEF Enroll!RejectPending, Enroll!DeleteDevice, Enroll!RevokeEnrollToken,
     Enroll!SweepPending, Enroll!sweepPending, Enroll!deviceVars
<1>3. /\ row' = row \/ (row' = Enroll!NoRow /\ (row.paired => reqs' = {}))
      /\ reqs' # {} => row' = row
  BY DEF Enroll!RejectPending, Enroll!DeleteDevice, Enroll!RevokeEnrollToken,
     Enroll!SweepPending, Enroll!RejectedRow
<1>4. Enroll!NoRow \in Enroll!Rows /\ Enroll!NoRow.token = 0
      /\ Enroll!NoRow.paired = FALSE
  BY BoundAssumption DEF Enroll!NoRow, Enroll!Rows
<1>5. Enroll!TypeOK'
  <2>1. events' \in 0..MaxEvents
    BY <1>1, EnrollCount DEF Enroll!RejectPending, Enroll!DeleteDevice,
       Enroll!RevokeEnrollToken, Enroll!SweepPending, Enroll!Event, Enroll!TypeOK
  <2>2. etok' \in [mode : TokenModes, uses : 0..MaxUses, revoked : BOOLEAN]
    BY <1>1 DEF Enroll!RejectPending, Enroll!DeleteDevice,
       Enroll!RevokeEnrollToken, Enroll!SweepPending, Enroll!TypeOK
  <2> QED BY <1>1, <1>2, <1>3, <1>4, <2>1, <2>2 DEF Enroll!TypeOK
<1>6. Enroll!CollisionsMarked' /\ Enroll!ApprovedHasRow' /\ Enroll!PairedHasRow'
  BY <1>2, <1>3, <1>4 DEF Enroll!EnrollInv, Enroll!RequestsAreSound,
     Enroll!CollisionsMarked, Enroll!ApprovedHasRow, Enroll!PairedHasRow, Enroll!Taken
<1>7. Enroll!OneWaits' /\ Enroll!AdminSaw' /\ Enroll!SecretsAreOld' /\ Enroll!SecretsAreOwn'
  BY <1>2 DEF Enroll!EnrollInv, Enroll!OneWaits, Enroll!AdminSaw, Enroll!SecretsAreOld,
     Enroll!SecretsAreOwn, Enroll!Holds
<1> QED BY <1>3, <1>4, <1>5, <1>6, <1>7 DEF Enroll!EnrollInv, Enroll!RequestsAreSound

\* A request that grows old is the same request.
LEMMA EnrollAges ==
    ASSUME Enroll!EnrollInv, Enroll!GrowsOld PROVE Enroll!EnrollInv' /\ UNCHANGED row
<1>1. Enroll!TypeOK /\ row \in Enroll!Rows /\ reqs \subseteq Enroll!Requests
  BY DEF Enroll!EnrollInv, Enroll!RequestsAreSound, Enroll!TypeOK
<1>2. /\ UNCHANGED <<row, etok, card, round, seen, approvedFor, granted, copied, secret>>
      /\ events' \in 0..MaxEvents
  BY <1>1, EnrollCount DEF Enroll!GrowsOld, Enroll!Event, Enroll!deviceVars
<1>3. PICK r \in reqs : reqs' = (reqs \ {r}) \cup {[r EXCEPT !.old = TRUE]}
  BY DEF Enroll!GrowsOld
<1> DEFINE q == [r EXCEPT !.old = TRUE]
<1>4. /\ q \in Enroll!Requests /\ q.id = r.id /\ q.claim = r.claim /\ q.hw = r.hw
      /\ q.collides = r.collides /\ q.approved = r.approved
  BY <1>1 DEF Enroll!Requests
<1>5. reqs' = (reqs \ {r}) \cup {q}
  BY <1>3
<1> HIDE DEF q
<1>6. Enroll!TypeOK'
  BY <1>1, <1>2, <1>4, <1>5 DEF Enroll!TypeOK
<1>7. /\ Enroll!CollisionsMarked' /\ Enroll!ApprovedHasRow' /\ Enroll!PairedHasRow'
      /\ Enroll!AdminSaw'
  BY <1>2, <1>4, <1>5 DEF Enroll!EnrollInv, Enroll!RequestsAreSound, Enroll!AdminSaw,
     Enroll!CollisionsMarked, Enroll!ApprovedHasRow, Enroll!PairedHasRow, Enroll!Taken
<1>8. Enroll!OneWaits'
  BY <1>4, <1>5 DEF Enroll!EnrollInv, Enroll!OneWaits
<1>9. Enroll!SecretsAreOld' /\ Enroll!SecretsAreOwn'
  BY <1>2, <1>4, <1>5 DEF Enroll!EnrollInv, Enroll!SecretsAreOld,
     Enroll!SecretsAreOwn, Enroll!Holds
<1> QED BY <1>2, <1>6, <1>7, <1>8, <1>9 DEF Enroll!EnrollInv, Enroll!RequestsAreSound

\* Every step of the component keeps the invariant and the rule of the paired row.
LEMMA EnrollStep ==
    ASSUME Enroll!EnrollInv, [Enroll!Next]_enrollVars
    PROVE  Enroll!EnrollInv' /\ (Enroll!PairedRowIsKept \/ UNCHANGED enrollVars)
<1>1. row'.token \in {0, row.token} \/ UNCHANGED row => Enroll!PairedRowIsKept
  BY DEF Enroll!PairedRowIsKept
<1>2. CASE UNCHANGED enrollVars
  BY <1>2 DEF enrollVars, Enroll!EnrollInv, Enroll!RequestsAreSound, Enroll!CollisionsMarked,
     Enroll!ApprovedHasRow, Enroll!PairedHasRow, Enroll!OneWaits, Enroll!AdminSaw,
     Enroll!SecretsAreOld, Enroll!SecretsAreOwn, Enroll!Holds, Enroll!Taken, Enroll!TypeOK
<1>3. ASSUME NEW m \in Two,
             \/ Enroll!Once(m) \/ Enroll!claimRound(m) \/ Enroll!Pair(m)
             \/ Enroll!dropToken(m) \/ Enroll!PairByHand(m) \/ Enroll!Unpair(m)
             \/ Enroll!Reflash(m) \/ \E n \in Two : Enroll!CopyCard(m, n)
      PROVE  Enroll!EnrollInv' /\ Enroll!PairedRowIsKept
  BY <1>1, <1>3, EnrollAsk, EnrollCards, EnrollCopy
<1>4. CASE \/ \E m \in Two : Enroll!pollRound(m)
           \/ Enroll!ConfirmHardware \/ Enroll!ResolveConflict \/ Enroll!WindowEnds
  BY <1>1, <1>4, EnrollFlags
<1>5. CASE Enroll!AdminLooks \/ Enroll!ApprovePending
  BY <1>1, <1>5, EnrollApprove
<1>6. CASE \/ Enroll!RejectPending \/ Enroll!DeleteDevice \/ Enroll!RevokeEnrollToken
           \/ Enroll!SweepPending
  BY <1>1, <1>6, EnrollLoses
<1>7. CASE Enroll!GrowsOld
  BY <1>1, <1>7, EnrollAges
<1> QED BY <1>2, <1>3, <1>4, <1>5, <1>6, <1>7 DEF Enroll!Next

\* In every state of every behaviour of the server, the waiting requests say the truth
\* about a collision (an approval depends on it), and a machine that was approved finds
\* its row: for every number of machines, tokens, secrets and requests.
THEOREM RequestsSafe == Spec => []RequestsAreSound
<1>1. Init => Enroll!EnrollInv
  BY EnrollInit DEF Init
<1>2. Enroll!EnrollInv /\ [Next]_vars => Enroll!EnrollInv'
  <2> SUFFICES ASSUME Enroll!EnrollInv, [Enroll!Next]_enrollVars PROVE Enroll!EnrollInv'
    BY DEF Next, OfEnroll, OfMirror, OfStore, OfPlan, vars
  <2> QED BY EnrollStep
<1>3. Enroll!EnrollInv => RequestsAreSound
  BY DEF Enroll!EnrollInv, RequestsAreSound
<1> QED BY <1>1, <1>2, <1>3, PTL DEF Spec

\* Rule R1: the token of a row that was ever paired goes to a machine only with the
\* approval of its request by an admin who saw that machine, or by the automatic token on
\* the machine of the row.  Lost answers, old rounds and rejects change nothing in that.
THEOREM PairedRowIsSafe == Spec => PairedRowIsKept
<1>1. Init => Enroll!EnrollInv
  BY EnrollInit DEF Init
<1>2. Enroll!EnrollInv /\ [Next]_vars =>
          Enroll!EnrollInv' /\ [Enroll!PairedRowIsKept]_enrollVars
  <2> SUFFICES ASSUME Enroll!EnrollInv, [Enroll!Next]_enrollVars
               PROVE  Enroll!EnrollInv' /\ [Enroll!PairedRowIsKept]_enrollVars
    BY DEF Next, OfEnroll, OfMirror, OfStore, OfPlan, vars
  <2> QED BY EnrollStep
<1> QED BY <1>1, <1>2, PTL DEF Spec, PairedRowIsKept

-----------------------------------------------------------------------------
(* The manifest builder.                                                   *)

\* PlanInv holds at the start.
LEMMA PlanInit == Plan!Init => Plan!PlanInv
<1> SUFFICES ASSUME Plan!Init PROVE Plan!PlanInv
  OBVIOUS
<1> USE DEF Plan!Init, Plan!Absent, Plan!IdlePoll, Plan!NoManifest
<1>1. Plan!TypeOK
  BY PlanAssumption DEF Plan!TypeOK, Plan!Lists
<1>2. Plan!NamesAreThere /\ Plan!ReadIsTrue /\ Plan!PollIsWanted /\ Plan!FoundHasItems
  BY PlanAssumption DEF Plan!NamesAreThere, Plan!ReadIsTrue, Plan!PollIsWanted,
     Plan!FoundHasItems, Plan!Exists, Plan!Wanted, Plan!Owners
<1> QED BY <1>1, <1>2 DEF Plan!PlanInv

\* What every write of the admin does to a poll: it is not clean any more, and a
\* playlist goes only where it is written down.
LEMMA PlanWrite ==
    ASSUME Plan!PlanInv, NEW gone \in SUBSET Playlists, Plan!Write(gone),
           lists' \in Plan!Lists, there' \subseteq Groups, grp' \in Groups \cup {None},
           rules' \in [Plan!Owners -> SUBSET Playlists],
           dflt' \in [Plan!Owners -> Playlists \cup {None}],
           Plan!NamesAreThere',
           \A p \in Playlists : Plan!Exists(p) => Plan!Exists(p)' \/ p \in gone
    PROVE  Plan!PlanInv'
<1>1. /\ poll' = poll /\ sent' = sent /\ lExcuse'.clean = FALSE
      /\ lExcuse'.gone = lExcuse.gone \cup gone
  BY DEF Plan!Write
<1>2. lExcuse' \in [clean : BOOLEAN, gone : SUBSET Playlists] /\ writes' \in 0..MaxWrites
  BY PlanAssumption DEF Plan!Write, Plan!PlanInv, Plan!TypeOK
<1>3. Plan!TypeOK'
  BY <1>1, <1>2 DEF Plan!PlanInv, Plan!TypeOK, Plan!Lists
<1>4. Plan!ReadIsTrue' /\ Plan!PollIsWanted'
  BY <1>1 DEF Plan!PlanInv, Plan!ReadIsTrue, Plan!PollIsWanted, Plan!Wanted
<1>5. Plan!FoundHasItems'
  <2>1. poll.pc = "items" => poll.row \in Playlists
    BY DEF Plan!PlanInv, Plan!PollIsWanted, Plan!Wanted, Plan!TypeOK
  <2> QED BY <1>1, <2>1 DEF Plan!PlanInv, Plan!FoundHasItems
<1> QED BY <1>3, <1>4, <1>5 DEF Plan!PlanInv

\* The writes of the admin.
LEMMA PlanAdmin ==
    ASSUME Plan!PlanInv,
           \/ \E p \in Playlists :
                \/ \E m \in SUBSET Media : Plan!SavePlaylist(p, m)
                \/ Plan!DeletePlaylist(p)
                \/ \E w \in Plan!Owners : Plan!SaveAssignment(w, p) \/ Plan!DeleteAssignment(w, p)
           \/ \E p \in Playlists \cup {None} :
                Plan!SetDeviceOverrides(p) \/ \E g \in Groups : Plan!UpdateGroup(g, p)
           \/ \E g \in Groups : Plan!CreateGroup(g) \/ Plan!DeleteGroup(g)
           \/ \E g \in Groups \cup {None} : Plan!MoveDevice(g)
    PROVE  Plan!PlanInv'
<1> USE DEF Plan!Exists
<1>0. Plan!TypeOK /\ Plan!NamesAreThere /\ {} \in SUBSET Playlists
  BY DEF Plan!PlanInv
<1>1. ASSUME NEW p \in Playlists, NEW m \in SUBSET Media, Plan!SavePlaylist(p, m)
      PROVE  Plan!PlanInv'
  <2>1. /\ Plan!Write({}) /\ m # {} /\ lists' = [lists EXCEPT ![p] = m]
        /\ UNCHANGED <<there, grp, rules, dflt>>
    BY <1>1 DEF Plan!SavePlaylist, Plan!Valid
  <2>2. lists' \in Plan!Lists /\ \A q \in Playlists : lists'[q] = IF q = p THEN m ELSE lists[q]
    BY <1>0, <2>1 DEF Plan!TypeOK, Plan!Lists
  <2>3. Plan!NamesAreThere'
    BY <1>0, <2>1, <2>2, PlanAssumption DEF Plan!NamesAreThere, Plan!TypeOK
  <2> QED BY <1>0, <2>1, <2>2, <2>3, PlanAssumption, PlanWrite DEF Plan!TypeOK
<1>2. ASSUME NEW p \in Playlists, Plan!DeletePlaylist(p) PROVE Plan!PlanInv'
  <2>1. /\ Plan!Write({p}) /\ lists' = [lists EXCEPT ![p] = NoList]
        /\ UNCHANGED <<there, grp>>
        /\ \A w \in Plan!Owners : p \notin rules[w] /\ dflt[w] # p
    BY <1>2 DEF Plan!DeletePlaylist, Plan!UsesPlaylist
  <2>2. rules' = rules /\ dflt' = dflt
    BY <1>0, <1>2, <2>1 DEF Plan!DeletePlaylist, Plan!TypeOK
  <2>3. lists' \in Plan!Lists
        /\ \A q \in Playlists : lists'[q] = IF q = p THEN NoList ELSE lists[q]
    BY <1>0, <2>1 DEF Plan!TypeOK, Plan!Lists
  <2>4. Plan!NamesAreThere'
    BY <1>0, <2>1, <2>2, <2>3, PlanAssumption DEF Plan!NamesAreThere, Plan!TypeOK
  <2>5. {p} \in SUBSET Playlists
    OBVIOUS
  <2> QED BY <1>0, <2>1, <2>2, <2>3, <2>4, <2>5, PlanWrite DEF Plan!TypeOK
<1>3. ASSUME NEW p \in Playlists, NEW w \in Plan!Owners,
             Plan!SaveAssignment(w, p) \/ Plan!DeleteAssignment(w, p)
      PROVE  Plan!PlanInv'
  <2>1. /\ Plan!Write({}) /\ UNCHANGED <<lists, there, grp, dflt>>
        /\ \/ Plan!Exists(p) /\ rules' = [rules EXCEPT ![w] = @ \cup {p}]
           \/ rules' = [rules EXCEPT ![w] = @ \ {p}]
    BY <1>3 DEF Plan!SaveAssignment, Plan!DeleteAssignment
  <2>2. rules' \in [Plan!Owners -> SUBSET Playlists]
    BY <1>0, <2>1 DEF Plan!TypeOK
  <2>3. \A x \in Plan!Owners : \A q \in rules'[x] : q \in rules[x] \/ (q = p /\ Plan!Exists(p))
    BY <1>0, <2>1 DEF Plan!TypeOK
  <2>4. Plan!NamesAreThere'
    BY <1>0, <2>1, <2>2, <2>3 DEF Plan!NamesAreThere, Plan!TypeOK
  <2> QED BY <1>0, <2>1, <2>2, <2>4, PlanWrite DEF Plan!TypeOK
<1>4. ASSUME NEW w \in Plan!Owners, NEW p \in Playlists \cup {None}, Plan!SetDefault(w, p)
      PROVE  Plan!PlanInv'
  <2>1. /\ Plan!Write({}) /\ UNCHANGED <<lists, there, grp, rules>>
        /\ p # None => Plan!Exists(p)
        /\ dflt' = [dflt EXCEPT ![w] = p]
    BY <1>4 DEF Plan!SetDefault
  <2>2. dflt' \in [Plan!Owners -> Playlists \cup {None}]
        /\ \A x \in Plan!Owners : dflt'[x] \in {p, dflt[x]}
    BY <1>0, <2>1 DEF Plan!TypeOK
  <2>3. Plan!NamesAreThere'
    BY <1>0, <2>1, <2>2 DEF Plan!NamesAreThere, Plan!TypeOK
  <2> QED BY <1>0, <2>1, <2>2, <2>3, PlanWrite DEF Plan!TypeOK
<1>5. ASSUME NEW g \in Groups, Plan!CreateGroup(g) PROVE Plan!PlanInv'
  <2>1. /\ Plan!Write({}) /\ UNCHANGED <<lists, grp, rules, dflt>> /\ there' \subseteq Groups
    BY <1>0, <1>5 DEF Plan!CreateGroup, Plan!TypeOK
  <2> QED BY <1>0, <2>1, PlanWrite DEF Plan!TypeOK, Plan!NamesAreThere
<1>6. ASSUME NEW g \in Groups, Plan!DeleteGroup(g) PROVE Plan!PlanInv'
  <2>1. /\ Plan!Write({}) /\ UNCHANGED <<lists, grp, rules>> /\ there' \subseteq Groups
        /\ dflt' = [dflt EXCEPT ![g] = None] /\ g \in Plan!Owners
    BY <1>0, <1>6 DEF Plan!DeleteGroup, Plan!TypeOK, Plan!Owners
  <2>2. dflt' \in [Plan!Owners -> Playlists \cup {None}]
        /\ \A x \in Plan!Owners : dflt'[x] \in {None, dflt[x]}
    BY <1>0, <2>1 DEF Plan!TypeOK
  <2>3. Plan!NamesAreThere'
    BY <1>0, <2>1, <2>2 DEF Plan!NamesAreThere, Plan!TypeOK
  <2> QED BY <1>0, <2>1, <2>2, <2>3, PlanWrite DEF Plan!TypeOK
<1>7. ASSUME NEW g \in Groups \cup {None}, Plan!MoveDevice(g) PROVE Plan!PlanInv'
  <2>1. /\ Plan!Write({}) /\ UNCHANGED <<lists, there, rules, dflt>>
        /\ grp' \in Groups \cup {None}
    BY <1>0, <1>7 DEF Plan!MoveDevice, Plan!TypeOK
  <2> QED BY <1>0, <2>1, PlanWrite DEF Plan!TypeOK, Plan!NamesAreThere
<1> QED BY <1>1, <1>2, <1>3, <1>4, <1>5, <1>6, <1>7
        DEF Plan!SetDeviceOverrides, Plan!UpdateGroup, Plan!Owners

\* What a poll wants that was read while nothing was written is what the tables name
\* now, and it is there.
LEMMA PlanWanted ==
    ASSUME Plan!PlanInv, lExcuse.clean, poll.pc \in {"lists", "items"}
    PROVE  /\ poll.rules = Plan!RulesNow /\ poll.dflt = Plan!DefaultNow
           /\ \A p \in Plan!Wanted : p \in Playlists /\ Plan!Exists(p)
<1>1. poll.rules = Plan!RulesNow /\ poll.dflt = Plan!DefaultNow
  BY DEF Plan!PlanInv, Plan!ReadIsTrue
<1>2. /\ Plan!GroupNow = None \/ Plan!GroupNow \in Plan!Owners
      /\ Device \in Plan!Owners
  BY DEF Plan!PlanInv, Plan!TypeOK, Plan!GroupNow, Plan!Owners
<1>3. /\ \A p \in Plan!RulesNow : p \in Playlists /\ Plan!Exists(p)
      /\ Plan!DefaultNow # None => Plan!DefaultNow \in Playlists /\ Plan!Exists(Plan!DefaultNow)
  BY <1>2 DEF Plan!PlanInv, Plan!TypeOK, Plan!NamesAreThere, Plan!RulesNow, Plan!DefaultNow
<1> QED BY <1>1, <1>3 DEF Plan!Wanted

\* The queries of Manifest.
LEMMA PlanReads ==
    ASSUME Plan!PlanInv,
           Plan!DeviceByToken \/ Plan!deviceGroup \/ Plan!readRules \/ Plan!PlaylistNoCount
    PROVE  Plan!PlanInv'
<1>0. /\ Plan!TypeOK /\ Plan!NamesAreThere /\ Plan!ReadIsTrue /\ Plan!PollIsWanted
      /\ Plan!FoundHasItems
      /\ UNCHANGED <<lists, there, grp, rules, dflt, sent, writes>>
  BY DEF Plan!PlanInv, Plan!DeviceByToken, Plan!deviceGroup, Plan!readRules,
     Plan!PlaylistNoCount, Plan!plan
<1>1. Plan!NamesAreThere'
  BY <1>0 DEF Plan!NamesAreThere, Plan!Exists
<1> DEFINE Polls == [pc : {"idle", "group", "rules", "groupRules", "lists", "items"},
                     grp : Groups \cup {None}, dflt : Playlists \cup {None},
                     rules : SUBSET Playlists, row : Playlists \cup {None},
                     todo : SUBSET Playlists, got : Plan!Lists]
<1>2. ASSUME poll' \in Polls, lExcuse' \in [clean : BOOLEAN, gone : SUBSET Playlists],
             Plan!ReadIsTrue', Plan!PollIsWanted', Plan!FoundHasItems'
      PROVE  Plan!PlanInv'
  BY <1>0, <1>1, <1>2 DEF Plan!PlanInv, Plan!TypeOK, Plan!Lists
<1>3. /\ poll \in Polls /\ lExcuse \in [clean : BOOLEAN, gone : SUBSET Playlists]
      /\ dflt \in [Plan!Owners -> Playlists \cup {None}] /\ Device \in Plan!Owners
      /\ rules \in [Plan!Owners -> SUBSET Playlists] /\ \A g \in Groups : g \in Plan!Owners
      /\ grp \in Groups \cup {None} /\ there \subseteq Groups /\ lists \in Plan!Lists
  BY <1>0 DEF Plan!TypeOK, Plan!Owners
<1>4. CASE Plan!DeviceByToken
  <2>1. /\ poll' = [pc |-> "group", grp |-> grp, dflt |-> dflt[Device], rules |-> {},
                    row |-> None, todo |-> {}, got |-> Plan!Absent]
        /\ lExcuse' = [clean |-> TRUE, gone |-> {}]
    BY <1>4 DEF Plan!DeviceByToken, Plan!IdlePoll
  <2>2. Plan!Absent \in Plan!Lists /\ \A p \in Playlists : Plan!Absent[p] = NoList
    BY DEF Plan!Absent, Plan!Lists
  <2>3. poll' \in Polls /\ lExcuse' \in [clean : BOOLEAN, gone : SUBSET Playlists]
    BY <1>3, <2>1, <2>2
  <2>4. Plan!ReadIsTrue' /\ Plan!PollIsWanted' /\ Plan!FoundHasItems'
    BY <1>0, <2>1, <2>2, PlanAssumption DEF Plan!ReadIsTrue, Plan!PollIsWanted,
       Plan!FoundHasItems
  <2> QED BY <1>2, <2>3, <2>4
<1>5. CASE Plan!deviceGroup
  <2> DEFINE g == IF poll.grp \in there THEN poll.grp ELSE None
             d == IF poll.dflt = None /\ g # None THEN dflt[g] ELSE poll.dflt
  <2>1. /\ poll' = [poll EXCEPT !.pc = "rules", !.grp = g, !.dflt = d]
        /\ poll.pc = "group" /\ lExcuse' = lExcuse
    BY <1>5 DEF Plan!deviceGroup
  <2>2. g \in Groups \cup {None} /\ d \in Playlists \cup {None}
    BY <1>3
  <2>3. lExcuse.clean => g = Plan!GroupNow /\ d = Plan!DefaultNow
    BY <1>0, <2>1 DEF Plan!ReadIsTrue, Plan!GroupNow, Plan!DefaultNow
  <2> HIDE DEF g, d
  <2>4. poll' \in Polls
    BY <1>3, <2>1, <2>2
  <2>5. /\ poll'.pc = "rules" /\ poll'.grp = g /\ poll'.dflt = d
        /\ poll'.todo = {} /\ poll'.got = poll.got /\ poll.todo = {}
    BY <1>0, <1>3, <2>1 DEF Plan!PollIsWanted
  <2>6. Plan!ReadIsTrue' /\ Plan!PollIsWanted' /\ Plan!FoundHasItems'
    BY <1>0, <2>1, <2>3, <2>5 DEF Plan!ReadIsTrue, Plan!PollIsWanted,
       Plan!FoundHasItems, Plan!GroupNow, Plan!DefaultNow
  <2> QED BY <1>2, <1>3, <2>1, <2>4, <2>6
<1>6. CASE Plan!readRules
  <2>1. lExcuse' = lExcuse
    BY <1>6 DEF Plan!readRules
  <2>2. CASE poll.pc = "rules"
    <3>1. poll' = [poll EXCEPT !.rules = rules[Device], !.pc =
                    IF rules[Device] = {} /\ poll.grp # None THEN "groupRules" ELSE "lists"]
      BY <1>6, <2>2 DEF Plan!readRules, Plan!GroupRulesCount
    <3>2. poll' \in Polls
      BY <1>3, <3>1
    <3>3. /\ poll'.pc = IF rules[Device] = {} /\ poll.grp # None THEN "groupRules" ELSE "lists"
          /\ poll'.rules = rules[Device] /\ poll'.grp = poll.grp /\ poll'.dflt = poll.dflt
          /\ poll'.todo = {} /\ poll'.got = poll.got /\ poll.todo = {}
      BY <1>0, <1>3, <2>2, <3>1 DEF Plan!PollIsWanted
    <3>4. Plan!ReadIsTrue' /\ Plan!PollIsWanted' /\ Plan!FoundHasItems'
      BY <1>0, <2>1, <2>2, <3>3 DEF Plan!ReadIsTrue, Plan!PollIsWanted,
         Plan!FoundHasItems, Plan!GroupNow, Plan!DefaultNow, Plan!RulesNow
    <3> QED BY <1>2, <1>3, <2>1, <3>2, <3>4
  <2>3. CASE poll.pc = "groupRules"
    <3>1. /\ poll' = [poll EXCEPT !.rules = @ \cup rules[poll.grp], !.pc = "lists"]
          /\ poll.grp \in Plan!Owners
      BY <1>0, <1>3, <1>6, <2>3 DEF Plan!readRules, Plan!PollIsWanted
    <3>2. poll' \in Polls
      BY <1>3, <3>1
    <3>3. /\ poll'.pc = "lists" /\ poll'.rules = poll.rules \cup rules[poll.grp]
          /\ poll'.grp = poll.grp /\ poll'.dflt = poll.dflt
          /\ poll'.todo = {} /\ poll'.got = poll.got /\ poll.todo = {}
      BY <1>0, <1>3, <2>3, <3>1 DEF Plan!PollIsWanted
    <3>4. Plan!ReadIsTrue' /\ Plan!PollIsWanted' /\ Plan!FoundHasItems'
      BY <1>0, <2>1, <2>3, <3>3 DEF Plan!ReadIsTrue, Plan!PollIsWanted,
         Plan!FoundHasItems, Plan!GroupNow, Plan!DefaultNow, Plan!RulesNow
    <3> QED BY <1>2, <1>3, <2>1, <3>2, <3>4
  <2> QED BY <1>6, <2>2, <2>3 DEF Plan!readRules
<1>7. CASE Plan!PlaylistNoCount
  <2>1. lExcuse' = lExcuse /\ (\A p \in Plan!Wanted : p \in Playlists)
    BY <1>3, <1>7 DEF Plan!PlaylistNoCount, Plan!Wanted
  <2>2. ASSUME NEW p \in Plan!Wanted, poll.pc = "lists", Plan!Exists(p),
               poll' = [poll EXCEPT !.pc = "items", !.row = p]
        PROVE  Plan!PlanInv'
    <3>1. poll' \in Polls
      BY <1>3, <2>1, <2>2
    <3>2. /\ poll'.pc = "items" /\ poll'.row = p /\ poll'.rules = poll.rules
          /\ poll'.grp = poll.grp /\ poll'.dflt = poll.dflt
          /\ poll'.todo = poll.todo /\ poll'.got = poll.got
      BY <1>3, <2>2
    <3>3. Plan!ReadIsTrue' /\ Plan!PollIsWanted' /\ Plan!FoundHasItems'
      BY <1>0, <2>1, <2>2, <3>2 DEF Plan!ReadIsTrue, Plan!PollIsWanted, Plan!Wanted,
         Plan!FoundHasItems, Plan!GroupNow, Plan!DefaultNow, Plan!RulesNow, Plan!Exists
    <3> QED BY <1>2, <1>3, <2>1, <3>1, <3>3
  <2>3. ASSUME NEW p \in Plan!Wanted, p \notin poll.todo, poll.pc = "lists",
               ~Plan!Exists(p), poll' = [poll EXCEPT !.todo = @ \cup {p}]
        PROVE  Plan!PlanInv'
    <3>1. poll' \in Polls
      BY <1>3, <2>1, <2>3
    <3>2. /\ poll'.pc = "lists" /\ poll'.row = poll.row /\ poll'.rules = poll.rules
          /\ poll'.grp = poll.grp /\ poll'.dflt = poll.dflt
          /\ poll'.todo = poll.todo \cup {p} /\ poll'.got = poll.got
      BY <1>3, <2>3
    <3>3. poll.got[p] = lists[p]
      BY <1>0, <2>1, <2>3 DEF Plan!PollIsWanted, Plan!Exists
    <3>4. Plan!ReadIsTrue' /\ Plan!PollIsWanted' /\ Plan!FoundHasItems'
      BY <1>0, <2>1, <2>3, <3>2, <3>3 DEF Plan!ReadIsTrue, Plan!PollIsWanted, Plan!Wanted,
         Plan!FoundHasItems, Plan!GroupNow, Plan!DefaultNow, Plan!RulesNow
    <3> QED BY <1>2, <1>3, <2>1, <3>1, <3>4
  <2>4. CASE poll.pc = "items"
    <3> DEFINE p == poll.row
               found == IF Plan!Exists(p) THEN lists[p] ELSE {}
               got == [poll.got EXCEPT ![p] = found]
    <3>1. p \in Plan!Wanted /\ p \in Playlists
      BY <1>0, <2>1, <2>4 DEF Plan!PollIsWanted
    <3>2. found \in {NoList} \cup SUBSET Media
      BY <1>3, <3>1 DEF Plan!Lists
    <3>3. /\ found # {} \/ p \in lExcuse.gone
          /\ lExcuse.clean => found = lists[p]
      <4>1. Plan!Exists(p) \/ p \in lExcuse.gone
        BY <1>0, <2>4 DEF Plan!FoundHasItems
      <4>2. lExcuse.clean => Plan!Exists(p)
        BY <2>4, <3>1, PlanWanted
      <4>3. lists[p] # {}
        BY <1>0, <3>1 DEF Plan!NamesAreThere
      <4> QED BY <4>1, <4>2, <4>3
    <3> HIDE DEF found
    <3>4. got \in Plan!Lists /\ \A q \in Playlists : got[q] = IF q = p THEN found ELSE poll.got[q]
      BY <1>3, <3>1, <3>2 DEF Plan!Lists
    <3>5. poll' = [poll EXCEPT !.got = got, !.todo = @ \cup {p}, !.row = None, !.pc = "lists"]
      BY <1>3, <1>7, <2>4 DEF Plan!PlaylistNoCount, found
    <3> HIDE DEF got, p
    <3>6. poll' \in Polls
      BY <1>3, <3>1, <3>4, <3>5
    <3>7. /\ poll'.pc = "lists" /\ poll'.rules = poll.rules
          /\ poll'.grp = poll.grp /\ poll'.dflt = poll.dflt
          /\ poll'.todo = poll.todo \cup {p} /\ poll'.got = got
      BY <1>3, <3>5
    <3>8. \A q \in poll.todo : q \in Playlists
      BY <1>3
    <3>9. Plan!ReadIsTrue'
      BY <1>0, <2>1, <2>4, <3>1, <3>3, <3>4, <3>7, <3>8 DEF Plan!ReadIsTrue,
         Plan!GroupNow, Plan!DefaultNow, Plan!RulesNow
    <3>10. Plan!PollIsWanted' /\ Plan!FoundHasItems'
      BY <1>0, <2>1, <2>4, <3>1, <3>3, <3>4, <3>7 DEF Plan!PollIsWanted, Plan!Wanted,
         Plan!FoundHasItems
    <3> QED BY <1>2, <1>3, <2>1, <3>6, <3>9, <3>10
  <2> QED BY <1>7, <2>2, <2>3, <2>4 DEF Plan!PlaylistNoCount
<1> QED BY <1>4, <1>5, <1>6, <1>7

\* The end of Manifest: the poll is over.
LEMMA PlanSent ==
    ASSUME Plan!PlanInv, Plan!Manifest
    PROVE  Plan!PlanInv' /\ Plan!NamedHasItems
<1>0. /\ Plan!TypeOK /\ Plan!NamesAreThere /\ Plan!PollIsWanted /\ Plan!FoundHasItems
      /\ UNCHANGED <<lists, there, grp, rules, dflt, lExcuse, writes>>
  BY DEF Plan!PlanInv, Plan!Manifest, Plan!plan
<1>1. /\ poll' = [pc |-> "idle", grp |-> None, dflt |-> None, rules |-> {}, row |-> None,
                  todo |-> {}, got |-> Plan!Absent]
      /\ Plan!Absent \in Plan!Lists /\ \A p \in Playlists : Plan!Absent[p] = NoList
  BY DEF Plan!Manifest, Plan!IdlePoll, Plan!Absent, Plan!Lists
<1>2. /\ sent'.rules = {p \in poll.rules : poll.got[p] # NoList}
      /\ sent'.dflt = IF poll.dflt # None /\ poll.got[poll.dflt] # NoList
                      THEN poll.dflt ELSE None
      /\ sent'.lists = poll.got
      /\ sent' = [rules |-> sent'.rules, dflt |-> sent'.dflt, lists |-> sent'.lists]
  BY DEF Plan!Manifest
<1>3. /\ poll.rules \subseteq Playlists /\ poll.dflt \in Playlists \cup {None}
      /\ poll.got \in Plan!Lists
  BY <1>0 DEF Plan!TypeOK
<1>4. Plan!TypeOK'
  <2>1. sent' \in [rules : SUBSET Playlists, dflt : Playlists \cup {None}, lists : Plan!Lists]
    BY <1>2, <1>3
  <2>2. poll' \in [pc : {"idle", "group", "rules", "groupRules", "lists", "items"},
                   grp : Groups \cup {None}, dflt : Playlists \cup {None},
                   rules : SUBSET Playlists, row : Playlists \cup {None},
                   todo : SUBSET Playlists, got : Plan!Lists]
    BY <1>1
  <2> QED BY <1>0, <2>1, <2>2 DEF Plan!TypeOK, Plan!Lists
<1>5. Plan!NamesAreThere'
  BY <1>0 DEF Plan!NamesAreThere, Plan!Exists
<1>6. Plan!ReadIsTrue' /\ Plan!PollIsWanted' /\ Plan!FoundHasItems'
  BY <1>0, <1>1, PlanAssumption DEF Plan!ReadIsTrue, Plan!PollIsWanted, Plan!FoundHasItems
<1>7. Plan!NamedHasItems
  BY <1>0, <1>2, <1>3 DEF Plan!NamedHasItems, Plan!FoundHasItems
<1> QED BY <1>4, <1>5, <1>6, <1>7 DEF Plan!PlanInv

\* The reference, without its sets of one group and one default.
PlanNamed == Plan!RulesNow \cup ({Plan!DefaultNow} \ {None})

PlanResolvedIs ==
    Plan!Resolved = [rules |-> Plan!RulesNow, dflt |-> Plan!DefaultNow,
                     lists |-> [p \in Playlists |->
                                    IF p \in PlanNamed THEN lists[p] ELSE NoList]]

\* It is the reference in every state.
LEMMA ResolvedIs == Plan!TypeOK => PlanResolvedIs
<1> SUFFICES ASSUME Plan!TypeOK PROVE PlanResolvedIs
  OBVIOUS
<1> DEFINE own == rules[Device]
           g == IF grp \in there THEN {grp} ELSE {}
           r == IF own # {} THEN own ELSE UNION {rules[w] : w \in g}
           defaults == ({dflt[Device]} \ {None})
                       \cup IF dflt[Device] = None THEN {dflt[w] : w \in g} \ {None} ELSE {}
           named == r \cup defaults
<1>1. None \notin there
  BY PlanAssumption DEF Plan!TypeOK
<1>2. r = Plan!RulesNow
  <2>1. CASE grp \in there
    <3>1. UNION {rules[w] : w \in g} = rules[grp]
      BY <2>1
    <3> QED BY <1>1, <2>1, <3>1 DEF Plan!RulesNow, Plan!GroupNow
  <2>2. CASE grp \notin there
    <3>1. UNION {rules[w] : w \in g} = {}
      BY <2>2
    <3> QED BY <1>1, <2>2, <3>1 DEF Plan!RulesNow, Plan!GroupNow
  <2> QED BY <2>1, <2>2
<1>3. defaults = {Plan!DefaultNow} \ {None}
  <2>1. CASE grp \in there
    <3>1. {dflt[w] : w \in g} = {dflt[grp]}
      BY <2>1
    <3> QED BY <1>1, <2>1, <3>1 DEF Plan!DefaultNow, Plan!GroupNow
  <2>2. CASE grp \notin there
    <3>1. {dflt[w] : w \in g} = {}
      BY <2>2
    <3> QED BY <1>1, <2>2, <3>1 DEF Plan!DefaultNow, Plan!GroupNow
  <2> QED BY <2>1, <2>2
<1>4. (IF defaults = {} THEN None ELSE CHOOSE p \in defaults : TRUE) = Plan!DefaultNow
  <2> HIDE DEF defaults
  <2> QED BY <1>3
<1>5. Plan!Resolved = [rules |-> r,
                       dflt |-> IF defaults = {} THEN None ELSE CHOOSE p \in defaults : TRUE,
                       lists |-> [p \in Playlists |-> IF p \in named THEN lists[p] ELSE NoList]]
  BY DEF Plan!Resolved
<1> HIDE DEF r, defaults
<1> QED BY <1>2, <1>3, <1>4, <1>5 DEF PlanResolvedIs, PlanNamed

\* A manifest that was read while nothing was written is the reference.
LEMMA PlanResolved ==
    ASSUME Plan!PlanInv, Plan!Manifest, lExcuse.clean PROVE sent' = Plan!Resolved
<1>1. Plan!TypeOK /\ Plan!ReadIsTrue /\ Plan!PollIsWanted /\ poll.pc = "lists"
      /\ Plan!Wanted = poll.todo
  BY DEF Plan!PlanInv, Plan!Manifest, Plan!PollIsWanted
<1>2. /\ poll.rules = Plan!RulesNow /\ poll.dflt = Plan!DefaultNow
      /\ \A p \in Plan!Wanted : p \in Playlists /\ lists[p] # NoList
  BY <1>1, PlanWanted DEF Plan!Exists
<1>3. \A p \in Playlists : poll.got[p] = IF p \in Plan!Wanted THEN lists[p] ELSE NoList
  BY <1>1 DEF Plan!ReadIsTrue, Plan!PollIsWanted
<1>4. poll.got = [p \in Playlists |-> IF p \in Plan!Wanted THEN lists[p] ELSE NoList]
  BY <1>1, <1>3 DEF Plan!TypeOK, Plan!Lists
<1>5. {p \in poll.rules : poll.got[p] # NoList} = poll.rules
  BY <1>2, <1>3 DEF Plan!Wanted
<1>6. (IF poll.dflt # None /\ poll.got[poll.dflt] # NoList THEN poll.dflt ELSE None) = poll.dflt
  BY <1>2, <1>3 DEF Plan!Wanted
<1>7. sent' = [rules |-> poll.rules, dflt |-> poll.dflt, lists |-> poll.got]
  BY <1>5, <1>6 DEF Plan!Manifest
<1> QED BY <1>1, <1>2, <1>4, <1>7, ResolvedIs DEF Plan!Wanted, PlanResolvedIs, PlanNamed

\* A playlist or a group goes in one action each, and what the device plays names neither.
LEMMA PlanQuiet ==
    ASSUME Plan!PlanInv, Plan!PlanInv', Plan!Next PROVE Plan!QuietDelete
<1> SUFFICES ASSUME Plan!Goes PROVE Plan!Resolved' = Plan!Resolved
  BY DEF Plan!QuietDelete
<1>0. Plan!TypeOK /\ Plan!TypeOK' /\ None \notin there /\ Device \in Plan!Owners
      /\ there \subseteq Plan!Owners
  BY PlanAssumption DEF Plan!PlanInv, Plan!TypeOK, Plan!Owners
<1>1. ASSUME Plan!RulesNow' = Plan!RulesNow, Plan!DefaultNow' = Plan!DefaultNow,
             \A p \in Playlists : p \in PlanNamed => lists'[p] = lists[p]
      PROVE  Plan!Resolved' = Plan!Resolved
  <2>1. PlanResolvedIs
    BY <1>0, ResolvedIs
  <2>2. PlanResolvedIs'
    BY <1>0, ResolvedIs, PTL
  <2>3. PlanNamed' = PlanNamed
    BY <1>1 DEF PlanNamed
  <2>4. [p \in Playlists |-> IF p \in PlanNamed' THEN lists'[p] ELSE NoList]
        = [p \in Playlists |-> IF p \in PlanNamed THEN lists[p] ELSE NoList]
    BY <1>1, <2>3
  <2> QED BY <1>1, <2>1, <2>2, <2>4 DEF PlanResolvedIs
<1>2. \/ \E p \in Playlists : Plan!DeletePlaylist(p)
      \/ \E g \in Groups : Plan!DeleteGroup(g)
  <2>1. ASSUME NEW p \in Playlists, NEW m \in SUBSET Media, Plan!SavePlaylist(p, m) PROVE FALSE
    BY <1>0, <2>1, PlanAssumption DEF Plan!SavePlaylist, Plan!Goes, Plan!Exists, Plan!TypeOK,
       Plan!Lists
  <2>2. there \subseteq there' /\ lists' = lists => FALSE
    BY DEF Plan!Goes, Plan!Exists
  <2> QED BY <2>1, <2>2 DEF Plan!Next, Plan!SaveAssignment, Plan!DeleteAssignment,
             Plan!SetDeviceOverrides, Plan!UpdateGroup, Plan!SetDefault, Plan!CreateGroup,
             Plan!MoveDevice, Plan!DeviceByToken, Plan!deviceGroup, Plan!readRules,
             Plan!PlaylistNoCount, Plan!Manifest, Plan!plan
<1>3. ASSUME NEW p \in Playlists, Plan!DeletePlaylist(p) PROVE Plan!Resolved' = Plan!Resolved
  <2>1. /\ lists' = [lists EXCEPT ![p] = NoList] /\ UNCHANGED <<there, grp>>
        /\ \A w \in Plan!Owners : p \notin rules[w] /\ dflt[w] # p
    BY <1>3 DEF Plan!DeletePlaylist, Plan!UsesPlaylist
  <2>2. rules' = rules /\ dflt' = dflt
    BY <1>0, <1>3, <2>1 DEF Plan!DeletePlaylist, Plan!TypeOK
  <2>3. Plan!RulesNow' = Plan!RulesNow /\ Plan!DefaultNow' = Plan!DefaultNow
    BY <2>1, <2>2 DEF Plan!RulesNow, Plan!DefaultNow, Plan!GroupNow
  <2>4. p \notin PlanNamed
    BY <1>0, <2>1 DEF PlanNamed, Plan!RulesNow, Plan!DefaultNow, Plan!GroupNow
  <2>5. \A q \in Playlists : q # p => lists'[q] = lists[q]
    BY <1>0, <2>1 DEF Plan!TypeOK, Plan!Lists
  <2> QED BY <1>1, <2>3, <2>4, <2>5
<1>4. ASSUME NEW g \in Groups, Plan!DeleteGroup(g) PROVE Plan!Resolved' = Plan!Resolved
  <2>1. /\ UNCHANGED <<lists, grp, rules>> /\ there' = there \ {g} /\ grp # g
        /\ dflt' = [dflt EXCEPT ![g] = None] /\ Device # g
    BY <1>4, PlanAssumption DEF Plan!DeleteGroup
  <2>2. Plan!GroupNow' = Plan!GroupNow /\ Plan!GroupNow # g
        /\ (Plan!GroupNow = None \/ Plan!GroupNow \in Plan!Owners)
    BY <1>0, <2>1, PlanAssumption DEF Plan!GroupNow
  <2>3. \A w \in Plan!Owners : w # g => dflt'[w] = dflt[w]
    BY <1>0, <2>1 DEF Plan!TypeOK
  <2>4. Plan!RulesNow' = Plan!RulesNow /\ Plan!DefaultNow' = Plan!DefaultNow
    BY <1>0, <2>1, <2>2, <2>3 DEF Plan!RulesNow, Plan!DefaultNow
  <2> QED BY <1>1, <2>1, <2>4
<1> QED BY <1>2, <1>3, <1>4

\* Every step of the component keeps the invariant and the three action properties.
LEMMA PlanStep ==
    ASSUME Plan!PlanInv, [Plan!Next]_planVars
    PROVE  /\ Plan!PlanInv'
           /\ \/ UNCHANGED planVars
              \/ /\ Plan!ManifestIsResolved /\ Plan!NamedHasItems
                 /\ Plan!QuietDelete /\ Plan!TypeOK'
<1>1. CASE UNCHANGED planVars
  BY <1>1 DEF planVars, Plan!PlanInv, Plan!TypeOK, Plan!NamesAreThere, Plan!ReadIsTrue,
     Plan!PollIsWanted, Plan!FoundHasItems, Plan!GroupNow, Plan!DefaultNow, Plan!RulesNow,
     Plan!Wanted, Plan!Exists
<1>2. CASE Plan!Next
  <2>1. CASE Plan!Manifest
    <3>1. Plan!ManifestIsResolved
      BY <2>1, PlanResolved DEF Plan!ManifestIsResolved
    <3>2. Plan!PlanInv' /\ Plan!NamedHasItems
      BY <2>1, PlanSent
    <3> QED BY <1>2, <3>1, <3>2, PlanQuiet DEF Plan!PlanInv
  <2>2. CASE Plan!DeviceByToken \/ Plan!deviceGroup \/ Plan!readRules \/ Plan!PlaylistNoCount
    <3>1. Plan!PlanInv'
      BY <2>2, PlanReads
    <3>2. sent' = sent
      BY <2>2 DEF Plan!DeviceByToken, Plan!deviceGroup, Plan!readRules, Plan!PlaylistNoCount
    <3>3. Plan!ManifestIsResolved /\ Plan!NamedHasItems
      BY <3>2 DEF Plan!ManifestIsResolved, Plan!NamedHasItems
    <3> QED BY <1>2, <3>1, <3>3, PlanQuiet DEF Plan!PlanInv
  <2>3. CASE ~(\/ Plan!Manifest \/ Plan!DeviceByToken \/ Plan!deviceGroup \/ Plan!readRules
               \/ Plan!PlaylistNoCount)
    <3>1. Plan!PlanInv'
      BY <1>2, <2>3, PlanAdmin DEF Plan!Next
    <3>2. sent' = sent
      BY <1>2, <2>3 DEF Plan!Next, Plan!SavePlaylist, Plan!DeletePlaylist,
         Plan!SaveAssignment, Plan!DeleteAssignment, Plan!SetDeviceOverrides,
         Plan!UpdateGroup, Plan!SetDefault, Plan!CreateGroup, Plan!DeleteGroup,
         Plan!MoveDevice, Plan!Write
    <3>3. Plan!ManifestIsResolved /\ Plan!NamedHasItems
      BY <3>2 DEF Plan!ManifestIsResolved, Plan!NamedHasItems
    <3> QED BY <1>2, <3>1, <3>3, PlanQuiet DEF Plan!PlanInv
  <2> QED BY <2>1, <2>2, <2>3
<1> QED BY <1>1, <1>2

\* A manifest that was read while nothing was written is what the reference resolves; what
\* it names has an item, or was deleted during the poll; and the delete of a playlist or of
\* a group changes no screen: for all groups, playlists and media.
THEOREM PlanSafe == Spec => PlanIsKept
<1>1. Init => Plan!PlanInv
  BY PlanInit DEF Init
<1>2. Plan!PlanInv /\ [Next]_vars =>
        /\ Plan!PlanInv'
        /\ [/\ Plan!ManifestIsResolved /\ Plan!NamedHasItems
            /\ Plan!QuietDelete /\ Plan!TypeOK']_planVars
  <2> SUFFICES ASSUME Plan!PlanInv, [Plan!Next]_planVars
               PROVE  /\ Plan!PlanInv'
                      /\ [/\ Plan!ManifestIsResolved /\ Plan!NamedHasItems
                          /\ Plan!QuietDelete /\ Plan!TypeOK']_planVars
    BY DEF Next, OfEnroll, OfMirror, OfStore, OfPlan, vars
  <2> QED BY PlanStep
<1> QED BY <1>1, <1>2, PTL DEF Spec, PlanIsKept
=============================================================================
