--------------------------- MODULE ReleaseMirror ---------------------------
(***************************************************************************)
(* The release mirror of the server: internal/server/releases/mirror.go    *)
(* and bundle.go, the routes of admin/releases.go, the rows of             *)
(* db/releases.go, and the cache of the manifest values in                 *)
(* cmd/portapixel-server/run.go.                                           *)
(*                                                                         *)
(* One job at a time downloads a release, or unpacks a bundle, verifies it *)
(* and puts it in the directory of its version.  A device reads two gates: *)
(* the manifest, which is made from the cache, and the download route,     *)
(* which reads the row.  The files that a job stages are told apart by     *)
(* part: the binaries with their signatures, and the checksums.  A         *)
(* directory of a version is one value: "good" when Verify passes.         *)
(***************************************************************************)
EXTENDS Naturals

CONSTANTS
    Versions,     \* the versions of a release
    NoVersion,    \* no version
    MirrorFaults, \* which of "get", "rename", "restart" happen
    MaxMirror     \* bound: how many faults and requests of the admin happen

VARIABLES
    rows,      \* releases table: the mirror_state, "noted" when it is empty and
               \* "absent" without a row
    approved,  \* releases table: the version with approved = 1
    dest,      \* on disk: the files in the directory of a version
    aside,     \* on disk: the files in <version>.old
    job,       \* the job that holds the working lock: [pc, v, by, files, old]
    admin,     \* the approve or unapprove request: [pc, v]
    fleet,     \* the cache: the release that a manifest names
    excuse,    \* history: versions with a failed rename, or a late failure
    count

vars == <<rows, approved, dest, aside, job, admin, fleet, excuse, count>>

NoFiles == "none"

\* Files: what a release is made of.
Files == {"binaries", "sums"}
EmptyStaging == [f \in Files |-> NoFiles]

NoJob == [pc |-> "idle", v |-> NoVersion, by |-> "mirror", files |-> EmptyStaging,
          old |-> FALSE]
NoRequest == [pc |-> "idle", v |-> NoVersion]

Init ==
    /\ rows = [v \in Versions |-> "absent"]
    /\ approved = NoVersion
    /\ dest = [v \in Versions |-> NoFiles]
    /\ aside = [v \in Versions |-> NoFiles]
    /\ job = NoJob /\ admin = NoRequest
    /\ fleet = NoVersion
    /\ excuse = [late |-> {}, rename |-> {}]
    /\ count = 0

Jobs == [pc : {"idle", "start", "get", "fetch", "extract", "verify", "aside", "place",
               "drop", "ok", "failed", "refreshStart", "refreshEnd"},
         v : Versions \cup {NoVersion}, by : {"mirror", "bundle"},
         files : [Files -> {NoFiles, "good", "bad"}], old : BOOLEAN]

TypeOK ==
    /\ rows \in [Versions -> {"absent", "noted", "working", "done", "failed"}]
    /\ approved \in Versions \cup {NoVersion} /\ fleet \in Versions \cup {NoVersion}
    /\ dest \in [Versions -> {NoFiles, "good", "bad"}]
    /\ aside \in [Versions -> {NoFiles, "good", "bad"}]
    /\ job \in Jobs
    /\ admin \in [pc : {"idle", "changed", "read", "start", "changedOff"},
                  v : Versions \cup {NoVersion}]
    /\ excuse \in [late : SUBSET Versions, rename : SUBSET Versions]
    /\ count \in 0..MaxMirror

Counted == count < MaxMirror /\ count' = count + 1
Fault(kind) == kind \in MirrorFaults /\ Counted

-----------------------------------------------------------------------------
(***************************************************************************)
(* The job.                                                                *)
(***************************************************************************)
haveVersion(v) == dest[v] # NoFiles

\* ApprovedRelease with MirrorState done, and refreshFleet, which reads it and
\* fills the cache under one lock.
Announced(r) == IF approved # NoVersion /\ r[approved] = "done" THEN approved ELSE NoVersion
refreshFleet == fleet' = Announced(rows)

\* begin: the working lock.
begin(v, by) ==
    job.pc = "idle" /\ job' = [NoJob EXCEPT !.pc = "start", !.v = v, !.by = by]

\* A mutant: the working state is reported for every version.
ReportsWorkingAlways(v) == TRUE

\* run1: a version that is mirrored already keeps its state.
ReportsWorking(v) == ~haveVersion(v)

reportStart ==
    /\ job.pc = "start"
    /\ \/ /\ ReportsWorking(job.v)
          /\ rows' = [rows EXCEPT ![job.v] = "working"]
          /\ job' = [job EXCEPT !.pc = "refreshStart"]
       \/ /\ ~ReportsWorking(job.v)
          /\ job' = [job EXCEPT !.pc = "get"]
          /\ UNCHANGED rows
    /\ UNCHANGED <<approved, dest, aside, admin, fleet, excuse, count>>

reportRefresh ==
    /\ refreshFleet
    /\ \/ /\ job.pc = "refreshStart"
          /\ job' = [job EXCEPT !.pc = "get"]
       \/ /\ job.pc = "refreshEnd"
          /\ job' = NoJob
    /\ UNCHANGED <<rows, approved, dest, aside, admin, excuse, count>>

\* mirror: the key, the room, the release of the list and a staging directory,
\* or an error of one of them.
mirror ==
    /\ job.pc = "get" /\ job.by = "mirror"
    /\ \/ job' = [job EXCEPT !.pc = "fetch"] /\ UNCHANGED count
       \/ Fault("get") /\ job' = [job EXCEPT !.pc = "failed"]
    /\ UNCHANGED <<rows, approved, dest, aside, admin, fleet, excuse>>

\* writeMember: the whole file takes its name, over a file of the same name, or
\* nothing does.
writeMember(f, bytes) == [job EXCEPT !.files[f] = bytes]

\* The loop of mirror and download.  A file that the release does not name, a
\* host that is not allowed, a bad status, a deadline or too many bytes stop it.
download ==
    /\ job.pc = "fetch"
    /\ \/ \E f \in Files :
            /\ job.files[f] = NoFiles
            /\ \/ job' = writeMember(f, "good") /\ UNCHANGED count
               \/ Fault("get") /\ job' = writeMember(f, "bad")
       \/ /\ NoFiles \notin {job.files[f] : f \in Files}
          /\ job' = [job EXCEPT !.pc = "verify"]
          /\ UNCHANGED count
       \/ Fault("get") /\ job' = [job EXCEPT !.pc = "failed"]
    /\ UNCHANGED <<rows, approved, dest, aside, admin, fleet, excuse>>

\* extractTarGz and extractZip: the wanted members in the order of the archive,
\* one name perhaps more than once.  A damaged archive, a name that memberName
\* refuses, a member that is no plain file or too many of them stop it.
extract ==
    /\ job.pc = "extract"
    /\ \/ \E f \in Files :
            \/ job' = writeMember(f, "good") /\ UNCHANGED count
            \/ Fault("get") /\ job' = writeMember(f, "bad")
       \/ Fault("get") /\ job' = [job EXCEPT !.pc = "failed"]
    /\ job' # job
    /\ UNCHANGED <<rows, approved, dest, aside, admin, fleet, excuse>>

\* installBundle around extract: the staging directory, and when the archive
\* ends the test that every file is there.
installBundle ==
    /\ \/ /\ job.pc = "get" /\ job.by = "bundle"
          /\ job' = [job EXCEPT !.pc = "extract"]
          /\ UNCHANGED count
       \/ /\ job.pc = "get" /\ job.by = "bundle"
          /\ Fault("get")
          /\ job' = [job EXCEPT !.pc = "failed"]
       \/ /\ job.pc = "extract"
          /\ job' = [job EXCEPT !.pc = IF NoFiles \in {job.files[f] : f \in Files}
                                      THEN "failed" ELSE "verify"]
          /\ UNCHANGED count
    /\ UNCHANGED <<rows, approved, dest, aside, admin, fleet, excuse>>

\* Verify: the signature of each binary, and its checksum in the checksum file.
Verify(files) == \A f \in Files : files[f] = "good"

verify ==
    /\ job.pc = "verify"
    /\ job' = [job EXCEPT !.pc = IF Verify(job.files) THEN "aside" ELSE "failed"]
    /\ UNCHANGED <<rows, approved, dest, aside, admin, fleet, excuse, count>>

\* commit: the old directory moves aside.
commitAside ==
    /\ job.pc = "aside"
    /\ \/ /\ ~haveVersion(job.v)
          /\ job' = [job EXCEPT !.pc = "place"]
          /\ UNCHANGED <<dest, aside, count>>
       \/ /\ haveVersion(job.v)
          /\ aside' = [aside EXCEPT ![job.v] = dest[job.v]]
          /\ dest' = [dest EXCEPT ![job.v] = NoFiles]
          /\ job' = [job EXCEPT !.pc = "place", !.old = TRUE]
          /\ UNCHANGED count
       \/ /\ haveVersion(job.v) /\ Fault("rename")
          /\ aside' = [aside EXCEPT ![job.v] = NoFiles]
          /\ job' = [job EXCEPT !.pc = "failed"]
          /\ UNCHANGED dest
    /\ UNCHANGED <<rows, approved, admin, fleet, excuse>>

\* commit: the staged directory takes its place, or the old one comes back, or
\* neither works and the copy stays at <version>.old.
commitPlace ==
    /\ job.pc = "place"
    /\ \/ /\ dest' = [dest EXCEPT ![job.v] = IF Verify(job.files) THEN "good" ELSE "bad"]
          /\ job' = [job EXCEPT !.pc = "drop"]
          /\ excuse' = [excuse EXCEPT !.rename = @ \ {job.v}]
          /\ UNCHANGED <<aside, count>>
       \/ /\ Fault("rename")
          /\ job' = [job EXCEPT !.pc = "failed"]
          /\ \/ /\ job.old
                /\ dest' = [dest EXCEPT ![job.v] = aside[job.v]]
                /\ aside' = [aside EXCEPT ![job.v] = NoFiles]
                /\ UNCHANGED excuse
             \/ /\ excuse' = [excuse EXCEPT !.rename = IF job.old THEN @ \cup {job.v} ELSE @]
                /\ UNCHANGED <<dest, aside>>
    /\ UNCHANGED <<rows, approved, admin, fleet>>

commitDrop ==
    /\ job.pc = "drop"
    /\ aside' = IF job.old THEN [aside EXCEPT ![job.v] = NoFiles] ELSE aside
    /\ job' = [job EXCEPT !.pc = "ok"]
    /\ UNCHANGED <<rows, approved, dest, admin, fleet, excuse, count>>

\* The last report of run1 and InstallBundle.
reportEnd ==
    /\ job.pc \in {"ok", "failed"}
    /\ rows' = [rows EXCEPT ![job.v] =
                  IF job.pc = "ok" \/ haveVersion(job.v) THEN "done" ELSE "failed"]
    /\ excuse' = [excuse EXCEPT !.late = @ \ {job.v}]
    /\ job' = [job EXCEPT !.pc = "refreshEnd"]
    /\ UNCHANGED <<approved, dest, aside, admin, fleet, count>>

Job ==
    \/ reportStart \/ reportRefresh
    \/ mirror \/ download \/ installBundle \/ extract \/ verify
    \/ commitAside \/ commitPlace \/ commitDrop \/ reportEnd

-----------------------------------------------------------------------------
(***************************************************************************)
(* The routes.                                                             *)
(***************************************************************************)
\* listReleases: the list of GitHub makes rows.
NoteReleases ==
    /\ rows' = [v \in Versions |-> IF rows[v] = "absent" THEN "noted" ELSE rows[v]]
    /\ rows' # rows
    /\ UNCHANGED <<approved, dest, aside, job, admin, fleet, excuse, count>>

\* mirrorRelease, and uploadBundle, which needs no row.
mirrorRelease(v) ==
    /\ Counted
    /\ rows[v] # "absent"
    /\ begin(v, "mirror")
    /\ UNCHANGED <<rows, approved, dest, aside, admin, fleet, excuse>>

\* InstallBundle: the key, the kind of the archive and the room are looked at
\* before the lock, so a bundle that they refuse leaves no row.
InstallBundle(v) == begin(v, "bundle")

uploadBundle(v) ==
    /\ Counted
    /\ InstallBundle(v)
    /\ UNCHANGED <<rows, approved, dest, aside, admin, fleet, excuse>>

\* approveRelease and unapproveRelease: the transaction, then FleetChanged.
approveRelease(v) ==
    /\ admin.pc = "idle" /\ Counted
    /\ \/ /\ rows[v] # "absent"
          /\ approved' = v
          /\ admin' = [pc |-> "changed", v |-> v]
       \/ /\ approved = v
          /\ approved' = NoVersion
          /\ admin' = [pc |-> "changedOff", v |-> v]
    /\ UNCHANGED <<rows, dest, aside, job, fleet, excuse>>

FleetChanged == refreshFleet

approveChanged ==
    /\ FleetChanged
    /\ \/ admin.pc = "changed" /\ admin' = [admin EXCEPT !.pc = "read"]
       \/ admin.pc = "changedOff" /\ admin' = NoRequest
    /\ UNCHANGED <<rows, approved, dest, aside, job, excuse, count>>

\* approveRelease reads the row: a mirrored release needs nothing more.
approveRead ==
    /\ admin.pc = "read"
    /\ \/ rows[admin.v] = "done" /\ admin' = NoRequest
       \/ rows[admin.v] # "done" /\ admin' = [admin EXCEPT !.pc = "start"]
    /\ UNCHANGED <<rows, approved, dest, aside, job, fleet, excuse, count>>

\* Start, and for a lock that is taken SetMirrorState, which fills no cache.
approveStart ==
    /\ admin.pc = "start"
    /\ admin' = NoRequest
    /\ \/ begin(admin.v, "mirror") /\ UNCHANGED <<rows, excuse>>
       \/ /\ job.pc # "idle"
          /\ rows' = [rows EXCEPT ![admin.v] = "failed"]
          /\ excuse' = IF rows[admin.v] = "done"
                       THEN [excuse EXCEPT !.late = @ \cup {admin.v}] ELSE excuse
          /\ UNCHANGED job
    /\ UNCHANGED <<approved, dest, aside, fleet, count>>

-----------------------------------------------------------------------------
(***************************************************************************)
(* A stop at any moment and the next start: ResetWorkingMirrors,           *)
(* CleanStaging and the first refreshFleet.                                *)
(***************************************************************************)
ResetWorkingMirrors == [v \in Versions |-> IF rows[v] = "working" THEN "failed" ELSE rows[v]]

\* A mutant: the copy aside is a leftover like a staging directory.
RecoversNot(v) == FALSE

\* recoverOld: the copy aside comes back when the directory is missing.
Recovers(v) == aside[v] # NoFiles /\ ~haveVersion(v)

\* CleanStaging: the staging directories go, and every copy aside is answered.
CleanStaging ==
    \E stays \in SUBSET {v \in Versions : Recovers(v)} :
        /\ stays # {} => "rename" \in MirrorFaults
        /\ dest' = [v \in Versions |-> IF Recovers(v) /\ v \notin stays THEN aside[v] ELSE dest[v]]
        /\ aside' = [v \in Versions |-> IF v \in stays THEN aside[v] ELSE NoFiles]
        /\ excuse' = [late |-> {}, rename |-> stays]

\* openServer.
Restart ==
    /\ Fault("restart")
    /\ rows' = ResetWorkingMirrors
    /\ CleanStaging
    /\ job' = NoJob /\ admin' = NoRequest
    /\ fleet' = Announced(rows')
    /\ UNCHANGED approved

Next ==
    \/ reportStart \/ reportRefresh
    \/ mirror \/ download \/ installBundle \/ extract \/ verify
    \/ commitAside \/ commitPlace \/ commitDrop \/ reportEnd
    \/ NoteReleases
    \/ \E v \in Versions : mirrorRelease(v) \/ uploadBundle(v) \/ approveRelease(v)
    \/ approveChanged \/ approveRead \/ approveStart \/ Restart

Spec == Init /\ [][Next]_vars

\* The goroutine of the job runs until it reports.
Fairness == WF_vars(Job)

-----------------------------------------------------------------------------
(***************************************************************************)
(* Properties.                                                             *)
(***************************************************************************)
\* A row that says "done" has verified files in its directory, also after a
\* stop at any moment.  The two renames of commit are excused while they run,
\* and a rename that failed.
DoneIsVerified ==
    \A v \in Versions :
        rows[v] = "done" =>
            \/ dest[v] = "good"
            \/ v \in excuse.rename
            \/ job.v = v /\ job.pc = "place"

\* run1 and commit: a job, whatever happens in it, never takes a mirrored
\* release off the air.  approveStart is excused; LateFailureKeeps is about it.
StaysOnTheAir ==
    \A v \in Versions :
        rows[v] = "done" /\ rows'[v] # "done" =>
            \/ v \in excuse.rename
            \/ admin.pc = "start" /\ admin'.pc = "idle"

\* mirror.go: a late failure must never clear a good install.
LateFailureKeeps ==
    [][\A v \in Versions :
        rows[v] = "done" /\ dest[v] = "good" => rows'[v] = "done"]_vars

\* When no request and no job runs, the manifests name the release that the
\* download route serves.
CacheFollows ==
    job.pc = "idle" /\ admin.pc = "idle" /\ excuse.late = {} => fleet = Announced(rows)

\* No row says "working" for ever.
WorkEnds == \A v \in Versions : []<>(rows[v] # "working")

\* The safety of the mirror: types, and the two statements above.
MirrorIsVerified == TypeOK /\ DoneIsVerified /\ CacheFollows

-----------------------------------------------------------------------------
(***************************************************************************)
(* The inductive invariant behind MirrorIsVerified.                        *)
(***************************************************************************)
\* A job and a request that run have their version.
Named ==
    /\ job.pc # "idle" => job.v \in Versions
    /\ admin.pc # "idle" => admin.v \in Versions

\* Only verified files reach the directory of a version, and the copy aside was
\* one of them.
OnlyVerified ==
    /\ \A v \in Versions : dest[v] # "bad" /\ aside[v] # "bad"
    /\ job.pc \in {"aside", "place"} => Verify(job.files)
    /\ job.pc \in {"drop", "ok"} => dest[job.v] = "good"

\* Between the renames of commit the old files are aside, and there were old files
\* if the row says so; a rename that failed left a copy somewhere.
CopyIsKept ==
    /\ job.old => job.pc \in {"place", "drop", "ok", "failed", "refreshEnd"}
    /\ job.pc = "place" =>
         /\ job.old => aside[job.v] = "good"
         /\ ~job.old /\ rows[job.v] = "done" => job.v \in excuse.rename
    /\ \A v \in excuse.rename : "good" \in {dest[v], aside[v]}

\* The cache is stale only while somebody is about to fill it, or after a late
\* failure.
CacheIsDue ==
    \/ job.pc \in {"refreshStart", "refreshEnd"}
    \/ admin.pc \in {"changed", "changedOff"}
    \/ excuse.late # {}
    \/ fleet = Announced(rows)

MirrorInv == TypeOK /\ DoneIsVerified /\ Named /\ OnlyVerified /\ CopyIsKept /\ CacheIsDue
=============================================================================
