----------------------------- MODULE MediaStore -----------------------------
(***************************************************************************)
(* The media store of the server: the files of internal/server/media, the  *)
(* rows of db/media.go, the routes of admin/media.go, the items that a     *)
(* saved playlist names, and the orphan sweep.                             *)
(*                                                                         *)
(* An object is its hash.  A file is "young" while its modification time   *)
(* is inside orphanGrace.  A request is a sequence of steps; the sweep and *)
(* other requests run between them.                                        *)
(***************************************************************************)
EXTENDS Naturals

CONSTANTS
    Objects,      \* the hashes of uploads
    NoObject,     \* no hash
    Uploads,      \* the upload requests that run at one time
    MediaEvents,  \* which of "fail", "busy", "stop" happen
    MaxMedia      \* bound: how many requests and events happen

VARIABLES
    file,    \* file[o]: "none", "young" or "old"
    rows,    \* the media table
    items,   \* the objects that playlist_items names
    up,      \* up[u]: [pc, o, dup] of an upload
    del,     \* the delete request: [pc, o]
    save,    \* the save of a playlist: [pc, o]
    sweep,   \* the sweep: [pc, known, todo, o]
    raced,   \* history: objects whose file went while an upload relied on it
    count

vars == <<file, rows, items, up, del, save, sweep, raced, count>>

NoUpload == [pc |-> "idle", o |-> NoObject, dup |-> FALSE]
NoRequest == [pc |-> "idle", o |-> NoObject]
NoSweep == [pc |-> "idle", known |-> {}, todo |-> {}, o |-> NoObject]

Init ==
    /\ file = [o \in Objects |-> "none"]
    /\ rows = {} /\ items = {}
    /\ up = [u \in Uploads |-> NoUpload]
    /\ del = NoRequest /\ save = NoRequest
    /\ sweep = NoSweep
    /\ raced = {}
    /\ count = 0

TypeOK ==
    /\ file \in [Objects -> {"none", "young", "old"}]
    /\ rows \subseteq Objects /\ items \subseteq Objects /\ raced \subseteq Objects
    /\ up \in [Uploads -> [pc : {"idle", "arrived", "touch", "row", "undo"},
                           o : Objects \cup {NoObject}, dup : BOOLEAN]]
    /\ del \in [pc : {"idle", "file"}, o : Objects \cup {NoObject}]
    /\ save \in [pc : {"idle", "checked"}, o : Objects \cup {NoObject}]
    /\ sweep \in [pc : {"idle", "walk", "remove"}, known : SUBSET Objects,
                  todo : SUBSET Objects, o : Objects \cup {NoObject}]
    /\ count \in 0..MaxMedia

Counted == count < MaxMedia /\ count' = count + 1
Event(e) == e \in MediaEvents /\ Counted

\* An upload that found the file and did not write its row yet.
Relied(o) == \E u \in Uploads : up[u].o = o /\ up[u].pc \in {"touch", "row"}

\* A file goes.  The history notes a row or an upload that still needs it.
Gone(o) ==
    /\ file' = [file EXCEPT ![o] = "none"]
    /\ raced' = IF o \in rows \/ Relied(o) THEN raced \cup {o} ELSE raced

-----------------------------------------------------------------------------
(***************************************************************************)
(* postMedia.                                                              *)
(***************************************************************************)
\* The body is on the disk under tmp and its hash is known.
postMedia(u, o) ==
    /\ up[u].pc = "idle" /\ Counted
    /\ up' = [up EXCEPT ![u] = [pc |-> "arrived", o |-> o, dup |-> FALSE]]
    /\ UNCHANGED <<file, rows, items, del, save, sweep, raced>>

\* Put: Has, and the rename of a new object.
Put(u) ==
    /\ up[u].pc = "arrived"
    /\ LET o == up[u].o
       IN  \/ /\ file[o] # "none"
              /\ up' = [up EXCEPT ![u].pc = "touch", ![u].dup = TRUE]
              /\ UNCHANGED <<file, raced>>
           \/ /\ file[o] = "none"
              /\ file' = [file EXCEPT ![o] = "young"]
              /\ raced' = raced \ {o}
              /\ up' = [up EXCEPT ![u].pc = "row"]
    /\ UNCHANGED <<rows, items, del, save, sweep, count>>

\* A mutant: the file of a duplicate keeps its modification time.
TouchedNot(o) == file[o]

\* Chtimes of a duplicate; its error is ignored.
Touched(o) == IF file[o] = "none" THEN "none" ELSE "young"

PutTouch(u) ==
    /\ up[u].pc = "touch"
    /\ file' = [file EXCEPT ![up[u].o] = Touched(up[u].o)]
    /\ up' = [up EXCEPT ![u].pc = "row"]
    /\ UNCHANGED <<rows, items, del, save, sweep, raced, count>>

\* AddMedia; when it fails, the blob of a new object goes again.
AddMedia(u) ==
    /\ up[u].pc = "row"
    /\ \/ /\ rows' = rows \cup {up[u].o}
          /\ up' = [up EXCEPT ![u] = NoUpload]
          /\ UNCHANGED count
       \/ /\ Event("fail")
          /\ up' = [up EXCEPT ![u] = IF @.dup THEN NoUpload ELSE [@ EXCEPT !.pc = "undo"]]
          /\ UNCHANGED rows
    /\ UNCHANGED <<file, items, del, save, sweep, raced>>

undoMedia(u) ==
    /\ up[u].pc = "undo"
    /\ Gone(up[u].o)
    /\ up' = [up EXCEPT ![u] = NoUpload]
    /\ UNCHANGED <<rows, items, del, save, sweep, count>>

-----------------------------------------------------------------------------
(***************************************************************************)
(* deleteMedia and the save of a playlist.                                 *)
(***************************************************************************)
\* DeleteMedia: one transaction.  An object that a playlist holds stays.
DeleteMedia(o) ==
    /\ del.pc = "idle" /\ Counted
    /\ o \in rows /\ o \notin items
    /\ rows' = rows \ {o}
    /\ del' = [pc |-> "file", o |-> o]
    /\ UNCHANGED <<file, items, up, save, sweep, raced>>

\* Delete of the file: it works, or the file is in use and stays.
DeleteFile ==
    /\ del.pc = "file"
    /\ \/ Gone(del.o) /\ UNCHANGED count
       \/ Event("busy") /\ UNCHANGED <<file, raced>>
    /\ del' = NoRequest
    /\ UNCHANGED <<rows, items, up, save, sweep>>

\* SavePlaylist: validatePlaylist reads the row, then a transaction writes the
\* item and the foreign key looks for the row again.
validatePlaylist(o) ==
    /\ save.pc = "idle" /\ Counted
    /\ o \in rows
    /\ save' = [pc |-> "checked", o |-> o]
    /\ UNCHANGED <<file, rows, items, up, del, sweep, raced>>

ForeignKey(o) == o \in rows

SavePlaylist ==
    /\ save.pc = "checked"
    /\ items' = IF ForeignKey(save.o) THEN items \cup {save.o} ELSE items
    /\ save' = NoRequest
    /\ UNCHANGED <<file, rows, up, del, sweep, raced, count>>

\* A save without the item, or DeletePlaylist.
dropItem(o) ==
    /\ o \in items /\ Counted
    /\ items' = items \ {o}
    /\ UNCHANGED <<file, rows, up, del, save, sweep, raced>>

-----------------------------------------------------------------------------
(***************************************************************************)
(* The sweep.                                                              *)
(***************************************************************************)
\* KnownHashes is read before the walk.  A pass that finds no orphan does nothing.
KnownHashes ==
    /\ sweep.pc = "idle"
    /\ \E o \in Objects : file[o] # "none" /\ o \notin rows
    /\ sweep' = [pc |-> "walk", known |-> rows, todo |-> Objects, o |-> NoObject]
    /\ UNCHANGED <<file, rows, items, up, del, save, raced, count>>

\* A mutant: the comparison with the cutoff is the wrong way round.
OrphanYoung(o) == file[o] = "young" /\ o \notin sweep.known

\* A blob that the table did not know and that is older than the cutoff.
Orphan(o) == file[o] = "old" /\ o \notin sweep.known

Sweep ==
    /\ sweep.pc = "walk"
    /\ \/ \E o \in sweep.todo :
            sweep' = IF Orphan(o)
                     THEN [sweep EXCEPT !.pc = "remove", !.todo = @ \ {o}, !.o = o]
                     ELSE [sweep EXCEPT !.todo = @ \ {o}]
       \/ sweep.todo = {} /\ sweep' = NoSweep
    /\ UNCHANGED <<file, rows, items, up, del, save, raced, count>>

SweepRemove ==
    /\ sweep.pc = "remove"
    /\ file' = [file EXCEPT ![sweep.o] = "none"]
       \* the check and the removal are two calls: a touch between them is noted
    /\ raced' = IF file[sweep.o] = "young" \/ \E u \in Uploads : up[u].o = sweep.o /\ up[u].pc = "touch"
                THEN raced \cup {sweep.o} ELSE raced
    /\ sweep' = [sweep EXCEPT !.pc = "walk", !.o = NoObject]
    /\ UNCHANGED <<rows, items, up, del, save, count>>

\* An hour goes by.  No upload waits that long for its row, and the cutoff of
\* a sweep is read when it starts.
Age(o) ==
    /\ file[o] = "young" /\ ~Relied(o) /\ sweep.pc = "idle"
    /\ file' = [file EXCEPT ![o] = "old"]
    /\ UNCHANGED <<rows, items, up, del, save, sweep, raced, count>>

\* The process stops: what it did not write stays undone.
Stop ==
    /\ Event("stop")
    /\ up' = [u \in Uploads |-> NoUpload]
    /\ del' = NoRequest /\ save' = NoRequest /\ sweep' = NoSweep
    /\ UNCHANGED <<file, rows, items, raced>>

Next ==
    \/ \E u \in Uploads :
        \/ \E o \in Objects : postMedia(u, o)
        \/ Put(u) \/ PutTouch(u) \/ AddMedia(u) \/ undoMedia(u)
    \/ \E o \in Objects : DeleteMedia(o) \/ validatePlaylist(o) \/ dropItem(o) \/ Age(o)
    \/ DeleteFile \/ SavePlaylist \/ KnownHashes \/ Sweep \/ SweepRemove \/ Stop

Spec == Init /\ [][Next]_vars

SweepEvery == KnownHashes \/ Sweep \/ SweepRemove
Handler(u) == Put(u) \/ PutTouch(u) \/ AddMedia(u) \/ undoMedia(u)

\* The ticker of SweepEvery, and time; a request goes on until it answers.
Fairness ==
    /\ WF_vars(SweepEvery)
    /\ \A o \in Objects : SF_vars(Age(o))
    /\ \A u \in Uploads : WF_vars(Handler(u))

-----------------------------------------------------------------------------
(***************************************************************************)
(* Properties.                                                             *)
(***************************************************************************)
\* sweep.go: the grace period makes the known set safe although it is read
\* before the walk.  A row has its file; a file that a request, or the removal
\* of the sweep itself, took in the middle of an upload of the same bytes is
\* excused.
RowHasFile == \A o \in rows : file[o] # "none" \/ o \in raced

\* admin/media.go: no row names a file that is gone, which a device would try to
\* download for ever.
NoRowWithoutFile == \A o \in rows : file[o] # "none"

\* A playlist item names an object of the library, whatever was deleted or
\* saved at the same time.
ItemsHaveRows == items \subseteq rows

\* A file that no row can reach goes, or gets its row.
Orphaned(o) == file[o] # "none" /\ o \notin rows

OrphansGo == \A o \in Objects : []<>~Orphaned(o)

\* The safety of the media library: types, and the two statements above.
MediaIsKept == TypeOK /\ RowHasFile /\ ItemsHaveRows

-----------------------------------------------------------------------------
(***************************************************************************)
(* The inductive invariant behind MediaIsKept.                             *)
(***************************************************************************)
\* A request that is under way has its object.
Named ==
    /\ \A u \in Uploads : up[u].pc # "idle" => up[u].o \in Objects
    /\ del.pc = "file" => del.o \in Objects
    /\ save.pc = "checked" => save.o \in Objects
    /\ sweep.pc = "remove" => sweep.o \in Objects \ sweep.known

\* The file that an upload found or made is there, or was taken; once the upload
\* goes for its row the file is young.
UploadHasFile ==
    \A u \in Uploads :
        /\ up[u].pc \in {"touch", "row"} => file[up[u].o] # "none" \/ up[u].o \in raced
        /\ up[u].pc = "row" => file[up[u].o] # "old"

\* A row that is newer than the known set of a sweep has a young file: time does
\* not pass inside of a sweep.
NewRowIsYoung == sweep.pc # "idle" => \A o \in rows \ sweep.known : file[o] # "old"

MediaInv == MediaIsKept /\ Named /\ UploadHasFile /\ NewRowIsYoung
=============================================================================
