------------------------------ MODULE Library ------------------------------
(***************************************************************************)
(* The library of the device (internal/device/library): the playlists and  *)
(* files on the card, the calls of the editor that change them (crud.go),  *)
(* and the scan and the message to the player that follow (library.go).    *)
(* The hash cache is the module HashCache.                                 *)
(*                                                                         *)
(* The calls run in the goroutines of the HTTP server and hold no common   *)
(* lock, so their steps interleave.  Every write of a file makes a new     *)
(* version, which stands for its bytes.  A scan is one step.               *)
(***************************************************************************)
EXTENDS Naturals

CONSTANTS
    Lists,        \* the directory names of local playlists
    Default,      \* the playlist of the card that comes with the device
    Numbers,      \* the numbered names of one uploaded file name, 1..n
    Calls,        \* the calls of the editor that can be open together
    LibEvents,    \* the events of the environment that can happen
    MaxCalls,     \* bound: how many calls begin
    MaxVersions,  \* bound: how many files are written
    MaxLibEvents  \* bound: how many of the events happen

Paths == Lists \X Numbers
Versions == 0..MaxVersions       \* 0: there is no file

VARIABLES
    disk,     \* disk[path]: the version of the file
    toml,     \* toml[l]: playlist.toml, is it there, does it parse, its items
    paired,   \* the device has a fleet token
    snap,     \* the last scan (Library.snap)
    call,     \* call[c]: what a call does now
    reserved, \* the upload names that are taken and not written yet
    timer,    \* notifySoon: "none", "set", or "fired" before OnChange ran
    told,     \* the scan that the player was told of last
    made,     \* the last version
    kept,     \* history: the uploads that were acknowledged, where they are now
    calls, events

card == <<disk, toml, made>>
vars == <<card, paired, snap, call, reserved, timer, told, kept, calls, events>>

NoToml == [there |-> FALSE, parses |-> FALSE, items |-> {}]

\* scan, readPlaylist and readItem: a playlist that does not parse is a problem
\* and names no file.  A card that is out gives one problem and nothing else.
Scan(ok) ==
    [root |-> ok, paired |-> paired,
     lists |-> {l \in Lists : ok /\ toml[l].parses},
     bad |-> {l \in Lists : ok /\ toml[l].there /\ ~toml[l].parses},
     seen |-> [p \in Paths |->
                IF ok /\ toml[p[1]].parses /\ p[2] \in toml[p[1]].items THEN disk[p] ELSE 0]]

Idle == [pc |-> "idle", op |-> "none", list |-> Default, to |-> {},
         n |-> 0, parsed |-> FALSE, part |-> {}, moved |-> FALSE, scan |-> {}]

Init ==
    /\ disk = [p \in Paths |-> 0]
    /\ toml = [l \in Lists |-> IF l = Default THEN [there |-> TRUE, parses |-> TRUE, items |-> Numbers]
                                ELSE NoToml]
    /\ paired = FALSE
    /\ snap = Scan(TRUE) /\ told = snap
    /\ call = [c \in Calls |-> Idle]
    /\ reserved = {} /\ kept = {}
    /\ timer = "none"
    /\ made = 0 /\ calls = 0 /\ events = 0

Scans == [root : BOOLEAN, paired : BOOLEAN, lists : SUBSET Lists, bad : SUBSET Lists,
          seen : [Paths -> Versions]]

TypeOK ==
    /\ disk \in [Paths -> Versions] /\ made \in Versions
    /\ toml \in [Lists -> [there : BOOLEAN, parses : BOOLEAN, items : SUBSET Numbers]]
    /\ \A l \in Lists : toml[l].parses => toml[l].there
    /\ paired \in BOOLEAN
    /\ snap \in Scans /\ told \in Scans
    /\ call \in [Calls ->
                [pc : {"idle", "write", "retitle", "scan", "store", "notify"},
                 op : {"none", "create", "save", "delete", "remove", "rename", "upload", "rescan"},
                 list : Lists, to : SUBSET Numbers, n : Numbers \cup {0}, parsed : BOOLEAN,
                 part : SUBSET Lists, moved : BOOLEAN, scan : SUBSET Scans]]
    /\ reserved \subseteq Paths /\ kept \subseteq [path : Paths, is : Versions \ {0}]
    /\ timer \in {"none", "set", "fired"}
    /\ calls \in 0..MaxCalls /\ events \in 0..MaxLibEvents

-----------------------------------------------------------------------------
Event(e) == e \in LibEvents /\ events < MaxLibEvents /\ events' = events + 1

(***************************************************************************)
(* The calls of the editor.                                                *)
(***************************************************************************)
\* Every call looks at the pairing first (refuseWhenManaged) and finds its
\* playlist (localPlaylist).
Begin(c, op, l) ==
    /\ call[c].pc = "idle" /\ calls < MaxCalls /\ calls' = calls + 1
    /\ ~paired
    /\ toml[l].there <=> op # "create"
    /\ UNCHANGED <<card, snap, paired, timer, told, kept, events>>

\* CreatePlaylist, DeletePlaylist, DeleteMedia of one file and SavePlaylist, up
\* to the write.  "to" is what the call writes.
Edit(c, op, l, to) ==
    /\ Begin(c, op, l)
    /\ call' = [call EXCEPT ![c] = [Idle EXCEPT !.pc = "write", !.op = op, !.list = l, !.to = to]]
    /\ UNCHANGED reserved

\* RenamePlaylist reads the items before it moves the directory.  "part" is the
\* new name of it.
Rename(c, l, m) ==
    /\ Begin(c, "rename", l)
    /\ call' = [call EXCEPT ![c] = [Idle EXCEPT
            !.pc = IF l # m THEN "write" ELSE IF toml[l].parses THEN "retitle" ELSE "scan",
            !.op = "rename", !.list = l, !.part = {m},
            !.to = toml[l].items, !.parsed = toml[l].parses]]
    /\ UNCHANGED reserved

\* A mutant: a name that another upload holds counts as free.
FreeNamesOnDisk(l) == {n \in Numbers : disk[<<l, n>>] = 0}

\* freeName: a name that no file uses and that no other upload holds.
FreeNames(l) == {n \in Numbers : disk[<<l, n>>] = 0 /\ <<l, n>> \notin reserved}

\* AddMedia takes a name and makes its staging file under the upload lock.  "part"
\* is the directory that holds the staging file.
AddMedia(c, l) ==
    /\ Begin(c, "upload", l)
    /\ \E n \in FreeNames(l) :
        /\ \A k \in FreeNames(l) : n <= k
        /\ reserved' = reserved \cup {<<l, n>>}
        /\ call' = [call EXCEPT ![c] = [Idle EXCEPT
                !.pc = "write", !.op = "upload", !.list = l, !.part = {l}, !.n = n]]

\* The end of a call.  An upload gives its name back.
Ends(c) ==
    /\ call' = [call EXCEPT ![c] = Idle]
    /\ reserved' = reserved \ {<<call[c].list, call[c].n>>}

\* The call did its work and goes on to changed().
Done(c) ==
    /\ call' = [call EXCEPT ![c].pc = "scan"]
    /\ UNCHANGED reserved

WriteList(c) ==
    LET l == call[c].list IN
    /\ call[c].op \in {"create", "save"}
    /\ toml' = [toml EXCEPT ![l] = [there |-> TRUE, parses |-> TRUE, items |-> call[c].to]]
    /\ call[c].op = "create" \/ toml[l].there
    /\ Done(c)
    /\ UNCHANGED <<disk, made, kept>>

InList(p, l) == p[1] = l

\* DeletePlaylist takes everything in the directory along, staging files too.
DeletePlaylist(c) ==
    LET l == call[c].list IN
    /\ call[c].op = "delete"
    /\ toml' = [toml EXCEPT ![l] = NoToml]
    /\ disk' = [p \in Paths |-> IF InList(p, l) THEN 0 ELSE disk[p]]
    /\ kept' = {k \in kept : ~InList(k.path, l)}
    /\ call' = [d \in Calls |-> IF call[d].op = "upload"
                                THEN [call[d] EXCEPT !.part = @ \ {l}]
                                ELSE IF d = c THEN [call[d] EXCEPT !.pc = "scan"] ELSE call[d]]
    /\ UNCHANGED <<made, reserved>>

DeleteMedia(c) ==
    /\ call[c].op = "remove"
    /\ \E n \in call[c].to :
        LET p == <<call[c].list, n>>
        IN  /\ disk[p] # 0
            /\ disk' = [disk EXCEPT ![p] = 0]
            /\ kept' = {k \in kept : k.path # p}
    /\ Done(c)
    /\ UNCHANGED <<toml, made>>

\* The upload: the staged bytes take their name, over what is there.  Nothing is
\* there unless the directory was moved since the upload took its name.
Commit(c) ==
    LET p == <<call[c].list, call[c].n>> IN
    /\ call[c].op = "upload"
    /\ call[c].list \in call[c].part /\ made < MaxVersions
    /\ made' = made + 1
    /\ disk' = [disk EXCEPT ![p] = made']
    /\ kept' = {k \in kept : call[c].moved => k.path # p} \cup {[path |-> p, is |-> made']}
    /\ Done(c)
    /\ UNCHANGED toml

\* The move of RenamePlaylist: the directory with all that is in it.  "moved" is a
\* history of the uploads that this carries away from the name they hold.
Move(c) ==
    LET l == call[c].list
        m == CHOOSE x \in call[c].part : TRUE
        From(p) == IF InList(p, m) THEN <<l, p[2]>> ELSE p
    IN
    /\ call[c].op = "rename"
    /\ toml[l].there /\ ~toml[m].there
    /\ toml' = [toml EXCEPT ![l] = NoToml, ![m] = toml[l]]
    /\ disk' = [p \in Paths |-> IF InList(p, l) THEN 0 ELSE disk[From(p)]]
    /\ kept' = {k \in kept : ~InList(k.path, l)}
               \cup {[k EXCEPT !.path = <<m, k.path[2]>>] : k \in {x \in kept : InList(x.path, l)}}
    /\ call' = [d \in Calls |->
            IF d = c THEN [call[d] EXCEPT !.pc = IF call[d].parsed THEN "retitle" ELSE "scan"]
            ELSE IF call[d].op = "upload" /\ l \in call[d].part THEN [call[d] EXCEPT !.part = {m}, !.moved = TRUE]
            ELSE call[d]]
    /\ UNCHANGED <<made, reserved>>

\* A call whose playlist, file or staging file went away, or whose target is
\* taken, ends with an error.
CallFails(c) ==
    LET l == call[c].list IN
    /\ \/ call[c].op = "save" /\ ~toml[l].there
       \/ call[c].op = "remove" /\ \A n \in call[c].to : disk[<<l, n>>] = 0
       \/ call[c].op = "upload" /\ l \notin call[c].part
       \/ call[c].op = "rename" /\ (~toml[l].there \/ \E m \in call[c].part : toml[m].there)
    /\ Ends(c)
    /\ UNCHANGED <<card, kept>>

Write(c) ==
    /\ call[c].pc = "write"
    /\ \/ WriteList(c) \/ DeletePlaylist(c) \/ DeleteMedia(c) \/ Commit(c) \/ Move(c) \/ CallFails(c)
    /\ UNCHANGED <<snap, paired, timer, told, calls, events>>

\* An upload that breaks off or does not fit leaves nothing.
UploadBreaks(c) ==
    /\ call[c].pc = "write" /\ call[c].op = "upload"
    /\ Event("upload")
    /\ Ends(c)
    /\ UNCHANGED <<card, snap, paired, timer, told, kept, calls>>

\* RenamePlaylist writes the items that it read at its start under the new title.
Retitle(c) ==
    LET m == CHOOSE x \in call[c].part : TRUE IN
    /\ call[c].pc = "retitle"
    /\ \/ /\ toml[m].there
          /\ toml' = [toml EXCEPT ![m] = [there |-> TRUE, parses |-> TRUE, items |-> call[c].to]]
          /\ Done(c)
       \/ ~toml[m].there /\ Ends(c) /\ UNCHANGED toml
    /\ UNCHANGED <<disk, made, snap, paired, timer, told, kept, calls, events>>

-----------------------------------------------------------------------------
(***************************************************************************)
(* changed, Rescan and the message to the player.                          *)
(***************************************************************************)
\* The scan: the card can be out for a moment.
ScanCard(c) ==
    /\ call[c].pc = "scan"
    /\ \E ok \in BOOLEAN :
        /\ IF ok THEN UNCHANGED events ELSE Event("card")
        /\ call' = [call EXCEPT ![c].pc = "store", ![c].scan = {Scan(ok)}]
    /\ UNCHANGED <<card, snap, paired, reserved, timer, told, kept, calls>>

\* A mutant: POST /api/rescan stores its scan and tells nobody.
ToldByRescanNot(s) == told

\* Rescan runs OnChange itself.
ToldByRescan(s) == s

\* store, and for Rescan the message at once.
Store(c) ==
    /\ call[c].pc = "store"
    /\ snap' \in call[c].scan
    /\ IF call[c].op = "rescan"
       THEN told' = ToldByRescan(snap') /\ Ends(c)
       ELSE call' = [call EXCEPT ![c].pc = "notify"] /\ UNCHANGED <<reserved, told>>
    /\ UNCHANGED <<card, paired, timer, kept, calls, events>>

Rescan(c) ==
    /\ call[c].pc = "idle" /\ calls < MaxCalls /\ calls' = calls + 1
    /\ call' = [call EXCEPT ![c] = [Idle EXCEPT !.pc = "scan", !.op = "rescan"]]
    /\ UNCHANGED <<card, snap, paired, reserved, timer, told, kept, events>>

\* notifySoon: a change puts the message off; one that left already is no reason
\* to send none.
notifySoon(c) ==
    /\ call[c].pc = "notify"
    /\ timer' = "set"
    /\ Ends(c)
    /\ UNCHANGED <<card, snap, paired, told, kept, calls, events>>

\* notifyNow: the timer is given up under the lock, OnChange runs after that and
\* reads the last scan.  A message that left and a timer that was set again are
\* one "set": the second OnChange reads no older scan than the first.
TimerFires ==
    /\ timer = "set" /\ timer' = "fired"
    /\ UNCHANGED <<card, snap, paired, call, reserved, told, kept, calls, events>>

OnChange ==
    /\ timer = "fired" /\ timer' = "none"
    /\ told' = snap
    /\ UNCHANGED <<card, snap, paired, call, reserved, kept, calls, events>>

-----------------------------------------------------------------------------
(***************************************************************************)
(* The rest of the device.                                                 *)
(***************************************************************************)
\* Pair and Unpair end with a scan of their own.
Pairing(c) ==
    /\ Event("pair") /\ call[c].pc = "idle"
    /\ paired' = ~paired
    /\ call' = [call EXCEPT ![c] = [Idle EXCEPT !.pc = "scan", !.op = "rescan"]]
    /\ UNCHANGED <<card, snap, reserved, timer, told, kept, calls>>

\* A person with SSH replaces a file (a copy and a rename) or breaks a
\* playlist.toml.
Person ==
    /\ Event("person")
    /\ \/ \E p \in Paths :
            /\ disk[p] # 0 /\ made < MaxVersions
            /\ made' = made + 1 /\ disk' = [disk EXCEPT ![p] = made']
            /\ kept' = {k \in kept : k.path # p} /\ UNCHANGED toml
       \/ \E l \in Lists : toml[l].parses /\ toml' = [toml EXCEPT ![l].parses = FALSE]
                           /\ UNCHANGED <<disk, made, kept>>
    /\ UNCHANGED <<snap, paired, call, reserved, timer, told, calls>>

\* The daemon starts again and Rescan runs.  Calls that were open are cut off.
Restart ==
    /\ Event("restart")
    /\ call' = [c \in Calls |-> Idle] /\ reserved' = {}
    /\ snap' = Scan(TRUE) /\ told' = snap' /\ timer' = "none"
    /\ UNCHANGED <<card, paired, kept, calls>>

Steps ==
    \/ \E c \in Calls : Write(c) \/ Retitle(c) \/ ScanCard(c) \/ Store(c) \/ notifySoon(c)
    \/ TimerFires \/ OnChange

Next ==
    \/ Steps
    \/ \E c \in Calls, l \in Lists :
        \/ Edit(c, "create", l, {}) \/ Edit(c, "delete", l, {}) \/ Edit(c, "save", l, Numbers)
        \/ \E n \in Numbers : Edit(c, "remove", l, {n})
        \/ \E m \in Lists : Rename(c, l, m)
        \/ AddMedia(c, l)
    \/ \E c \in Calls : Rescan(c) \/ Pairing(c)
    \/ \E c \in Calls : UploadBreaks(c)
    \/ Person \/ Restart

Spec == Init /\ [][Next]_vars

\* A call that began goes on and timers fire: each is a goroutine of its own that
\* waits for nobody.
Fairness == WF_vars(Steps)

-----------------------------------------------------------------------------
(***************************************************************************)
(* Properties.                                                             *)
(***************************************************************************)
\* AddMedia: an upload that was acknowledged is on the card with its own bytes
\* until somebody removes or replaces it; a second upload never takes its name,
\* unless the directory of the second was renamed away and back while it came in:
\* the reservation is of the old path, so a file can take the name meanwhile.
UploadsKept == \A k \in kept : disk[k.path] = k.is

\* notifySoon: after the last change the player is told of the scan that stands.
PlayerIsTold == <>[](told = snap)

\* changed: "The scan is at once, so the next answer of the API is the truth."
\* When no call is open, the snapshot is what is on the card.
SnapshotIsTruth == (\A c \in Calls : call[c].pc = "idle") => snap = Scan(TRUE)

\* The safety of the library: types, and the uploads.
LibraryIsSafe == TypeOK /\ UploadsKept

(***************************************************************************)
(* The inductive invariant behind LibraryIsSafe.                           *)
(***************************************************************************)
Uploads == {c \in Calls : call[c].op = "upload"}
Name(c) == <<call[c].list, call[c].n>>

\* An open upload holds its name, alone; no other call has one.
NamesAreHeld ==
    /\ \A c \in Uploads : Name(c) \in reserved
    /\ \A c, d \in Uploads : Name(c) = Name(d) => c = d
    /\ \A c \in Calls \ Uploads : call[c].n = 0

\* Its file is not there, as long as nobody moves the directory.
NamesAreFree ==
    \A c \in Uploads : call[c].pc = "write" /\ ~call[c].moved /\ call[c].list \in call[c].part
                        => disk[Name(c)] = 0

\* Files and staging files are in directories that are there.
DirsAreThere ==
    /\ \A p \in Paths : disk[p] # 0 => toml[p[1]].there
    /\ \A c \in Uploads : \A l \in call[c].part : toml[l].there

\* A rename has a target, another one than its playlist while it must move.
RenamesAreReal ==
    \A c \in Calls : call[c].op = "rename" =>
        \E m \in Lists : call[c].part = {m} /\ (call[c].pc = "write" => m # call[c].list)

LibraryInv ==
    /\ LibraryIsSafe
    /\ NamesAreHeld /\ NamesAreFree /\ DirsAreThere /\ RenamesAreReal
=============================================================================
