----------------------------- MODULE HashCache -----------------------------
(***************************************************************************)
(* The hash cache of the device (internal/device/library/hashcache.go) and *)
(* its background pass.  The pass works from the last scan of the library  *)
(* while files are replaced, the fleet client notes the hash of what it    *)
(* stores, the device pairs and unpairs, and the daemon starts again.      *)
(*                                                                         *)
(* Every write of a file makes a new version; the version stands for the   *)
(* bytes, for the size and for the modification time.                      *)
(***************************************************************************)
EXTENDS Naturals

CONSTANTS
    Local,        \* the paths of files that the local playlist names
    Object,       \* the path of an object of the fleet store
    HashEvents,   \* the events of the environment that can happen
    MaxVersions,  \* bound: how many files are written
    MaxHash       \* bound: how many of the events happen

Paths == Local \cup {Object}
Versions == 0..MaxVersions       \* 0: there is no file

VARIABLES
    disk,     \* disk[path]: the version of the file
    parses,   \* the local playlist.toml parses
    paired,   \* the device has a fleet token
    snap,     \* the last scan (Library.snap)
    wake,     \* the slot that wakes the pass
    pass,     \* the pass
    entries,  \* the hash cache
    dirty,    \* version # saved
    file,     \* hashcache.json
    made, events

vars == <<disk, parses, paired, snap, wake, pass, entries, dirty, file, made, events>>

NoEntry == [stamp |-> 0, sha |-> 0]
Empty == [p \in Paths |-> NoEntry]
IdlePass == [pc |-> "idle", todo |-> {}, seen |-> [p \in Paths |-> 0], skip |-> {}, root |-> TRUE,
             fleet |-> FALSE, at |-> Object, fd |-> 0, copy |-> Empty, moved |-> FALSE]

\* Library.scan: a playlist that does not parse names no file, the fleet tree is
\* read while the device is paired, and a card that is out gives nothing at all.
Scan(ok) ==
    [root |-> ok, paired |-> paired, bad |-> ok /\ ~parses,
     seen |-> [p \in Paths |->
                IF ok /\ (IF p = Object THEN paired ELSE parses) THEN disk[p] ELSE 0]]

Init ==
    /\ disk = [p \in Paths |-> 0]
    /\ parses = TRUE /\ paired = FALSE
    /\ snap = Scan(TRUE) /\ wake = TRUE
    /\ pass = IdlePass
    /\ entries = Empty /\ file = Empty /\ dirty = FALSE
    /\ made = 0 /\ events = 0

Caches == [Paths -> [stamp : Versions, sha : Versions]]

TypeOK ==
    /\ disk \in [Paths -> Versions] /\ made \in Versions /\ events \in 0..MaxHash
    /\ {parses, paired, wake, dirty} \subseteq BOOLEAN
    /\ snap \in [root : BOOLEAN, paired : BOOLEAN, bad : BOOLEAN, seen : [Paths -> Versions]]
    /\ pass \in [pc : {"idle", "prune", "files", "read", "save"}, todo : SUBSET Paths,
                seen : [Paths -> Versions], skip : SUBSET Paths, root : BOOLEAN,
                fleet : BOOLEAN, at : Paths, fd : Versions, copy : Caches, moved : BOOLEAN]
    /\ entries \in Caches /\ file \in Caches

-----------------------------------------------------------------------------
world == <<disk, parses, paired, snap, made>>

\* hashCache.put, from the pass and from NoteSHA.
Put(p, stamp, sha) ==
    /\ entries' = [entries EXCEPT ![p] = [stamp |-> stamp, sha |-> sha]]
    /\ dirty' = TRUE
    /\ UNCHANGED file

\* hashCache.get: an entry counts for the size and the time that the scan saw.
NotKnown(p) == entries[p].stamp # snap.seen[p]

\* hashPending: the files that the last scan saw and the cache does not know.
hashPending ==
    /\ pass.pc = "idle" /\ wake /\ wake' = FALSE
    /\ pass' = [IdlePass EXCEPT !.pc = "prune", !.seen = snap.seen, !.root = snap.root,
                    !.skip = IF snap.bad THEN Local ELSE {}, !.fleet = snap.paired,
                    !.todo = {p \in Paths : snap.seen[p] # 0 /\ NotKnown(p)}]
    /\ UNCHANGED <<world, entries, dirty, file, events>>

\* prune and keep: what this pass did not look at keeps its hash.
prune ==
    LET skip == pass.skip \cup (IF paired THEN {} ELSE {Object})
        gone == {p \in Paths \ skip : pass.root /\ pass.seen[p] = 0 /\ entries[p] # NoEntry}
    IN
    /\ pass.pc = "prune"
    /\ pass' = [pass EXCEPT !.pc = "files"]
    /\ entries' = [p \in Paths |-> IF p \in gone THEN NoEntry ELSE entries[p]]
    /\ dirty' = (dirty \/ gone # {})
    /\ UNCHANGED <<world, wake, file, events>>

\* hashFile opens the file and reads it; a file that is gone is left out.
hashFile ==
    /\ pass.pc = "files"
    /\ \E p \in pass.todo :
        pass' = IF disk[p] = 0 THEN [pass EXCEPT !.todo = @ \ {p}]
                ELSE [pass EXCEPT !.pc = "read", !.todo = @ \ {p}, !.at = p, !.fd = disk[p]]
    /\ UNCHANGED <<world, wake, entries, dirty, file, events>>

\* Stat of the open file, after the read.
StampAfter == pass.fd

HashDone ==
    /\ pass.pc = "read"
    /\ Put(pass.at, StampAfter, pass.fd)
    /\ pass' = [pass EXCEPT !.pc = "files", !.fd = 0]
    /\ UNCHANGED <<world, wake, events>>

\* save copies the cache under its lock and writes the copy after it.
save ==
    /\ pass.pc = "files" /\ pass.todo = {}
    /\ pass' = IF dirty THEN [IdlePass EXCEPT !.pc = "save", !.copy = entries] ELSE IdlePass
    /\ UNCHANGED <<world, wake, entries, dirty, file, events>>

\* The saved version is the one of the copy: what was put since then is not on
\* the disk.
StillDirty == pass.moved

Event(e) == e \in HashEvents /\ events < MaxHash /\ events' = events + 1

SaveWrite ==
    /\ pass.pc = "save"
    /\ pass' = IdlePass
    /\ \/ file' = pass.copy /\ dirty' = StillDirty /\ UNCHANGED events
       \/ Event("save") /\ UNCHANGED <<file, dirty>>
    /\ UNCHANGED <<world, wake, entries>>

-----------------------------------------------------------------------------
(***************************************************************************)
(* The rest of the device.                                                 *)
(***************************************************************************)
\* A file is uploaded, replaced by a rename or removed; the fleet client stores
\* an object or evicts it.
FileChanges(p) ==
    /\ made < MaxVersions /\ made' = made + 1
    /\ disk' \in {[disk EXCEPT ![p] = 0], [disk EXCEPT ![p] = made']}
    /\ UNCHANGED <<parses, paired, snap, wake, pass, entries, dirty, file, events>>

\* NoteSHA: the fleet client knows the hash of what it stored.
NoteSHA ==
    /\ disk[Object] # 0 /\ entries[Object].stamp # disk[Object]
    /\ Put(Object, disk[Object], disk[Object])
    /\ pass' = [pass EXCEPT !.moved = pass.pc = "save"]
    /\ UNCHANGED <<world, wake, events>>

\* store: the scan replaces the last one and fills the slot.
store ==
    /\ \/ snap' = Scan(TRUE) /\ UNCHANGED events
       \/ snap' = Scan(FALSE) /\ Event("card")
    /\ snap' # snap
    /\ wake' = TRUE
    /\ UNCHANGED <<disk, parses, paired, made, pass, entries, dirty, file>>

Pairing ==
    /\ Event("pair") /\ paired' = ~paired
    /\ UNCHANGED <<disk, parses, snap, made, wake, pass, entries, dirty, file>>

\* A person breaks playlist.toml, or repairs it.
Person ==
    /\ Event("person") /\ parses' = ~parses
    /\ UNCHANGED <<disk, paired, snap, made, wake, pass, entries, dirty, file>>

\* The daemon starts again: loadCache reads hashcache.json and Rescan runs.
loadCache ==
    /\ Event("restart")
    /\ snap' = Scan(TRUE) /\ wake' = TRUE
    /\ pass' = IdlePass
    /\ entries' = file /\ dirty' = FALSE
    /\ UNCHANGED <<disk, parses, paired, made, file>>

HashInBackground == hashPending \/ prune \/ hashFile \/ HashDone \/ save \/ SaveWrite

Next ==
    \/ HashInBackground
    \/ \E p \in Paths : FileChanges(p)
    \/ NoteSHA \/ store \/ Pairing \/ Person \/ loadCache

Spec == Init /\ [][Next]_vars

\* The pass is a goroutine that waits only for its slot; every change of a file
\* or of the pairing ends with a scan.
Fairness == WF_vars(HashInBackground) /\ WF_vars(store)

-----------------------------------------------------------------------------
(***************************************************************************)
(* Properties.                                                             *)
(***************************************************************************)
\* hashCache.get and FindSHA: a hash that the cache gives for the file that is
\* there is the hash of that file, whatever was replaced while it was read.
HashIsRight ==
    \A p \in Paths : disk[p] # 0 /\ entries[p].stamp = disk[p] => entries[p].sha = disk[p]

\* hashCache.save: a cache that counts as saved is what hashcache.json holds, also
\* when a hash arrived during the write or the write failed.
SavedIsOnDisk == ~dirty => file = entries

\* The safety of the cache: types, and the two statements above.
CacheIsTrue == TypeOK /\ HashIsRight /\ SavedIsOnDisk

\* The inductive invariant behind it: a stamp and a hash always come from one read,
\* in memory and on the disk, and the copy of a save is the cache until a note moves it.
Own(cache) == \A p \in Paths : cache[p].stamp = cache[p].sha

HashInv ==
    /\ TypeOK /\ SavedIsOnDisk
    /\ Own(entries) /\ Own(file) /\ Own(pass.copy)
    /\ pass.pc = "save" /\ ~pass.moved => pass.copy = entries

\* HashInBackground: every file that the scan names gets its hash in the end.
HashesAreThere ==
    \A p \in Paths : disk[p] # 0 /\ snap.seen[p] = disk[p] => entries[p].sha = disk[p]

HashesCome == <>[]HashesAreThere

\* prune: an unpaired device keeps the hashes of the fleet objects "for the next
\* pairing"; only a scan of a paired device may drop them.
FleetHashesStay ==
    [][pass.pc = "prune" /\ entries'[Object] # entries[Object] => pass.fleet]_vars
=============================================================================
