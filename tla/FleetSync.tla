----------------------------- MODULE FleetSync -----------------------------
(***************************************************************************)
(* How the device puts a manifest on its card: applyManifest of            *)
(* internal/device/syncer/apply.go, with the resumable download of         *)
(* internal/store/download.go and Restore of syncer.go.                    *)
(*                                                                         *)
(* A manifest is a set of playlists, each a set of object files, and rules *)
(* that name one playlist.  Sizes are in units of one block.  The card     *)
(* survives a power cut, the keys in memory do not.  What a person does    *)
(* with the card in a laptop, and the space that local uploads take, are   *)
(* events.  Pairing and unpairing during a round are in FleetCommands.     *)
(***************************************************************************)
EXTENDS Integers, FiniteSets, FiniteSetsExt

CONSTANTS
    Names,       \* the names of playlists
    Files,       \* the object files of _fleet/media
    Size,        \* Size[f]: the size of file f in blocks
    Bytes,       \* Bytes[f]: its content; two names may share one
    Manifests,   \* the manifests that the server may serve
    NoManifest,  \* no manifest
    Rooms,       \* the blocks that local content may leave for the fleet
    SyncEvents,  \* which of the events below the environment uses
    MaxFaults    \* bound: how many of these events happen

\* No file is empty, and a manifest gives every playlist its files.
SyncAssumption ==
    /\ Size \in [Files -> Nat \ {0}]
    /\ \A m \in Manifests : m.lists \in [Names -> SUBSET Files]
    /\ MaxFaults \in Nat

VARIABLES
    served,    \* the manifest on the server
    room,      \* the blocks that the fleet tree may take now
    whole,     \* on the card: the finished files in the object store
    part,      \* on the card: [n, good] of each .part file, n = 0 for none
    dirs,      \* on the card: the live playlists, {} for no directory
    staging,   \* on the card: the staged playlists
    trash,     \* on the card: the playlists that were moved aside
    fleet,     \* state.json: the manifest that was recorded
    keys,      \* in memory: the manifest of contentKey and rulesKey
    rules,     \* in the scheduler: the manifest whose rules are live
    sync,      \* the round: [pc, m, need, from]
    gone,      \* history: files that left the card by eviction or by hand
    rotten,    \* history: finished files with the bytes of something else
    excuse,    \* history: "undo", a rename of an undo failed; "early", the
               \* manifest was recorded although its content did not fit;
               \* "back", the server went back to the recorded manifest
    faults

cardVars == <<whole, part, dirs, staging, trash, fleet>>
vars == <<served, room, cardVars, keys, rules, sync, gone, rotten, excuse, faults>>

Empty == [n \in Names |-> {}]
NoPart == [n |-> 0, good |-> TRUE]
IdleRound == [pc |-> "idle", m |-> NoManifest, need |-> {}, from |-> {}]

Used(m) == UNION {m.lists[n] : n \in Names}
Has(d, n) == d[n] # {}

Init ==
    /\ served \in Manifests
    /\ room \in Rooms
    /\ whole = {}
    /\ part = [f \in Files |-> NoPart]
    /\ dirs = Empty /\ staging = Empty /\ trash = Empty
    /\ fleet = NoManifest /\ keys = NoManifest /\ rules = NoManifest
    /\ sync = IdleRound
    /\ gone = {} /\ rotten = {} /\ excuse = {}
    /\ faults = 0

TypeOK ==
    /\ served \in Manifests /\ room \in Rooms
    /\ whole \subseteq Files
    /\ part \in [Files -> [n : Nat, good : BOOLEAN]]
    /\ \A f \in Files : part[f].n < Size[f]
    /\ {dirs, staging, trash} \subseteq [Names -> SUBSET Files]
    /\ {fleet, keys, rules} \subseteq Manifests \cup {NoManifest}
    /\ sync \in [pc : {"idle", "room", "fetch", "out", "in", "undoIn", "undoOut", "rules"},
                m : Manifests \cup {NoManifest}, need : SUBSET Files, from : SUBSET Files]
    /\ gone \subseteq Files /\ rotten \subseteq whole
    /\ excuse \subseteq {"undo", "early", "back"}
    /\ faults \in 0..MaxFaults

Fault(e) ==
    /\ e \in SyncEvents
    /\ faults < MaxFaults
    /\ faults' = faults + 1

-----------------------------------------------------------------------------
(***************************************************************************)
(* One round.                                                              *)
(***************************************************************************)
\* missing: the objects of m that are not on the card.
missing(m) == Used(m) \ whole

\* FindSHA: the file is on the card under another name.
Copies(f) == {g \in whole \ {f} : Bytes[g] = Bytes[f]}

\* A mutant: the short circuit does not look at the directories.
playlistsPresentAny(m) == TRUE

\* playlistsPresent looks at which directories there are, not into them.
playlistsPresent(m) == \A n \in Names : Has(dirs, n) <=> Has(m.lists, n)

\* contentKey and rulesKey of a manifest against the ones in memory.
sameContent(m) == keys # NoManifest /\ keys.lists = m.lists
sameRules(m) == keys # NoManifest /\ keys.rules = m.rules

\* What a swap that was cut off left in the hidden directories goes.
sweepLeftovers == staging' = Empty /\ trash' = Empty

\* The start of applyManifest: sweepLeftovers, the two compares, the plan.
\* The manifest of the poll is the one that the server has now.
applyManifest ==
    /\ sync.pc = "idle"
    /\ sweepLeftovers
    /\ LET m == served
           steady == sameContent(m) /\ missing(m) = {} /\ playlistsPresent(m)
           round == [pc |-> "room", m |-> m, need |-> missing(m),
                     from |-> UNION {Copies(f) : f \in missing(m)}]
       IN  \/ steady /\ sameRules(m) /\ UNCHANGED sync
           \/ steady /\ ~sameRules(m) /\ sync' = [round EXCEPT !.pc = "rules"]
           \/ ~steady /\ sync' = round
    /\ UNCHANGED <<served, room, whole, part, dirs, fleet, keys, rules, gone, rotten,
                   excuse, faults>>

Blocks(set) == FoldSet(LAMBDA f, n : n + Size[f], 0, set)
Parts(set) == FoldSet(LAMBDA f, n : n + part[f].n, 0, set)
Free == Max({0, room - Blocks(whole) - Parts(Files)})

\* makeRoom: what the round must write.  A copy needs all of its blocks.
Want == Blocks(sync.need) - Parts({f \in sync.need : Copies(f) = {}})

\* evict: the files that no item of the NEW manifest names, also the ones that
\* the playlists on the screen name.
Evictable == whole \ (Used(sync.m) \cup sync.from)
Leftover == {f \in Files \ Used(sync.m) : part[f].n > 0}

Freed(w, p) == Blocks(w) + Parts(p)

\* Oldest first and only as many as needed: w and p are enough, and without
\* one of them they are not; or all of them are not enough.
Enough(w, p) ==
    \/ /\ Freed(w, p) >= Want - Free
       /\ \/ \E f \in w : Freed(w \ {f}, p) < Want - Free
          \/ \E f \in p : Freed(w, p \ {f}) < Want - Free
    \/ /\ Freed(w, p) < Want - Free
       /\ w = Evictable /\ p = Leftover

\* rulesFit: the playlist that the rules name has a directory.
rulesFit == Has(dirs, sync.m.rules)

makeRoom ==
    /\ sync.pc = "room"
    /\ \/ /\ Want <= 0 \/ Want <= Free
          /\ sync' = [sync EXCEPT !.pc = "fetch"]
          /\ UNCHANGED <<whole, part, gone, rotten, excuse>>
       \/ /\ Want > 0 /\ Want > Free
          /\ \E w \in SUBSET Evictable, p \in SUBSET Leftover :
                /\ Enough(w, p)
                /\ whole' = whole \ w
                /\ rotten' = rotten \ w
                /\ part' = [f \in Files |-> IF f \in p THEN NoPart ELSE part[f]]
                /\ gone' = gone \cup w
                /\ \/ /\ Freed(w, p) >= Want - Free
                      /\ sync' = [sync EXCEPT !.pc = "fetch"]
                      /\ UNCHANGED excuse
                   \/ /\ Freed(w, p) < Want - Free
                      /\ rulesFit
                      /\ sync' = [sync EXCEPT !.pc = "rules"]
                      /\ excuse' = excuse \cup {"early"}
                   \/ /\ Freed(w, p) < Want - Free
                      /\ ~rulesFit
                      /\ sync' = IdleRound
                      /\ UNCHANGED excuse
    /\ UNCHANGED <<served, room, dirs, staging, trash, fleet, keys, rules, faults>>

\* Download puts a file in place only when its hash is right.
Checked(p) == p.good

\* k blocks of f arrive behind the block start of its part file.
Arrives(f, start, k, good) ==
    LET p == [n |-> start + k, good |-> good /\ (start = 0 \/ part[f].good)]
        done == p.n = Size[f] /\ Checked(p)
    IN  /\ whole' = IF done THEN whole \cup {f} ELSE whole
        /\ rotten' = IF done /\ ~p.good THEN rotten \cup {f} ELSE rotten
        /\ part' = [part EXCEPT ![f] = IF p.n < Size[f] THEN p ELSE NoPart]

\* fetch of one object: a copy of bytes that the card has, or a download that
\* continues the part file.  The server answers the range (start n), or the
\* whole object, or refuses the range (start 0).  A failure ends the round.
fetch ==
    /\ sync.pc = "fetch"
    /\ \E f \in sync.need :
        \/ /\ Copies(f) \cap sync.from # {}
           /\ whole' = whole \cup {f}
           /\ rotten' = rotten \cup (IF Copies(f) \cap sync.from \subseteq rotten THEN {f} ELSE {})
           /\ sync' = [sync EXCEPT !.need = @ \ {f}]
           /\ gone' = gone \ {f}
           /\ UNCHANGED <<part, faults>>
        \/ /\ Copies(f) \cap sync.from = {}
           /\ \E start \in {0, part[f].n} :
                \/ /\ Arrives(f, start, Size[f] - start, TRUE)
                   /\ UNCHANGED faults
                \/ \E k \in 0..(Size[f] - start), good \in BOOLEAN :
                     /\ Fault("download")
                     /\ k < Size[f] - start \/ ~good
                     /\ Arrives(f, start, k, good)
           /\ sync' = IF f \in whole' THEN [sync EXCEPT !.need = @ \ {f}] ELSE IdleRound
           /\ gone' = gone \ whole'
    /\ UNCHANGED <<served, room, dirs, staging, trash, fleet, keys, rules, excuse>>

\* writePlaylists: nothing when no playlist differs, otherwise a staged set.
writePlaylists ==
    /\ sync.pc = "fetch" /\ sync.need = {}
    /\ \/ /\ dirs = sync.m.lists
          /\ sync' = [sync EXCEPT !.pc = "rules"]
          /\ UNCHANGED staging
       \/ /\ dirs # sync.m.lists
          /\ staging' = sync.m.lists
          /\ sync' = [sync EXCEPT !.pc = "out"]
    /\ UNCHANGED <<served, room, whole, part, dirs, trash, fleet, keys, rules, gone,
                   rotten, excuse, faults>>

\* A mutant: the directories are changed one by one.
SwapInReadySoon(n) == sync.pc \in {"out", "in"} /\ Has(staging, n) /\ ~Has(dirs, n)

SwapInReady(n) == sync.pc = "in" /\ Has(staging, n)

\* swap: every old directory goes to the trash directory first.
swapOut ==
    /\ \/ \E n \in Names :
            /\ sync.pc = "out" /\ Has(dirs, n)
            /\ trash' = [trash EXCEPT ![n] = dirs[n]]
            /\ dirs' = [dirs EXCEPT ![n] = {}]
            /\ UNCHANGED sync
       \/ /\ sync.pc = "out" /\ dirs = Empty
          /\ sync' = [sync EXCEPT !.pc = "in"]
          /\ UNCHANGED <<dirs, trash>>
    /\ UNCHANGED <<served, room, whole, part, staging, fleet, keys, rules, gone, rotten,
                   excuse, faults>>

\* swap: then every new one takes its place.
swapIn ==
    /\ \E n \in Names :
        /\ SwapInReady(n)
        /\ dirs' = [dirs EXCEPT ![n] = staging[n]]
        /\ staging' = [staging EXCEPT ![n] = {}]
    /\ UNCHANGED <<served, room, whole, part, trash, fleet, keys, rules, sync, gone, rotten,
                   excuse, faults>>

\* The trash and the staging directory go.
swapEnds ==
    /\ sync.pc = "in" /\ staging = Empty
    /\ trash' = Empty
    /\ sync' = [sync EXCEPT !.pc = "rules"]
    /\ excuse' = excuse \ {"undo"}
    /\ UNCHANGED <<served, room, whole, part, dirs, staging, fleet, keys, rules, gone,
                   rotten, faults>>

\* A rename fails: undo walks back.
renameFails ==
    /\ Fault("rename")
    /\ \/ sync.pc = "out" /\ dirs # Empty
       \/ sync.pc = "in" /\ staging # Empty
    /\ sync' = [sync EXCEPT !.pc = IF sync.pc = "in" THEN "undoIn" ELSE "undoOut"]
    /\ UNCHANGED <<served, room, cardVars, keys, rules, gone, rotten, excuse>>

\* undo: the new directories go back first.  The error of such a rename is
\* ignored and its directory, one of kept, stays.
undoIn ==
    /\ sync.pc = "undoIn"
    /\ \E kept \in SUBSET {n \in Names : Has(dirs, n)} :
        /\ \/ kept = {} /\ UNCHANGED <<excuse, faults>>
           \/ kept # {} /\ Fault("undo") /\ excuse' = excuse \cup {"undo"}
        /\ dirs' = [n \in Names |-> IF n \in kept THEN dirs[n] ELSE {}]
    /\ sync' = [sync EXCEPT !.pc = "undoOut"]
    /\ UNCHANGED <<served, room, whole, part, staging, trash, fleet, keys, rules, gone,
                   rotten>>

\* undo: the old directories come back where there is none, and both hidden
\* directories are removed.
undoOut ==
    /\ sync.pc = "undoOut"
    /\ \/ \E n \in Names :
            /\ Has(trash, n) /\ ~Has(dirs, n)
            /\ dirs' = [dirs EXCEPT ![n] = trash[n]]
            /\ trash' = [trash EXCEPT ![n] = {}]
            /\ UNCHANGED <<staging, sync>>
       \/ /\ \A n \in Names : Has(trash, n) => Has(dirs, n)
          /\ trash' = Empty /\ staging' = Empty
          /\ sync' = IdleRound
          /\ UNCHANGED dirs
    /\ UNCHANGED <<served, room, whole, part, fleet, keys, rules, gone, rotten, excuse, faults>>

\* applyRules: the state file, the keys, the scheduler.
applyRules ==
    /\ sync.pc = "rules"
    /\ \/ /\ fleet' = sync.m /\ keys' = sync.m /\ rules' = sync.m
          /\ excuse' = IF dirs = sync.m.lists THEN {} ELSE excuse
          /\ UNCHANGED faults
       \/ Fault("save") /\ UNCHANGED <<fleet, keys, rules, excuse>>
    /\ sync' = IdleRound
    /\ UNCHANGED <<served, room, whole, part, dirs, staging, trash, gone, rotten>>

Round ==
    \/ applyManifest \/ makeRoom \/ fetch \/ writePlaylists \/ swapOut \/ swapIn
    \/ swapEnds \/ undoIn \/ undoOut \/ applyRules

-----------------------------------------------------------------------------
(***************************************************************************)
(* The environment.                                                        *)
(***************************************************************************)
\* Restore at the next start: the hidden directories go, the recorded
\* manifest gives the keys and the rules.  The tail of a part file that was
\* not synced may be garbage.
PowerCut ==
    /\ Fault("cut")
    /\ \E bad \in SUBSET {f \in Files : part[f].n > 0} :
         part' = [f \in Files |-> IF f \in bad THEN [part[f] EXCEPT !.good = FALSE]
                                  ELSE part[f]]
    /\ sweepLeftovers
    /\ keys' = fleet /\ rules' = fleet
    /\ sync' = IdleRound
    /\ UNCHANGED <<served, room, whole, dirs, fleet, gone, rotten, excuse>>

\* The card is in a laptop: a person removes an object or a playlist.
Laptop ==
    /\ Fault("laptop")
    /\ sync.pc = "idle"
    /\ \/ \E f \in whole :
            /\ whole' = whole \ {f} /\ rotten' = rotten \ {f}
            /\ gone' = gone \cup {f} /\ UNCHANGED dirs
       \/ \E n \in Names :
            Has(dirs, n) /\ dirs' = [dirs EXCEPT ![n] = {}] /\ UNCHANGED <<whole, gone, rotten>>
    /\ keys' = fleet /\ rules' = fleet
    /\ UNCHANGED <<served, room, part, staging, trash, fleet, sync, excuse>>

NewManifest(m) ==
    /\ Fault("serve")
    /\ m # served
    /\ served' = m
    /\ excuse' = excuse \cup (IF fleet # NoManifest /\ m.lists = fleet.lists
                             THEN {"back"} ELSE {})
    /\ UNCHANGED <<room, cardVars, keys, rules, sync, gone, rotten>>

\* Local content comes or goes.
NewRoom(r) ==
    /\ Fault("room")
    /\ r # room
    /\ room' = r
    /\ UNCHANGED <<served, cardVars, keys, rules, sync, gone, rotten, excuse>>

Next ==
    \/ applyManifest \/ makeRoom \/ fetch \/ writePlaylists \/ swapOut \/ swapIn
    \/ swapEnds \/ renameFails \/ undoIn \/ undoOut \/ applyRules
    \/ PowerCut \/ Laptop
    \/ (\E m \in Manifests : NewManifest(m)) \/ (\E r \in Rooms : NewRoom(r))

Spec == Init /\ [][Next]_vars

\* The sync loop polls again and again.
Fairness == WF_vars(Round)

-----------------------------------------------------------------------------
(***************************************************************************)
(* Properties.                                                             *)
(***************************************************************************)
\* A reader of the card never sees a mixture: at every moment, also in the
\* middle of a swap and after a power cut, the live playlists are playlists of
\* one manifest.  A rename that failed in the undo of swap is excused.
NeverMixed ==
    \/ "undo" \in excuse
    \/ \E m \in Manifests : \A n \in Names : Has(dirs, n) => dirs[n] = m.lists[n]

\* A playlist is live only when its objects are on the card, finished and with
\* the bytes of the manifest.  A file that was evicted or removed by hand is
\* excused.
ItemsOnCard == \A n \in Names : dirs[n] \subseteq (whole \ rotten) \cup gone

\* There is room for m, for its copies and for what evict has to keep.
Fits(m) == 2 * Blocks(Used(m)) <= room

InSync(m) ==
    /\ dirs = m.lists /\ Used(m) \subseteq whole
    /\ fleet = m /\ rules = m

\* doc.go: a manifest is applied whole or not at all.  When the manifest stays
\* and fits, the card, the state file and the rules become those of it.
AppliedWhole == \A m \in Manifests : <>[](served = m /\ Fits(m)) => <>[]InSync(m)

\* The same, whatever failed, was cut or was removed on the way, except where
\* the state file names the manifest before the card has its playlists: the
\* manifest was recorded while its content did not fit, or the server went back
\* to the recorded one while another was on its way to the card.
Stays(m) == served = m /\ Fits(m) /\ excuse \cap {"early", "back"} = {}

Converges == \A m \in Manifests : <>[]Stays(m) => <>[]InSync(m)

\* The safety of the card: types, and the two statements above.
CardIsWhole == TypeOK /\ NeverMixed /\ ItemsOnCard

-----------------------------------------------------------------------------
(***************************************************************************)
(* The inductive invariant behind CardIsWhole.                             *)
(***************************************************************************)
\* The playlists of d that are there are those of m.
Of(d, m) == \A n \in Names : Has(d, n) => d[n] = m.lists[n]

\* Beside a swap the hidden directories are empty, and a round has a manifest.
RoundIsTidy ==
    /\ sync.pc \in {"idle", "room", "fetch", "rules"} => staging = Empty /\ trash = Empty
    /\ sync.pc # "idle" => sync.m \in Manifests

\* What is moved aside is of one manifest, and what is still live is of the same
\* one until the trash has everything; what comes in is of the new manifest.
OldIsOne ==
    \/ "undo" \in excuse
    \/ \E m \in Manifests :
        /\ Of(trash, m)
        /\ sync.pc \notin {"in", "undoIn"} => Of(dirs, m)

NewIsOne ==
    /\ sync.pc \in {"in", "undoIn"} => Of(dirs, sync.m)
    /\ sync.pc \in {"out", "in"} => Of(staging, sync.m)

\* Objects come first: what a round has still to fetch is all that can be missing.
ObjectsFirst ==
    /\ rotten = {}
    /\ \A n \in Names : dirs[n] \cup staging[n] \cup trash[n] \subseteq whole \cup gone
    /\ sync.pc \in {"room", "fetch"} => Used(sync.m) \subseteq whole \cup sync.need \cup gone

SyncInv == TypeOK /\ RoundIsTidy /\ OldIsOne /\ NewIsOne /\ ObjectsFirst
=============================================================================
