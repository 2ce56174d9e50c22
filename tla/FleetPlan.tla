----------------------------- MODULE FleetPlan -----------------------------
(***************************************************************************)
(* What a screen of the fleet plays: playlists, groups, rules and defaults *)
(* in the database (db/playlists.go, groups.go, assignments.go,            *)
(* devices.go), the admin routes that write them, and Manifest             *)
(* (db/manifest.go), which reads them for one poll of one device.          *)
(*                                                                         *)
(* A write is one transaction.  Manifest is a sequence of queries with no  *)
(* transaction around them, so a write can come between any two.  Days,    *)
(* times and priorities of a rule do not matter here: a rule is the        *)
(* playlist that it names.                                                 *)
(***************************************************************************)
EXTENDS Naturals, FiniteSets

CONSTANTS
    Device,      \* the device that polls
    Groups,      \* the groups
    Playlists,   \* the playlists
    Media,       \* the objects of the media table
    None,        \* no playlist, no group
    NoList,      \* the items of a playlist that is not there
    MaxWrites    \* bound: how many writes of the admin happen

Owners == Groups \cup {Device}

VARIABLES
    lists,   \* lists[p]: the items of a playlist, NoList when it is not there
    there,   \* the groups that are there
    grp,     \* the group of the device
    rules,   \* rules[w]: the playlists that the rules of an owner name
    dflt,    \* dflt[w]: the default playlist of an owner
    poll,    \* the Manifest call: what it has read
    sent,    \* the last manifest
    excuse,  \* history: "clean", no write since the poll began; "gone", the
             \* playlists that were deleted since then
    writes

plan == <<lists, there, grp, rules, dflt>>
vars == <<plan, poll, sent, excuse, writes>>

Absent == [p \in Playlists |-> NoList]
IdlePoll == [pc |-> "idle", grp |-> None, dflt |-> None, rules |-> {}, row |-> None,
             todo |-> {}, got |-> Absent]
NoManifest == [rules |-> {}, dflt |-> None, lists |-> Absent]

Init ==
    /\ lists = Absent
    /\ there = {} /\ grp = None
    /\ rules = [w \in Owners |-> {}]
    /\ dflt = [w \in Owners |-> None]
    /\ poll = IdlePoll /\ sent = NoManifest
    /\ excuse = [clean |-> TRUE, gone |-> {}]
    /\ writes = 0

Lists == [Playlists -> {NoList} \cup SUBSET Media]

TypeOK ==
    /\ lists \in Lists
    /\ there \subseteq Groups /\ grp \in Groups \cup {None}
    /\ rules \in [Owners -> SUBSET Playlists]
    /\ dflt \in [Owners -> Playlists \cup {None}]
    /\ poll \in [pc : {"idle", "group", "rules", "groupRules", "lists", "items"},
                grp : Groups \cup {None}, dflt : Playlists \cup {None},
                rules : SUBSET Playlists, row : Playlists \cup {None},
                todo : SUBSET Playlists, got : Lists]
    /\ sent \in [rules : SUBSET Playlists, dflt : Playlists \cup {None}, lists : Lists]
    /\ excuse \in [clean : BOOLEAN, gone : SUBSET Playlists]
    /\ writes \in 0..MaxWrites

Exists(p) == lists[p] # NoList

-----------------------------------------------------------------------------
(***************************************************************************)
(* The writes of the admin.                                                *)
(***************************************************************************)
Write(gone) ==
    /\ writes < MaxWrites /\ writes' = writes + 1
    /\ excuse' = [clean |-> FALSE, gone |-> excuse.gone \cup gone]
    /\ UNCHANGED <<poll, sent>>

\* validatePlaylist: internal/playlist refuses a playlist with no item.
Valid(m) == m # {}

SavePlaylist(p, m) ==
    /\ Write({})
    /\ Valid(m) /\ lists[p] # m
    /\ lists' = [lists EXCEPT ![p] = m]
    /\ UNCHANGED <<there, grp, rules, dflt>>

\* A mutant: the defaults of groups are not counted.
UsesPlaylistRules(p) == (\E w \in Owners : p \in rules[w]) \/ dflt[Device] = p

\* DeletePlaylist: a playlist that a rule or a default names stays.
UsesPlaylist(p) == \E w \in Owners : p \in rules[w] \/ dflt[w] = p

\* The foreign keys take the rules along and empty the defaults.
DeletePlaylist(p) ==
    /\ Write({p})
    /\ Exists(p) /\ ~UsesPlaylist(p)
    /\ lists' = [lists EXCEPT ![p] = NoList]
    /\ rules' = [w \in Owners |-> rules[w] \ {p}]
    /\ dflt' = [w \in Owners |-> IF dflt[w] = p THEN None ELSE dflt[w]]
    /\ UNCHANGED <<there, grp>>

OwnerThere(w) == w \in there \cup {Device}

\* SaveAssignment, DeleteAssignment.  The foreign key needs the playlist.
SaveAssignment(w, p) ==
    /\ Write({})
    /\ OwnerThere(w) /\ Exists(p) /\ p \notin rules[w]
    /\ rules' = [rules EXCEPT ![w] = @ \cup {p}]
    /\ UNCHANGED <<lists, there, grp, dflt>>

DeleteAssignment(w, p) ==
    /\ Write({})
    /\ p \in rules[w]
    /\ rules' = [rules EXCEPT ![w] = @ \ {p}]
    /\ UNCHANGED <<lists, there, grp, dflt>>

\* The default playlist of an owner, which must be there.
SetDefault(w, p) ==
    /\ Write({})
    /\ p \in {None} \cup {q \in Playlists : Exists(q)} /\ dflt[w] # p
    /\ dflt' = [dflt EXCEPT ![w] = p]
    /\ UNCHANGED <<lists, there, grp, rules>>

UpdateGroup(g, p) == g \in there /\ SetDefault(g, p)

SetDeviceOverrides(p) == SetDefault(Device, p)

CreateGroup(g) ==
    /\ Write({})
    /\ g \notin there
    /\ there' = there \cup {g}
    /\ UNCHANGED <<lists, grp, rules, dflt>>

\* DeleteGroup: a group with devices or rules stays.
DeleteGroup(g) ==
    /\ Write({})
    /\ g \in there /\ grp # g /\ rules[g] = {}
    /\ there' = there \ {g}
    /\ dflt' = [dflt EXCEPT ![g] = None]
    /\ UNCHANGED <<lists, grp, rules>>

MoveDevice(g) ==
    /\ Write({})
    /\ g \in there \cup {None} /\ grp # g
    /\ grp' = g
    /\ UNCHANGED <<lists, there, rules, dflt>>

-----------------------------------------------------------------------------
(***************************************************************************)
(* Manifest, one query at a time.                                          *)
(***************************************************************************)
\* DeviceByToken: the row of the device.
DeviceByToken ==
    /\ poll.pc = "idle"
    /\ poll' = [IdlePoll EXCEPT !.pc = "group", !.grp = grp, !.dflt = dflt[Device]]
    /\ excuse' = [clean |-> TRUE, gone |-> {}]
    /\ UNCHANGED <<plan, sent, writes>>

\* deviceGroup: a group that went away is no group.
deviceGroup ==
    /\ poll.pc = "group"
    /\ LET g == IF poll.grp \in there THEN poll.grp ELSE None
       IN  poll' = [poll EXCEPT !.pc = "rules", !.grp = g,
                                !.dflt = IF @ = None /\ g # None THEN dflt[g] ELSE @]
    /\ UNCHANGED <<plan, sent, excuse, writes>>

\* The rules of the group count when the device has none.
GroupRulesCount(own) == own = {}

readRules ==
    /\ \/ /\ poll.pc = "rules"
          /\ poll' = [poll EXCEPT !.rules = rules[Device], !.pc =
                        IF GroupRulesCount(rules[Device]) /\ poll.grp # None
                        THEN "groupRules" ELSE "lists"]
       \/ /\ poll.pc = "groupRules"
          /\ poll' = [poll EXCEPT !.rules = @ \cup rules[poll.grp], !.pc = "lists"]
    /\ UNCHANGED <<plan, sent, excuse, writes>>

Wanted == poll.rules \cup ({poll.dflt} \ {None})

\* PlaylistNoCount: the row and the items are two queries.
PlaylistNoCount ==
    /\ \/ /\ poll.pc = "lists"
          /\ \E p \in Wanted \ poll.todo :
                poll' = IF Exists(p)
                        THEN [poll EXCEPT !.pc = "items", !.row = p]
                        ELSE [poll EXCEPT !.todo = @ \cup {p}]
       \/ /\ poll.pc = "items"
          /\ poll' = [poll EXCEPT
                !.got[poll.row] = IF Exists(poll.row) THEN lists[poll.row] ELSE {},
                !.todo = @ \cup {poll.row}, !.row = None, !.pc = "lists"]
    /\ UNCHANGED <<plan, sent, excuse, writes>>

\* The end of Manifest: a rule or a default whose playlist was not loaded is
\* left out.
Manifest ==
    /\ poll.pc = "lists" /\ Wanted \subseteq poll.todo
    /\ sent' = [rules |-> {p \in poll.rules : poll.got[p] # NoList},
                dflt |-> IF poll.dflt # None /\ poll.got[poll.dflt] # NoList
                         THEN poll.dflt ELSE None,
                lists |-> poll.got]
    /\ poll' = IdlePoll
    /\ UNCHANGED <<plan, excuse, writes>>

Next ==
    \/ \E p \in Playlists :
        \/ \E m \in SUBSET Media : SavePlaylist(p, m)
        \/ DeletePlaylist(p)
        \/ \E w \in Owners : SaveAssignment(w, p) \/ DeleteAssignment(w, p)
    \/ \E p \in Playlists \cup {None} :
        SetDeviceOverrides(p) \/ \E g \in Groups : UpdateGroup(g, p)
    \/ \E g \in Groups : CreateGroup(g) \/ DeleteGroup(g)
    \/ \E g \in Groups \cup {None} : MoveDevice(g)
    \/ DeviceByToken \/ deviceGroup \/ readRules \/ PlaylistNoCount \/ Manifest

Spec == Init /\ [][Next]_vars

-----------------------------------------------------------------------------
(***************************************************************************)
(* Properties.                                                             *)
(***************************************************************************)
\* The reference: what the device must play, read in one moment.  A rule of the
\* device replaces the rules of its group, and so does its default.
Resolved ==
    LET own == rules[Device]
        g == IF grp \in there THEN {grp} ELSE {}
        r == IF own # {} THEN own ELSE UNION {rules[w] : w \in g}
        defaults == ({dflt[Device]} \ {None})
                    \cup IF dflt[Device] = None THEN {dflt[w] : w \in g} \ {None} ELSE {}
        named == r \cup defaults
    IN  [rules |-> r,
         dflt |-> IF defaults = {} THEN None ELSE CHOOSE p \in defaults : TRUE,
         lists |-> [p \in Playlists |-> IF p \in named THEN lists[p] ELSE NoList]]

\* The resolution rule of the fleet: a manifest that was read while nothing was
\* written is what the reference says.
ManifestIsResolved ==
    sent' # sent /\ excuse.clean => sent' = Resolved

\* A playlist that a manifest names is in it and has an item, so the screen has
\* something to show.  A playlist that was deleted during the poll is excused.
NamedHasItems ==
    sent' # sent => \A p \in sent'.rules \cup ({sent'.dflt} \ {None}) :
                        sent'.lists[p] \notin {NoList, {}} \/ p \in excuse.gone

Goes == \/ \E p \in Playlists : Exists(p) /\ lists'[p] = NoList
        \/ \E g \in there : g \notin there'

\* DeletePlaylist and DeleteGroup: a screen does not quietly change what it
\* plays because a list or a group went away.
QuietDelete == Goes => Resolved' = Resolved

-----------------------------------------------------------------------------
(***************************************************************************)
(* The inductive invariant behind the three of them.                       *)
(***************************************************************************)
\* The foreign keys: what a rule or a default names is there, and has an item.
NamesAreThere ==
    /\ \A w \in Owners : /\ \A p \in rules[w] : Exists(p)
                         /\ dflt[w] # None => Exists(dflt[w])
    /\ \A p \in Playlists : lists[p] # {}

GroupNow == IF grp \in there THEN grp ELSE None
DefaultNow == IF dflt[Device] = None /\ GroupNow # None THEN dflt[GroupNow] ELSE dflt[Device]
RulesNow == IF rules[Device] = {} /\ GroupNow # None THEN rules[GroupNow] ELSE rules[Device]

\* What a poll has read while nothing was written is what the tables say.
ReadIsTrue ==
    excuse.clean =>
        /\ poll.pc = "group" => poll.grp = grp /\ poll.dflt = dflt[Device]
        /\ poll.pc \in {"rules", "groupRules", "lists", "items"} =>
                poll.grp = GroupNow /\ poll.dflt = DefaultNow
        /\ poll.pc = "groupRules" => rules[Device] = {} /\ GroupNow # None /\ poll.rules = {}
        /\ poll.pc \in {"lists", "items"} => poll.rules = RulesNow
        /\ \A p \in poll.todo : poll.got[p] = lists[p]

\* The playlists that a poll has loaded are wanted, and it has no other one.
PollIsWanted ==
    /\ poll.pc \notin {"lists", "items"} => poll.todo = {}
    /\ poll.todo \subseteq Wanted
    /\ poll.pc = "items" => poll.row \in Wanted
    /\ poll.pc = "groupRules" => poll.grp # None
    /\ \A p \in Playlists \ poll.todo : poll.got[p] = NoList

\* A playlist that a poll has found has an item, or was deleted since.
FoundHasItems ==
    /\ \A p \in Playlists : poll.got[p] # {} \/ p \in excuse.gone
    /\ poll.pc = "items" => Exists(poll.row) \/ poll.row \in excuse.gone

PlanInv == TypeOK /\ NamesAreThere /\ ReadIsTrue /\ PollIsWanted /\ FoundHasItems
=============================================================================
