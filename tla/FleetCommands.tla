--------------------------- MODULE FleetCommands ---------------------------
(***************************************************************************)
(* The command queue of the fleet: internal/server/db/commands.go and      *)
(* heartbeat.go on the servers, internal/device/syncer on one device.      *)
(*                                                                         *)
(* A command travels in the answer to a poll and its acknowledgement in a  *)
(* heartbeat.  Both can be lost, the device can lose power at any moment,  *)
(* and a person at the device can pair and unpair it through HTTP handlers *)
(* while the poll round of the sync loop is under way: Pair and Unpair     *)
(* hold pairMu, and pollRound does not.                                    *)
(*                                                                         *)
(* The content of a manifest is abstracted to the server that sent it.     *)
(* The enrollment dialogue is abstracted to its result, a new token.       *)
(***************************************************************************)
EXTENDS Integers, Sequences, FiniteSets

CONSTANTS
    Servers,        \* the fleet servers that the device may pair with
    None,           \* no server
    Kinds,          \* the command types that the admin queues
    MaxId,          \* bound: each server numbers its commands 1..MaxId
    maxDeliveries,  \* how often one command goes out (the code says 3)
    MaxCommands,    \* how many IDs the device remembers (the code says 100)
    MaxAcks,        \* how many IDs one heartbeat carries (the code says 100)
    MaxPairings,    \* bound: how many pairings happen in one behaviour
    Events,         \* which of the events below the environment uses
    MaxFaults       \* bound: how many losses, crashes and failed saves happen

Ids == 1..MaxId
Tokens == 1..MaxPairings
AllKinds == {"reboot", "update", "rename", "local"}

ASSUME FleetAssumption ==
    /\ None \notin Servers
    /\ Kinds \subseteq AllKinds
    /\ MaxId \in Nat
    /\ maxDeliveries \in Nat \ {0}
    /\ MaxCommands \in Nat \ {0}
    /\ MaxAcks \in Nat \ {0}
    /\ MaxPairings \in Nat \ {0}
    /\ Events \subseteq {"lose", "crash", "save", "age", "revoke", "delete",
                         "unpair", "rejoin"}
    /\ MaxFaults \in Nat

VARIABLES
    \* On each server.
    rows,      \* the rows of the table commands
    kinds,     \* the type of each command; also what an answer in flight says
    nextId,    \* sqlite_sequence: the ID of the next command
    device,    \* the row of this device: is it known, which token works
    \* On the device.
    disk,      \* state.json: [srv, token, commands, fleet]
    mem,       \* the state in memory, same fields
    gen,       \* the generation of the pairing
    release,   \* the server whose approved release the syncer names
    rules,     \* the server whose schedule is live, None for the TOML
    name,      \* the last rename that was saved: [srv, id]
    round,     \* the poll round: [pc, srv, token, gen, todo, acks]
    \* History and bounds.
    ran,       \* how often the device ran the command of each row, up to MaxRuns
    pairings,  \* how many pairings there were
    faults     \* how many faults happened

serverVars == <<rows, kinds, nextId, device>>
deviceVars == <<disk, mem, gen, release, rules, name, round>>
vars == <<serverVars, deviceVars, ran, pairings, faults>>

MaxRuns == 2
Month == 2      \* ages: 0 is below commandLife, 1 above it, 2 above commandKeep
RoundSteps == {"idle", "fetch", "answer", "refused", "forget", "apply", "save",
               "live", "set", "run", "early", "ender", "mark"}
NoRow == [state |-> "none", deliveries |-> 0, due |-> FALSE, age |-> 0]
NewRow == [NoRow EXCEPT !.state = "waiting"]
Standalone == [srv |-> None, token |-> 0, commands |-> <<>>, fleet |-> None]
Idle == [pc |-> "idle", srv |-> None, token |-> 0, gen |-> 0, todo |-> {}, acks |-> {}]

Rows == [state : {"none", "waiting", "acked", "expired"},
         deliveries : 0..maxDeliveries, due : BOOLEAN, age : 0..Month]
States == [srv : Servers \cup {None}, token : Tokens \cup {0},
           commands : Seq(Ids), fleet : Servers \cup {None}]
Rounds == [pc : RoundSteps, srv : Servers \cup {None}, token : Tokens \cup {0},
           gen : Nat, todo : SUBSET Ids, acks : SUBSET Ids]

(***************************************************************************)
(* Types.  deliveries never passes maxDeliveries (TakeCommands), and the   *)
(* state file keeps at most MaxCommands IDs (MarkCommand).                 *)
(***************************************************************************)
TypeOK ==
    /\ rows \in [Servers -> [Ids -> Rows]]
    /\ kinds \in [Servers -> [Ids -> AllKinds]]
    /\ nextId \in [Servers -> 1..(MaxId + 1)]
    /\ device \in [Servers -> [known : BOOLEAN, token : Tokens \cup {0}]]
    /\ disk \in States
    /\ mem \in States
    /\ Len(disk.commands) <= MaxCommands
    /\ Len(mem.commands) <= MaxCommands
    /\ gen \in Nat
    /\ release \in Servers \cup {None}
    /\ rules \in Servers \cup {None}
    /\ name \in [srv : Servers \cup {None}, id : Ids \cup {0}]
    /\ round \in Rounds
    /\ ran \in [Servers -> [Ids -> 0..MaxRuns]]
    /\ pairings \in 0..MaxPairings
    /\ faults \in 0..MaxFaults

(***************************************************************************)
(* A device that was never paired, and servers with an empty queue.        *)
(***************************************************************************)
Init ==
    /\ rows = [s \in Servers |-> [i \in Ids |-> NoRow]]
    /\ kinds = [s \in Servers |-> [i \in Ids |-> "local"]]
    /\ nextId = [s \in Servers |-> 1]
    /\ device = [s \in Servers |-> [known |-> FALSE, token |-> 0]]
    /\ disk = Standalone /\ mem = Standalone
    /\ gen = 0 /\ release = None /\ rules = None
    /\ name = [srv |-> None, id |-> 0]
    /\ round = Idle
    /\ ran = [s \in Servers |-> [i \in Ids |-> 0]]
    /\ pairings = 0 /\ faults = 0

\* One of the bounded events: a lost message, a crash, a save that fails.
Fault(kind) ==
    /\ kind \in Events
    /\ faults < MaxFaults
    /\ faults' = faults + 1

(***************************************************************************)
(* updateState of the daemon: the change is made in memory and the file is *)
(* written under the same lock.  A write that fails leaves the change in   *)
(* memory only; ok is the error that the caller sees.                      *)
(***************************************************************************)
SaveState(new, ok) ==
    /\ mem' = new
    /\ IF ok THEN disk' = new /\ UNCHANGED faults
             ELSE new # mem /\ Fault("save") /\ UNCHANGED disk

-----------------------------------------------------------------------------
(***************************************************************************)
(* The servers.                                                            *)
(***************************************************************************)
\* Nobody acknowledged the row and it is not expired.
Waiting(r) == r.state = "waiting"

\* Mutant of Overdue: only a row that went out often enough expires.
OverdueTriesOnly(r) == Waiting(r) /\ r.deliveries >= maxDeliveries /\ r.due

\* Mutant of Ready: nothing goes out a second time.
ReadyOnce(r) == Waiting(r) /\ r.deliveries = 0

\* Mutant of Superseded: a rename leaves the older renames in the queue.
SupersedesNothing(s, k) == {}

\* Mutant of NextId: a plain rowid, the highest of the rows that are left plus one.
NextIdReused(s) ==
    CHOOSE n \in 1..(MaxId + 1) :
        /\ \A i \in Ids : rows[s][i].state # "none" => i < n
        /\ n > 1 => rows[s][n - 1].state # "none"

\* The clock took the row: its last try is over, or it waited for commandLife.
Overdue(r) ==
    /\ Waiting(r)
    /\ \/ r.deliveries >= maxDeliveries /\ r.due
       \/ r.age >= 1

Expire(r) == IF Overdue(r) THEN [r EXCEPT !.state = "expired"] ELSE r

\* The row goes out with the next answer: it never did, or nobody acknowledged
\* it for redeliverAfter and it has a try left.
Ready(r) ==
    /\ Waiting(r)
    /\ \/ r.deliveries = 0
       \/ r.deliveries < maxDeliveries /\ r.due

\* The rows that a new command of type k expires: the older renames.
Superseded(s, k) ==
    {i \in Ids : k = "rename" /\ kinds[s][i] = "rename" /\ Waiting(rows[s][i])}

\* AUTOINCREMENT: the ID after the highest one that was ever given out.
NextId(s) == nextId[s]

\* The admin queues one command for the device, through the page of the screen
\* or of its group.  A foreign key refuses a device that is not there.
QueueCommand(s, k) ==
    /\ NextId(s) \in Ids
    /\ device[s].known
    /\ rows' = [rows EXCEPT ![s] = [i \in Ids |->
                  IF i = NextId(s) THEN NewRow
                  ELSE IF i \in Superseded(s, k) THEN [@[i] EXCEPT !.state = "expired"]
                  ELSE @[i]]]
    /\ kinds' = [kinds EXCEPT ![s][NextId(s)] = k]
    /\ nextId' = [nextId EXCEPT ![s] = NextId(s) + 1]
    /\ ran' = [ran EXCEPT ![s][NextId(s)] = 0]
    /\ UNCHANGED <<device, deviceVars, pairings, faults>>

\* The rows after TakeCommands, and the IDs that go out, lowest first.
TakenRows(s) == [i \in Ids |->
    LET r == Expire(rows[s][i]) IN
    IF Ready(r) THEN [r EXCEPT !.deliveries = @ + 1, !.due = FALSE] ELSE r]
TakenIds(s) == {i \in Ids : Ready(Expire(rows[s][i]))}

\* SweepCommands of the timer: the clock for every row, and the rows that are
\* over and older than commandKeep go.
SweepCommands(s) ==
    /\ rows' = [rows EXCEPT ![s] = [i \in Ids |->
                  LET r == Expire(@[i])
                  IN IF r.state \in {"acked", "expired"} /\ r.age = Month THEN NoRow ELSE r]]
    /\ rows' # rows
    /\ UNCHANGED <<kinds, nextId, device, deviceVars, ran, pairings, faults>>

\* The clock: redeliverAfter passed since the last delivery of a row.
TenMinutes(s, i) ==
    /\ rows[s][i].state = "waiting" /\ rows[s][i].deliveries > 0 /\ ~rows[s][i].due
    /\ rows' = [rows EXCEPT ![s][i].due = TRUE]
    /\ UNCHANGED <<kinds, nextId, device, deviceVars, ran, pairings, faults>>

\* The clock: a row passed commandLife, and later commandKeep.
GrowOld(s, i) ==
    /\ "age" \in Events
    /\ rows[s][i].state # "none" /\ rows[s][i].age < Month
    /\ rows' = [rows EXCEPT ![s][i].age = @ + 1]
    /\ UNCHANGED <<kinds, nextId, device, deviceVars, ran, pairings, faults>>

\* The admin takes the token away: ResolveConflict, or an approval of another
\* machine for this row.
RevokeToken(s) ==
    /\ "revoke" \in Events
    /\ device[s].token # 0
    /\ device' = [device EXCEPT ![s].token = 0]
    /\ UNCHANGED <<rows, kinds, nextId, deviceVars, ran, pairings, faults>>

\* The admin removes the screen.  Its commands go with the row (ON DELETE
\* CASCADE); the counter of the IDs stays.
DeleteDevice(s) ==
    /\ "delete" \in Events
    /\ device[s].known
    /\ device' = [device EXCEPT ![s] = [known |-> FALSE, token |-> 0]]
    /\ rows' = [rows EXCEPT ![s] = [i \in Ids |-> NoRow]]
    /\ UNCHANGED <<kinds, nextId, deviceVars, ran, pairings, faults>>

-----------------------------------------------------------------------------
(***************************************************************************)
(* Pairing on the device.                                                  *)
(***************************************************************************)
\* clearFleet: a new generation, and nothing of the old pairing in memory.
clearFleet == gen' = gen + 1 /\ release' = None

\* The server makes a token for the device; its row and its commands stay.
PairRow(s) == device' = [device EXCEPT ![s] = [known |-> TRUE, token |-> pairings + 1]]

\* A person, or the sync loop, pairs the device: enroll, and takeEnrollment
\* with the answer.  A pairing starts with an empty list of commands.
Pair(s) ==
    /\ mem.srv = None
    /\ pairings < MaxPairings
    /\ device[s].known => "rejoin" \in Events
    /\ PairRow(s)
    /\ pairings' = pairings + 1
    /\ \E ok \in BOOLEAN :
         /\ SaveState([srv |-> s, token |-> pairings + 1,
                       commands |-> <<>>, fleet |-> None], ok)
         /\ IF ok THEN clearFleet ELSE UNCHANGED <<gen, release>>
    /\ UNCHANGED <<rows, kinds, nextId, rules, name, round, ran>>

\* The answer to enroll is lost: the server made a token that no device holds.
PairLost(s) ==
    /\ mem.srv = None
    /\ pairings < MaxPairings
    /\ device[s].known => "rejoin" \in Events
    /\ Fault("lose")
    /\ PairRow(s)
    /\ pairings' = pairings + 1
    /\ UNCHANGED <<rows, kinds, nextId, deviceVars, ran>>

\* A person unpairs the device.  Nothing is sent to the server.
Unpair ==
    /\ "unpair" \in Events
    /\ mem.srv # None
    /\ \E ok \in BOOLEAN :
         /\ SaveState(Standalone, ok)
         /\ IF ok THEN clearFleet /\ rules' = None
                  ELSE UNCHANGED <<gen, release, rules>>
    /\ UNCHANGED <<serverVars, name, round, ran, pairings>>

-----------------------------------------------------------------------------
(***************************************************************************)
(* The poll round: pollRound, applyManifest, runCommands.                  *)
(***************************************************************************)
RoundTo(pc) == round' = [round EXCEPT !.pc = pc]

\* The round reads the state once and keeps the server and the token of it.
BeginRound ==
    /\ round.pc = "idle"
    /\ mem.srv # None
    /\ round' = [Idle EXCEPT !.pc = "fetch", !.srv = mem.srv, !.token = mem.token]
    /\ UNCHANGED <<serverVars, disk, mem, gen, release, rules, name, ran, pairings, faults>>

TokenWorks == device[round.srv].token = round.token

\* The server answers the poll.  A lost answer counts as a delivery.
FetchManifest ==
    /\ round.pc = "fetch"
    /\ TokenWorks
    /\ rows' = [rows EXCEPT ![round.srv] = TakenRows(round.srv)]
    /\ \/ round' = [round EXCEPT !.pc = "answer", !.todo = TakenIds(round.srv)]
          /\ UNCHANGED faults
       \/ round' = Idle /\ Fault("lose")
    /\ UNCHANGED <<kinds, nextId, device, disk, mem, gen, release, rules, name,
                   ran, pairings>>

\* The server answers token-revoked.
FetchRefused ==
    /\ round.pc = "fetch"
    /\ ~TokenWorks
    /\ RoundTo("refused")
    /\ UNCHANGED <<serverVars, disk, mem, gen, release, rules, name, ran, pairings, faults>>

\* dropToken, under pairMu: the pairing of the state file goes.
DropToken ==
    /\ round.pc = "refused"
    /\ \E ok \in BOOLEAN : SaveState(Standalone, ok)
    /\ RoundTo("forget")
    /\ UNCHANGED <<serverVars, gen, release, rules, name, ran, pairings>>

\* The rest of dropToken: the rules of the TOML come back, refuseToken clears.
ForgetFleet ==
    /\ round.pc = "forget"
    /\ rules' = None
    /\ clearFleet
    /\ round' = Idle
    /\ UNCHANGED <<serverVars, disk, mem, name, ran, pairings, faults>>

\* pollRound keeps what the manifest says of the server and its release.
TakeAnswer ==
    /\ round.pc = "answer"
    /\ release' = round.srv
    /\ RoundTo("apply")
    /\ UNCHANGED <<serverVars, disk, mem, gen, rules, name, ran, pairings, faults>>

\* applyManifest notes the generation, then fetches and writes for minutes.
\* It ends early when nothing changed or an object failed.
ApplyManifest ==
    /\ round.pc = "apply"
    /\ \E next \in {"save", "run"} :
         round' = [round EXCEPT !.pc = next, !.gen = gen]
    /\ UNCHANGED <<serverVars, disk, mem, gen, release, rules, name, ran, pairings, faults>>

Stale == gen # round.gen

\* Mutant of KeptState: the manifest is kept although the pairing is gone.
KeptUnpaired == [mem EXCEPT !.fleet = round.srv]

\* The state with the manifest of this round, which an unpaired device ignores.
KeptState == IF mem.srv = None THEN mem ELSE [mem EXCEPT !.fleet = round.srv]

\* applyRules: the state file keeps the manifest while the device is paired.
SaveRules ==
    /\ round.pc = "save"
    /\ \/ Stale /\ RoundTo("run") /\ UNCHANGED <<disk, mem, faults>>
       \/ /\ ~Stale
          /\ \E ok \in BOOLEAN :
               /\ SaveState(KeptState, ok)
               /\ RoundTo(IF ok THEN "live" ELSE "run")
    /\ UNCHANGED <<serverVars, gen, release, rules, name, ran, pairings>>

\* The second look at the generation, and the call that it guards.
CheckRules ==
    /\ round.pc = "live"
    /\ RoundTo(IF Stale THEN "run" ELSE "set")
    /\ UNCHANGED <<serverVars, disk, mem, gen, release, rules, name, ran, pairings, faults>>

SetFleetRules ==
    /\ round.pc = "set"
    /\ rules' = round.srv
    /\ RoundTo("run")
    /\ UNCHANGED <<serverVars, disk, mem, gen, release, name, ran, pairings, faults>>

-----------------------------------------------------------------------------
\* A state that marks one command more; the newest MaxCommands IDs stay.
InList(id, list) == \E k \in 1..Len(list) : list[k] = id
MarkCommand(st, id) ==
    LET longer == Append(st.commands, id)
    IN IF InList(id, st.commands) THEN st
       ELSE [st EXCEPT !.commands =
               SubSeq(longer, IF Len(longer) > MaxCommands THEN 2 ELSE 1, Len(longer))]

RanCommand(id) == InList(id, mem.commands)
endsTheProcess(kind) == kind \in {"reboot", "update"}

FirstId == CHOOSE i \in round.todo : \A j \in round.todo : i <= j
FirstKind == kinds[round.srv][FirstId]
Count(n) == IF n < MaxRuns THEN n + 1 ELSE n

\* The first command of the list is due.
AtCommand == round.pc = "run" /\ round.todo # {}

\* A command that already ran is acknowledged again and not run.
Repeat ==
    /\ AtCommand
    /\ RanCommand(FirstId)
    /\ round' = [round EXCEPT !.todo = @ \ {FirstId}, !.acks = @ \cup {FirstId}]
    /\ UNCHANGED <<serverVars, disk, mem, gen, release, rules, name, ran, pairings, faults>>

\* Mutant of MarkFirst: the mark stays in memory.
MarkFirstUnsaved ==
    /\ AtCommand
    /\ ~RanCommand(FirstId)
    /\ endsTheProcess(FirstKind)
    /\ mem' = MarkCommand(mem, FirstId)
    /\ RoundTo("early")
    /\ UNCHANGED <<serverVars, disk, gen, release, rules, name, ran, pairings, faults>>

\* A command that may end the process is marked before anything else.
MarkFirst ==
    /\ AtCommand
    /\ ~RanCommand(FirstId)
    /\ endsTheProcess(FirstKind)
    /\ \E ok \in BOOLEAN : SaveState(MarkCommand(mem, FirstId), ok)
    /\ RoundTo("early")
    /\ UNCHANGED <<serverVars, gen, release, rules, name, ran, pairings>>

\* Heartbeat on the server: the rows of the acknowledged commands.
Carried(acks) == {i \in acks : Cardinality({j \in acks : j < i}) < MaxAcks}
Acknowledge(acks) ==
    rows' = IF TokenWorks
            THEN [rows EXCEPT ![round.srv] = [i \in Ids |->
                    IF i \in Carried(acks) /\ @[i].state # "none"
                    THEN [@[i] EXCEPT !.state = "acked"] ELSE @[i]]]
            ELSE rows

\* A heartbeat arrives or is lost; the device goes on either way.
Heartbeat(acks) ==
    \/ Acknowledge(acks) /\ UNCHANGED faults
    \/ Fault("lose") /\ UNCHANGED rows

\* The acknowledgement goes out before a reboot or an update runs.
AckFirst ==
    /\ round.pc = "early"
    /\ Heartbeat(round.acks \cup {FirstId})
    /\ round' = [round EXCEPT !.pc = "ender", !.acks = @ \cup {FirstId}]
    /\ UNCHANGED <<kinds, nextId, device, disk, mem, gen, release, rules, name,
                   ran, pairings>>

\* The process starts again with the state of the file: Restore puts the last
\* manifest back.
Restart ==
    /\ mem' = disk
    /\ gen' = 0
    /\ release' = IF disk.srv = None THEN None ELSE disk.fleet
    /\ rules' = IF disk.srv = None THEN None ELSE disk.fleet
    /\ round' = Idle

Executed == ran' = [ran EXCEPT ![round.srv][FirstId] = Count(@)]

\* A reboot ends the round, whether the machine goes down or refuses to.  An
\* update restarts the service, or finds nothing and the round goes on.
RunEnder ==
    /\ round.pc = "ender"
    /\ Executed
    /\ \/ Restart
       \/ /\ round' = IF FirstKind = "reboot" THEN Idle
                      ELSE [round EXCEPT !.pc = "run", !.todo = @ \ {FirstId}]
          /\ UNCHANGED <<mem, gen, release, rules>>
    /\ UNCHANGED <<serverVars, disk, name, pairings, faults>>

\* Every other command runs first.  A rename may be refused by the save path.
Execute ==
    /\ AtCommand
    /\ ~RanCommand(FirstId)
    /\ ~endsTheProcess(FirstKind)
    /\ Executed
    /\ \/ FirstKind = "rename" /\ name' = [srv |-> round.srv, id |-> FirstId]
       \/ UNCHANGED name
    /\ RoundTo("mark")
    /\ UNCHANGED <<serverVars, disk, mem, gen, release, rules, pairings, faults>>

\* And it is marked after it ran.
MarkAfter ==
    /\ round.pc = "mark"
    /\ \E ok \in BOOLEAN : SaveState(MarkCommand(mem, FirstId), ok)
    /\ round' = [round EXCEPT !.pc = "run", !.todo = @ \ {FirstId}, !.acks = @ \cup {FirstId}]
    /\ UNCHANGED <<serverVars, gen, release, rules, name, ran, pairings>>

\* The last heartbeat of the round.
EndRound ==
    /\ round.pc = "run" /\ round.todo = {}
    /\ Heartbeat(round.acks)
    /\ round' = Idle
    /\ UNCHANGED <<kinds, nextId, device, disk, mem, gen, release, rules, name,
                   ran, pairings>>

\* Power, or the process, goes away at any moment and comes back.
Crash ==
    /\ Fault("crash")
    /\ Restart
    /\ UNCHANGED <<serverVars, disk, name, ran, pairings>>

-----------------------------------------------------------------------------
RunStep == Repeat \/ MarkFirst \/ AckFirst \/ RunEnder \/ Execute \/ MarkAfter
RoundStep ==
    \/ BeginRound \/ FetchManifest \/ FetchRefused \/ DropToken \/ ForgetFleet
    \/ TakeAnswer \/ ApplyManifest \/ SaveRules \/ CheckRules \/ SetFleetRules
    \/ RunStep \/ EndRound
ClockStep(s) == \E i \in Ids : TenMinutes(s, i) \/ GrowOld(s, i)
ServerStep(s) ==
    \/ \E k \in Kinds : QueueCommand(s, k)
    \/ SweepCommands(s) \/ RevokeToken(s) \/ DeleteDevice(s)

Next ==
    \/ RoundStep
    \/ \E s \in Servers : ServerStep(s) \/ ClockStep(s) \/ Pair(s) \/ PairLost(s)
    \/ Unpair
    \/ Crash

Spec == Init /\ [][Next]_vars

(***************************************************************************)
(* Run of the syncer drives one pass after the other, the timer of the     *)
(* server sweeps every hour, and time passes.  Nothing obliges the admin,  *)
(* the person at the device or a fault.                                    *)
(***************************************************************************)
Fairness ==
    /\ WF_vars(RoundStep)
    /\ \A s \in Servers :
         /\ WF_vars(SweepCommands(s))
         /\ \A i \in Ids : WF_vars(TenMinutes(s, i)) /\ WF_vars(GrowOld(s, i))

FairSpec == Spec /\ Fairness

-----------------------------------------------------------------------------
(***************************************************************************)
(* Properties.                                                             *)
(***************************************************************************)
\* A command that may end the process runs at most once, however often an
\* answer or an acknowledgement is lost and wherever power fails (runCommands
\* marks such a command before it runs it).
EndersRunOnce ==
    \A s \in Servers, i \in Ids :
        kinds[s][i] \in {"reboot", "update"} => ran[s][i] <= 1

\* What the server shows as acknowledged, the device did: the row of a command
\* that runs before it is marked is acked only after the device ran it.
AckedRan ==
    \A s \in Servers, i \in Ids :
        rows[s][i].state = "acked" /\ kinds[s][i] \in {"local", "rename"} => ran[s][i] > 0

\* A rename never takes back the name that a newer rename of the same server
\* gave (QueueCommand expires the older ones).
RenamesInOrder ==
    [][name' # name /\ name'.srv = name.srv => name'.id > name.id]_vars

\* A device with no pairing keeps no manifest, in memory or on the flash, even
\* when the unpairing lands in the middle of a round that applies one: the next
\* start would put the rules of a server back that the device left (applyRules,
\* Restore).  The types are part of it.
NoManifestUnpaired ==
    TypeOK /\ \A st \in {mem, disk} : st.fleet # None => st.srv # None

\* An Unpair in the middle of a round is not undone by it: once no round is
\* under way, a device with no pairing uses the rules of the TOML (stale).
UnpairHolds == round.pc = "idle" /\ mem.srv = None => rules = None

\* The release that the syncer names belongs to the server of the pairing, once
\* no round is under way (clearFleet).
ReleaseOfPairing == round.pc = "idle" => release \in {None, mem.srv}

\* Only the refusal of its own token takes a pairing away (dropToken).
RefusalIsOwn ==
    [][round.pc = "refused" /\ round'.pc = "forget" /\ mem.srv # None
         => mem.token = round.token]_vars

-----------------------------------------------------------------------------
(***************************************************************************)
(* The inductive invariants behind them.                                   *)
(***************************************************************************)
\* The first ID of the round was delivered, and the round knows its server.
InCommand == round.pc \in {"early", "ender", "mark"}

RoundShape ==
    /\ round.pc # "idle" => round.srv \in Servers
    /\ round.pc \in {"idle", "fetch", "refused", "forget"} => round.todo = {} /\ round.acks = {}
    /\ InCommand => round.todo # {}
    /\ round.pc \in {"early", "ender"} => endsTheProcess(FirstKind)

\* An ID that the server uses, or that a round carries, was given out.
IdsAreOld ==
    /\ \A s \in Servers, i \in Ids :
         /\ rows[s][i].state # "none" => i < nextId[s] /\ device[s].known
         /\ kinds[s][i] # "local" => i < nextId[s]
         /\ round.srv = s /\ i \in round.todo \cup round.acks => i < nextId[s]

\* A row, or an answer under way, that may still make the device run command i.
Live(s, i) == Waiting(rows[s][i]) \/ (round.srv = s /\ i \in round.todo)

IsRename(s, i) == i \in Ids /\ kinds[s][i] = "rename"

\* The rename that waits is the newest one, and no rename that may still run is
\* older than the name.
RenamesAreNew ==
    \A s \in Servers :
        /\ \A k, i \in Ids :
             Waiting(rows[s][k]) /\ IsRename(s, k) /\ IsRename(s, i) => i <= k
        /\ name.srv = s => /\ IsRename(s, name.id)
                           /\ \A i \in Ids : Live(s, i) /\ IsRename(s, i) => name.id <= i

RenameInv == NoManifestUnpaired /\ RoundShape /\ IdsAreOld /\ RenamesAreNew

\* Nobody unpairs the device by hand: a round works for the pairing it began with.
NoUnpair == "unpair" \notin Events

RoundIsOwn == round.pc \notin {"idle", "forget"} => mem.srv = round.srv

RunsFirst(s, i) == kinds[s][i] \in {"local", "rename"}

\* What is marked in the state, and what the round acknowledges, ran.
MarkedRan ==
    /\ \A st \in {mem, disk}, s \in Servers, i \in Ids :
         st.srv = s /\ InList(i, st.commands) =>
            i < nextId[s] /\ (RunsFirst(s, i) => ran[s][i] > 0)
    /\ \A s \in Servers, i \in Ids :
         round.srv = s /\ RunsFirst(s, i) /\ i \in round.acks => ran[s][i] > 0
    /\ round.pc = "mark" => ran[round.srv][FirstId] > 0

AckedInv == RenameInv /\ RoundIsOwn /\ MarkedRan /\ AckedRan

\* Every save works, the device leaves a server only when that refuses it, and it
\* does not come back to a row that it had; it remembers all commands.
Steady == Events \cap {"save", "unpair", "rejoin"} = {} /\ MaxId <= MaxCommands

\* A reboot or an update that ran and that the pairing may bring again is marked.
EndersAreMarked ==
    /\ \A s \in Servers, i \in Ids :
         endsTheProcess(kinds[s][i]) /\ ran[s][i] > 0 /\ mem.srv = s /\ Live(s, i)
            => InList(i, mem.commands)
    /\ round.pc \in {"early", "ender"} =>
         InList(FirstId, mem.commands) /\ ran[round.srv][FirstId] = 0

\* The state file is what memory says, and the list of marks has no ID twice.
SavedState ==
    /\ mem = disk
    /\ \A j, k \in 1..Len(mem.commands) : mem.commands[j] = mem.commands[k] => j = k

EndersInv == AckedInv /\ SavedState /\ EndersAreMarked /\ EndersRunOnce
=============================================================================
