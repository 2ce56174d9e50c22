---------------------------- MODULE Enrollment ----------------------------
(***************************************************************************)
(* Enrollment: the identity rules of the server (internal/server/db,       *)
(* enroll.go, tokens.go, devices.go and hardwareRules of heartbeat.go) and *)
(* the pairing half of the device (internal/device/syncer/pair.go and Once *)
(* of syncer.go).                                                          *)
(*                                                                         *)
(* The hard case is modelled: several machines that ask to be ONE device   *)
(* ID, because a card was copied or moved, or because a box was replaced.  *)
(* A request is one transaction on the server.  The device holds pairMu    *)
(* from the request to the save of the answer, so both are one step here,  *)
(* and the answer may be lost on the way.  What a round of the sync loop   *)
(* read before it took pairMu can be old when it uses it.                  *)
(*                                                                         *)
(* Device tokens and claim secrets are numbers, 0 for none.  The pairing   *)
(* code stands for the row of its request.  Names, groups, addresses and   *)
(* versions are left out.                                                  *)
(***************************************************************************)
EXTENDS Integers, FiniteSets

CONSTANTS
    Machines,      \* the boxes, each with its hardware ID
    NoMachine,     \* no hardware ID
    WithToken,     \* the machines whose TOML has the enrollment token
    TokenModes,    \* the modes that this token may have: "auto", "pending"
    MaxUses,       \* max_uses of that token
    maxPending,    \* how many requests may wait (the code says 200)
    EnrollEvents,  \* which of the events below the environment uses
    MaxEvents,     \* bound: how many of these events happen
    MaxSecrets     \* bound: how many tokens and claim secrets are made

VARIABLES
    \* On the server.
    row,       \* the row of the device ID in the table devices
    reqs,      \* the rows of pending_enrollments
    etok,      \* the enrollment token: [mode, uses, revoked]
    \* On the devices.
    card,      \* of each machine: state.json and [server] of the TOML
    round,     \* of each machine: the round of the sync loop
    \* The admin and the history.
    seen,      \* the request that the admin has on the screen
    approvedFor, \* the machines whose request the admin saw and approved
    granted,   \* the machine that got the last token
    copied,    \* a card was copied to another machine
    secret,    \* the next secret
    events     \* how many events there were

serverVars == <<row, reqs, etok>>
deviceVars == <<card, round>>
vars == <<serverVars, deviceVars, seen, approvedFor, granted, copied, secret, events>>

Etok == 0 - 1     \* the enrollment token, next to the numbered secrets
NoRequest == 0    \* the admin looks at no request

NoRow ==
    [exists |-> FALSE, token |-> 0, paired |-> FALSE, hw |-> NoMachine,
     pend |-> NoMachine, fresh |-> FALSE, conflict |-> NoMachine]

NewCard == [token |-> 0, claim |-> 0, url |-> TRUE, revoked |-> FALSE]
Idle == [pc |-> "idle", sent |-> 0]

Init ==
    /\ row = NoRow
    /\ reqs = {}
    /\ etok \in [mode : TokenModes, uses : {0}, revoked : {FALSE}]
    /\ card = [m \in Machines |-> NewCard]
    /\ round = [m \in Machines |-> Idle]
    /\ seen = [id |-> NoRequest, hw |-> NoMachine]
    /\ approvedFor = {}
    /\ granted = NoMachine
    /\ copied = FALSE
    /\ secret = 1
    /\ events = 0

Spend(n) ==
    /\ events + n <= MaxEvents
    /\ events' = events + n

Event(e) == e \in EnrollEvents /\ Spend(1)

-----------------------------------------------------------------------------
(***************************************************************************)
(* POST /api/v1/enroll on the server.  Each operator gives the tables after *)
(* the transaction, the status of the answer and the secret in it.         *)
(***************************************************************************)
\* sweepPending: the requests that have not outlived their time.
sweepPending == {r \in reqs : ~r.old}

Rollback(status) ==
    [row |-> row, reqs |-> reqs, uses |-> etok.uses, status |-> status, secret |-> 0]

\* The row of this device ID was paired before.
Taken == row.exists /\ row.paired

touchEnrolled(r, m) == [r EXCEPT !.hw = IF @ = NoMachine THEN m ELSE @]

\* upsertDevice: a row that was ever paired stays as it is.
upsertDevice(r, m) ==
    IF r.exists /\ r.paired THEN r
    ELSE [r EXCEPT !.exists = TRUE, !.hw = m]

\* A mutant: only the request that the machine collects goes away.
pairRowKeeping(r, m, u) ==
    [row |-> [touchEnrolled(r, m) EXCEPT !.token = secret, !.paired = TRUE,
                !.pend = NoMachine, !.fresh = FALSE, !.conflict = NoMachine],
     reqs |-> {q \in sweepPending : q.hw # m}, uses |-> u,
     status |-> "paired", secret |-> secret]

\* pairRow: the new token, the flags, and no request of this device ID stays.
pairRow(r, m, u) ==
    [row |-> [touchEnrolled(r, m) EXCEPT !.token = secret, !.paired = TRUE,
                !.pend = NoMachine, !.fresh = FALSE, !.conflict = NoMachine],
     reqs |-> {}, uses |-> u, status |-> "paired", secret |-> secret]

\* A mutant: any waiting request of the device ID is taken again.
MineOfAny(m) == {r \in sweepPending : ~r.approved}

Mine(m) == {r \in sweepPending : r.hw = m /\ ~r.approved}

\* makePending: the waiting request of the same machine keeps its row and its
\* code and takes a new claim secret; another one needs room in the list.
makePending(m, collides, u) ==
    LET new(id, old) == [id |-> id, claim |-> secret, hw |-> m, collides |-> collides,
                         approved |-> FALSE, old |-> old]
        made(set) == [row |-> row, reqs |-> set, uses |-> u,
                      status |-> "pending", secret |-> secret]
    IN  IF Mine(m) # {}
        THEN LET r == CHOOSE q \in Mine(m) : \A p \in Mine(m) : q.id <= p.id
             IN  made((sweepPending \ {r}) \cup {new(r.id, r.old)})
        ELSE IF Cardinality({r \in sweepPending : ~r.approved}) >= maxPending
        THEN Rollback("error")
        ELSE made(sweepPending \cup {new(secret, FALSE)})

\* answerClaim: the machine asks again for its request r.
answerClaim(r, m) ==
    IF ~r.approved
    THEN [row |-> row, reqs |-> sweepPending, uses |-> etok.uses,
          status |-> "pending", secret |-> r.claim]
    ELSE IF row.exists THEN pairRow(row, m, etok.uses)
    ELSE Rollback("error")

\* enrollWithEnrollmentToken, after the use is counted: rules R2 and R3.
enrollWithEnrollmentToken(m) ==
    CASE Taken /\ etok.mode = "auto" /\ row.hw = m ->
            pairRow(row, m, etok.uses + 1)
      [] Taken /\ ~(etok.mode = "auto" /\ row.hw = m) ->
            makePending(m, TRUE, etok.uses + 1)
      [] ~Taken /\ etok.mode = "auto" ->
            pairRow(upsertDevice(row, m), m, etok.uses + 1)
      [] OTHER -> makePending(m, FALSE, etok.uses + 1)

\* Enroll: machine m sends s: a device token, a claim secret, the enrollment
\* token or nothing.
Enroll(m, s) ==
    LET claims == {r \in sweepPending : r.claim = s}
    IN  CASE s = 0 -> makePending(m, Taken, etok.uses)
          [] s = Etok -> IF etok.revoked \/ etok.uses >= MaxUses
                         THEN Rollback("revoked")
                         ELSE enrollWithEnrollmentToken(m)
          [] s > 0 /\ s = row.token ->
                [row |-> touchEnrolled(row, m), reqs |-> sweepPending,
                 uses |-> etok.uses, status |-> "paired", secret |-> s]
          [] s > 0 /\ s # row.token /\ claims # {} ->
                answerClaim(CHOOSE r \in claims : TRUE, m)
          [] OTHER -> Rollback("revoked")

-----------------------------------------------------------------------------
(***************************************************************************)
(* The device.                                                             *)
(***************************************************************************)
TomlToken(m) == IF m \in WithToken THEN Etok ELSE 0

\* A mutant: a claim that the server does not know stays on the card.
takeEnrollmentKeeping(c, by, res) ==
    CASE res.status = "paired" -> [c EXCEPT !.token = res.secret, !.claim = 0]
      [] res.status = "pending" -> [c EXCEPT !.claim = res.secret]
      [] res.status = "revoked" /\ by = "loop" -> [c EXCEPT !.revoked = TRUE]
      [] OTHER -> c

\* takeEnrollment, and what claimRound and Once make of a refusal.
takeEnrollment(c, by, res) ==
    CASE res.status = "paired" -> [c EXCEPT !.token = res.secret, !.claim = 0]
      [] res.status = "pending" -> [c EXCEPT !.claim = res.secret]
      [] res.status = "revoked" /\ by = "claim" -> [c EXCEPT !.claim = 0]
      [] res.status = "revoked" /\ by = "loop" -> [c EXCEPT !.revoked = TRUE]
      [] OTHER -> c

\* After a pairing by hand SaveServer writes the TOML and ends a refusal.
SaveServer(c, by, res) ==
    IF by = "person" /\ res.status \in {"paired", "pending"}
    THEN [c EXCEPT !.url = TRUE, !.revoked = FALSE]
    ELSE c

\* postEnroll: the answer of Enroll and what it wrote.  The limiters of the route
\* only turn requests away, and a device asks again.
postEnroll(m, res) ==
    LET new == res.secret = secret
    IN  /\ secret <= MaxSecrets
        /\ row' = res.row /\ reqs' = res.reqs /\ etok' = [etok EXCEPT !.uses = res.uses]
        /\ secret' = IF new THEN secret + 1 ELSE secret
        /\ granted' = IF new /\ res.status = "paired" THEN m ELSE granted

\* The request and its answer, or the request with the answer lost (the
\* network, a power cut, a state file that cannot be written).
Exchange(m, s, by) ==
    /\ LET res == Enroll(m, s)
           cost == IF by = "person" THEN 1 ELSE 0
       IN  /\ postEnroll(m, res)
           /\ \/ /\ card' = [card EXCEPT ![m] =
                        SaveServer(takeEnrollment(@, by, res), by, res)]
                 /\ Spend(cost)
              \/ "lose" \in EnrollEvents /\ Spend(cost + 1) /\ UNCHANGED card
    /\ UNCHANGED <<seen, approvedFor, copied>>

\* Once: one pass of the sync loop reads the card and decides what to do.
Once(m) ==
    /\ round[m] = Idle
    /\ LET c == card[m]
       IN  \/ /\ c.token # 0
              /\ round' = [round EXCEPT ![m] = [pc |-> "poll", sent |-> c.token]]
           \/ /\ c.token = 0 /\ c.claim # 0
              /\ round' = [round EXCEPT ![m] = [pc |-> "claim", sent |-> c.claim]]
           \/ /\ c.token = 0 /\ c.claim = 0 /\ c.url
              /\ c.revoked => m \in WithToken
              /\ round' = [round EXCEPT ![m] = [pc |-> "pair", sent |-> TomlToken(m)]]
    /\ UNCHANGED <<serverVars, card, seen, approvedFor, granted, copied, secret, events>>

Done(m) == round' = [round EXCEPT ![m] = Idle]

\* claimRound: it asks with the claim that Once read.
claimRound(m) ==
    /\ round[m].pc = "claim"
    /\ Exchange(m, round[m].sent, "claim")
    /\ Done(m)

\* What Pair sends: a claim that waits goes before an empty token.
OnWire(m, s) == IF s = 0 /\ card[m].claim # 0 THEN card[m].claim ELSE s

\* Pair of the sync loop.  It looks at the state again under pairMu.
Pair(m) ==
    /\ round[m].pc = "pair"
    /\ \/ card[m].token # 0 /\ UNCHANGED <<serverVars, card, seen, approvedFor,
                                           granted, copied, secret, events>>
       \/ card[m].token = 0 /\ Exchange(m, OnWire(m, round[m].sent), "loop")
    /\ Done(m)

\* POST /api/pair: a person types the address of the server.
PairByHand(m) ==
    /\ "person" \in EnrollEvents
    /\ card[m].token = 0
    /\ ~card[m].url \/ card[m].revoked
    /\ Exchange(m, OnWire(m, TomlToken(m)), "person")
    /\ UNCHANGED round

\* Unpair clears the TOML and the state.  It does not tell the server.
Unpair(m) ==
    /\ Event("unpair")
    /\ card' = [card EXCEPT ![m] = [NewCard EXCEPT !.url = FALSE]]
    /\ UNCHANGED <<serverVars, round, seen, approvedFor, granted, copied, secret>>

\* hardwareRules of a heartbeat of machine m.
hardwareRules(r, m) ==
    CASE r.hw = NoMachine -> [r EXCEPT !.hw = m]
      [] r.hw # NoMachine /\ r.pend \notin {NoMachine, m} /\ r.fresh ->
            [r EXCEPT !.conflict = IF m = r.hw THEN r.pend ELSE m]
      [] r.hw = m /\ ~(r.pend \notin {NoMachine, m} /\ r.fresh) ->
            [r EXCEPT !.pend = NoMachine, !.fresh = FALSE]
      [] OTHER -> [r EXCEPT !.pend = m, !.fresh = TRUE]

\* pollRound with the token that Once read: the server knows it, and the
\* heartbeat follows; or it refuses it, and dropToken is next.
pollRound(m) ==
    /\ round[m].pc = "poll"
    /\ \/ /\ row.token = round[m].sent
          /\ row' = hardwareRules(row, m)
          /\ Done(m)
       \/ /\ row.token # round[m].sent
          /\ round' = [round EXCEPT ![m].pc = "drop"]
          /\ UNCHANGED row
    /\ UNCHANGED <<reqs, etok, card, seen, approvedFor, granted,
                   copied, secret, events>>

\* dropToken and refuseToken: the card forgets its pairing, whatever is on it
\* by now.
dropToken(m) ==
    /\ round[m].pc = "drop"
    /\ card' = [card EXCEPT ![m].token = 0, ![m].claim = 0, ![m].revoked = TRUE]
    /\ Done(m)
    /\ UNCHANGED <<serverVars, seen, approvedFor, granted, copied, secret, events>>

-----------------------------------------------------------------------------
(***************************************************************************)
(* The admin of the server.                                                *)
(***************************************************************************)
\* The list of waiting requests is on the screen of the admin, who picks one.
AdminLooks ==
    /\ seen.id = NoRequest
    /\ \E r \in reqs :
        /\ ~r.approved
        /\ seen' = [id |-> r.id, hw |-> r.hw]
    /\ UNCHANGED <<serverVars, deviceVars, approvedFor, granted, copied, secret, events>>

AdminIsDone == seen' = [id |-> NoRequest, hw |-> NoMachine]

\* ApprovePending of the row that the admin saw.  It may be gone.
Approved(r) ==
    LET d == upsertDevice(row, r.hw)
    IN  IF r.collides
        THEN [d EXCEPT !.token = 0, !.hw = r.hw, !.pend = NoMachine,
                       !.fresh = FALSE, !.conflict = NoMachine]
        ELSE d

ApprovePending ==
    /\ seen.id # NoRequest
    /\ \/ \E r \in reqs :
            /\ r.id = seen.id /\ ~r.approved
            /\ row' = Approved(r)
            /\ reqs' = (reqs \ {r}) \cup {[r EXCEPT !.approved = TRUE, !.old = FALSE]}
            /\ approvedFor' = approvedFor \cup {seen.hw}
       \/ /\ ~ \E r \in reqs : r.id = seen.id /\ ~r.approved
          /\ UNCHANGED <<row, reqs, approvedFor>>
    /\ AdminIsDone
    /\ UNCHANGED <<etok, deviceVars, granted, copied, secret, events>>

RejectedRow(left) == IF row.paired \/ left # {} THEN row ELSE NoRow

\* RejectPending, of a request that waits or that was approved since.
RejectPending ==
    /\ Event("reject")
    /\ \E r \in reqs :
        /\ reqs' = reqs \ {r}
        /\ row' = RejectedRow(reqs \ {r})
    /\ UNCHANGED <<etok, deviceVars, seen, approvedFor, granted,
                   copied, secret>>

DeleteDevice ==
    /\ Event("delete")
    /\ row.exists
    /\ row' = NoRow /\ reqs' = {}
    /\ UNCHANGED <<etok, deviceVars, seen, approvedFor, granted,
                   copied, secret>>

ConfirmHardware ==
    /\ row.pend # NoMachine
    /\ row' = [row EXCEPT !.hw = row.pend, !.pend = NoMachine, !.fresh = FALSE]
    /\ UNCHANGED <<reqs, etok, deviceVars, seen, approvedFor, granted,
                   copied, secret, events>>

ResolveConflict ==
    /\ row.conflict # NoMachine
    /\ row' = [row EXCEPT !.conflict = NoMachine, !.token = 0,
                          !.pend = NoMachine, !.fresh = FALSE]
    /\ UNCHANGED <<reqs, etok, deviceVars, seen, approvedFor, granted,
                   copied, secret, events>>

RevokeEnrollToken ==
    /\ Event("revoke")
    /\ ~etok.revoked
    /\ etok' = [etok EXCEPT !.revoked = TRUE]
    /\ UNCHANGED <<row, reqs, deviceVars, seen, approvedFor, granted,
                   copied, secret>>

-----------------------------------------------------------------------------
(***************************************************************************)
(* Time and people with cards.                                             *)
(***************************************************************************)
\* A request outlives pendingLife or approvedLife.
GrowsOld ==
    /\ Event("age")
    /\ \E r \in reqs :
        /\ ~r.old
        /\ reqs' = (reqs \ {r}) \cup {[r EXCEPT !.old = TRUE]}
    /\ UNCHANGED <<row, etok, deviceVars, seen, approvedFor, granted,
                   copied, secret>>

\* The daily SweepPending of the server.
SweepPending ==
    /\ reqs' = sweepPending
    /\ UNCHANGED <<row, etok, deviceVars, seen, approvedFor, granted, copied,
                   secret, events>>

\* cloneWindow is over.
WindowEnds ==
    /\ row.fresh
    /\ row' = [row EXCEPT !.fresh = FALSE]
    /\ UNCHANGED <<reqs, etok, deviceVars, seen, approvedFor, granted,
                   copied, secret, events>>

\* The card of machine m is copied for machine n, which starts with it.  The
\* bound counts it as two events.
CopyCard(m, n) ==
    /\ "copy" \in EnrollEvents /\ Spend(2)
    /\ m # n
    /\ card' = [card EXCEPT ![n] = card[m]]
    /\ round' = [round EXCEPT ![n] = Idle]
    /\ copied' = TRUE
    /\ UNCHANGED <<serverVars, seen, approvedFor, granted, secret>>

\* The card of machine m is written again: its state is gone.
Reflash(m) ==
    /\ Event("reflash")
    /\ card' = [card EXCEPT ![m] = NewCard]
    /\ round' = [round EXCEPT ![m] = Idle]
    /\ UNCHANGED <<serverVars, seen, approvedFor, granted, copied, secret>>

Loop(m) == Once(m) \/ claimRound(m) \/ Pair(m) \/ pollRound(m) \/ dropToken(m)

Next ==
    \/ \E m \in Machines :
        \/ Once(m) \/ claimRound(m) \/ Pair(m) \/ pollRound(m) \/ dropToken(m)
        \/ PairByHand(m) \/ Unpair(m) \/ Reflash(m)
        \/ \E n \in Machines : CopyCard(m, n)
    \/ AdminLooks \/ ApprovePending \/ RejectPending \/ DeleteDevice
    \/ ConfirmHardware \/ ResolveConflict \/ RevokeEnrollToken
    \/ GrowsOld \/ SweepPending \/ WindowEnds

Spec == Init /\ [][Next]_vars

\* The sync loop of each machine runs, and the admin answers the list.
Fairness ==
    /\ \A m \in Machines : WF_vars(Loop(m))
    /\ WF_vars(AdminLooks \/ ApprovePending)

-----------------------------------------------------------------------------
(***************************************************************************)
(* Properties.                                                             *)
(***************************************************************************)
Rows == [exists : BOOLEAN, token : 0..MaxSecrets, paired : BOOLEAN,
         hw : Machines \cup {NoMachine}, pend : Machines \cup {NoMachine},
         fresh : BOOLEAN, conflict : Machines \cup {NoMachine}]
Requests == [id : 1..MaxSecrets, claim : 1..MaxSecrets, hw : Machines,
             collides : BOOLEAN, approved : BOOLEAN, old : BOOLEAN]
Cards == [token : 0..MaxSecrets, claim : 0..MaxSecrets, url : BOOLEAN, revoked : BOOLEAN]

TypeOK ==
    /\ row \in Rows
    /\ reqs \subseteq Requests
    /\ etok \in [mode : TokenModes, uses : 0..MaxUses, revoked : BOOLEAN]
    /\ copied \in BOOLEAN
    /\ card \in [Machines -> Cards]
    /\ round \in [Machines -> [pc : {"idle", "poll", "claim", "pair", "drop"},
                               sent : Etok..MaxSecrets]]
    /\ seen \in [id : 0..MaxSecrets, hw : Machines \cup {NoMachine}]
    /\ approvedFor \subseteq Machines
    /\ granted \in Machines \cup {NoMachine}
    /\ secret \in 1..(MaxSecrets + 1)
    /\ events \in 0..MaxEvents

\* What a request says about a collision is never out of date: a request was
\* made after the row was paired if and only if it is marked.  An approval
\* depends on it: only a marked one takes the token of the old machine away.
CollisionsMarked == \A r \in reqs : r.collides <=> Taken

\* A machine that was approved can collect its token: its row is there,
\* whatever was rejected in between.
ApprovedHasRow == \A r \in reqs : r.approved => row.exists

\* Rule R1 over the whole dialogue: the token of a row that was ever paired
\* goes to a machine only when the admin saw and approved a request with its
\* hardware ID, or when it has the automatic token and the hardware ID of the
\* row.  A copied card is excused.
PairedRowIsKept ==
    row.paired /\ row'.token \notin {0, row.token} /\ ~copied =>
        \/ granted' \in approvedFor
        \/ granted' \in WithToken /\ etok.mode = "auto" /\ row.hw = granted' 

Working(m) == card[m].token # 0 /\ card[m].token = row.token
Answered(m) == Working(m) \/ card[m].revoked \/ ~card[m].url

\* No machine waits for ever: with an admin who answers the list, a machine
\* that has a server ends paired or knows that it was refused, although
\* answers are lost after the server has used up the claim.
NoneWaitsForEver == \A m \in Machines : <>[]Answered(m)

\* The safety of the tables: types, and the two statements above.
RequestsAreSound == TypeOK /\ CollisionsMarked /\ ApprovedHasRow

-----------------------------------------------------------------------------
(***************************************************************************)
(* The inductive invariant behind RequestsAreSound and PairedRowIsKept.    *)
(***************************************************************************)
PairedHasRow == row.paired => row.exists

\* A machine has one waiting request at the most, and an id is of one machine.
OneWaits ==
    \A p, q \in reqs :
        /\ p.hw = q.hw /\ ~p.approved /\ ~q.approved => p = q
        /\ p.id = q.id => p.hw = q.hw

\* What the admin has on the screen is what the row of that id says, and an
\* approved request was on it.
AdminSaw ==
    \A r \in reqs :
        /\ r.id = seen.id => r.hw = seen.hw
        /\ r.approved => r.hw \in approvedFor

\* The secrets that machine m has on its card or on the wire.
Holds(m) == {card[m].token, card[m].claim, round[m].sent}

\* Every secret was made before the next one.
SecretsAreOld ==
    /\ \A r \in reqs : r.id < secret /\ r.claim < secret
    /\ \A m \in Machines : \A s \in Holds(m) : s < secret
    /\ seen.id < secret

\* Without a copied card, the claim of a request is known to its machine only;
\* the enrollment token is sent by a machine that has it.
SecretsAreOwn ==
    \A m \in Machines :
        /\ ~copied => \A r \in reqs : r.claim \in Holds(m) => r.hw = m
        /\ round[m].sent = Etok => m \in WithToken

EnrollInv ==
    /\ RequestsAreSound /\ PairedHasRow /\ OneWaits /\ AdminSaw
    /\ SecretsAreOld /\ SecretsAreOwn
=============================================================================
