---------------------------- MODULE FleetProofs ----------------------------
(***************************************************************************)
(* Theorems about the command queue of the fleet, for every number of      *)
(* servers, commands, deliveries, pairings and faults.                     *)
(***************************************************************************)
EXTENDS FleetCommands, FiniteSetTheorems, SequenceTheorems, WellFoundedInduction, TLAPS

-----------------------------------------------------------------------------
(* Operators.                                                              *)

\* A set of numbers has a least one: the sets of its elements up to x are finite, and
\* the strict subset order on those is well founded.
LEMMA LeastOf ==
    ASSUME NEW S \in SUBSET Nat, S # {}
    PROVE  \E x \in S : \A y \in S : x <= y
<1> DEFINE Below(x) == {k \in S : k <= x}
           F == {Below(x) : x \in S}
<1>1. \A x \in S : Below(x) \in FiniteSubsetsOf(S)
  <2> TAKE x \in S
  <2>1. IsFiniteSet(Below(x))
    <3>1. Below(x) \in SUBSET Nat /\ x \in Nat /\ \A s \in Below(x) : s <= x
      OBVIOUS
    <3> HIDE DEF Below
    <3> QED BY <3>1, FS_BoundedSetOfNaturals
  <2> QED BY <2>1 DEF FiniteSubsetsOf
<1>2. IsWellFoundedOn(StrictSubsetOrdering(S), FiniteSubsetsOf(S))
  BY FS_StrictSubsetOrderingWellFounded
<1>3. PICK T \in F : \A U \in F : ~(<<U, T>> \in StrictSubsetOrdering(S))
  <2>1. F \subseteq FiniteSubsetsOf(S) /\ F # {}
    BY <1>1
  <2> HIDE DEF F
  <2> QED BY <1>2, <2>1, WFMin
<1>4. PICK x \in S : T = Below(x)
  OBVIOUS
<1> HIDE DEF F
<1>5. ASSUME NEW y \in S, y < x PROVE FALSE
  <2>0. x \in Nat /\ y \in Nat /\ \A k \in S : k \in Nat
    OBVIOUS
  <2>1. Below(y) \in SUBSET S /\ T \in SUBSET S
    BY <1>4
  <2>2. Below(y) \subseteq Below(x) /\ x \in Below(x) /\ x \notin Below(y)
    <3>1. ~(x <= y) /\ x <= x /\ \A k \in S : k <= y => k <= x
      BY <1>5, <2>0
    <3>2. x \in Below(x) /\ x \notin Below(y)
      BY <3>1
    <3>3. Below(y) \subseteq Below(x)
      BY <3>1
    <3> QED BY <3>2, <3>3
  <2>3. Below(y) # T
    BY <1>4, <2>2
  <2>4. <<Below(y), T>> \in StrictSubsetOrdering(S)
    BY <1>4, <2>1, <2>2, <2>3 DEF StrictSubsetOrdering
  <2> QED BY <1>3, <2>4 DEF F
<1> QED BY <1>5

\* runCommands takes the lowest ID of its list.
LEMMA FirstIdIs ==
    ASSUME round.todo \in SUBSET Ids, round.todo # {}
    PROVE  FirstId \in round.todo /\ FirstId \in Ids /\ \A j \in round.todo : FirstId <= j
<1>1. \E i \in round.todo : \A j \in round.todo : i <= j
  <2>1. round.todo \in SUBSET Nat
    BY FleetAssumption DEF Ids
  <2> QED BY <2>1, LeastOf
<1> QED BY <1>1 DEF FirstId

\* What MarkCommand does to a state: one ID more in the list, and never more than
\* MaxCommands of them.
Good(st) == /\ st \in States /\ Len(st.commands) <= MaxCommands
            /\ st.fleet # None => st.srv # None

\* MarkCommand puts one id on the list of handled commands and drops the oldest ones.
LEMMA MarkIs ==
    ASSUME NEW st, Good(st), NEW id \in Ids
    PROVE  /\ Good(MarkCommand(st, id))
           /\ MarkCommand(st, id).srv = st.srv
           /\ \A i \in Ids : InList(i, MarkCommand(st, id).commands) =>
                                i = id \/ InList(i, st.commands)
           /\ MarkCommand(st, id) # st => \E k \in 1..Len(MarkCommand(st, id).commands) :
                                                MarkCommand(st, id).commands[k] = id
<1> DEFINE longer == Append(st.commands, id)
           from == IF Len(longer) > MaxCommands THEN 2 ELSE 1
           list == SubSeq(longer, from, Len(longer))
           new == [st EXCEPT !.commands = list]
<1>1. st.commands \in Seq(Ids) /\ Len(st.commands) \in Nat /\ Len(st.commands) <= MaxCommands
  BY DEF Good, States
<1>2. CASE InList(id, st.commands)
  <2>1. MarkCommand(st, id) = st
    BY <1>2 DEF MarkCommand
  <2> QED BY <2>1
<1>3. CASE ~InList(id, st.commands)
  <2>1. MarkCommand(st, id) = new
    BY <1>3 DEF MarkCommand
  <2>2. /\ longer \in Seq(Ids) /\ Len(longer) = Len(st.commands) + 1
        /\ longer[Len(longer)] = id
        /\ \A k \in 1..Len(st.commands) : longer[k] = st.commands[k]
    BY <1>1
  <2>3. /\ list \in Seq(Ids) /\ Len(list) = Len(longer) - from + 1
        /\ \A k \in 1..Len(list) : list[k] = longer[k + from - 1]
    <3>1. from \in 1..(Len(longer) + 1) /\ Len(longer) \in (from - 1)..Len(longer)
      BY <1>1, <2>2, FleetAssumption
    <3> HIDE DEF longer, from
    <3>2. /\ list \in Seq(Ids) /\ Len(list) = Len(longer) - from + 1
          /\ \A k \in 1..(Len(longer) - from + 1) : list[k] = longer[from + k - 1]
      BY <2>2, <3>1, SubSeqProperties
    <3> HIDE DEF list
    <3> QED BY <2>2, <3>1, <3>2
  <2>4. Len(list) <= MaxCommands /\ list[Len(list)] = id /\ Len(list) \in 1..Len(list)
    <3>1. /\ Len(longer) \in Nat /\ Len(longer) <= MaxCommands + 1 /\ MaxCommands \in Nat \ {0}
          /\ Len(longer) >= 1
          /\ from = IF Len(longer) > MaxCommands THEN 2 ELSE 1
      BY <1>1, <2>2, FleetAssumption
    <3> HIDE DEF list, longer, from
    <3>2. Len(list) \in Nat /\ Len(list) >= 1 /\ Len(list) <= MaxCommands
          /\ Len(list) + from - 1 = Len(longer)
      BY <2>3, <3>1
    <3>3. Len(list) \in 1..Len(list)
      BY <3>2
    <3>4. list[Len(list)] = longer[Len(list) + from - 1]
      BY <2>3, <3>3
    <3> QED BY <2>2, <3>2, <3>3, <3>4
  <2>5. \A k \in 1..Len(list) : list[k] = id \/ InList(list[k], st.commands)
    <3>1. Len(st.commands) \in Nat /\ Len(longer) \in Nat /\ from \in {1, 2}
      BY <1>1, <2>2
    <3> HIDE DEF list, longer, from
    <3> TAKE k \in 1..Len(list)
    <3>2. PICK j \in 1..Len(longer) : list[k] = longer[j]
      <4>1. k + from - 1 \in 1..Len(longer)
        BY <2>3, <3>1
      <4> QED BY <2>3, <4>1
    <3>3. CASE j = Len(longer)
      BY <2>2, <3>2, <3>3
    <3>4. CASE j # Len(longer)
      <4>1. j \in 1..Len(st.commands)
        BY <2>2, <3>1, <3>4
      <4>2. list[k] = st.commands[j]
        BY <2>2, <3>2, <4>1
      <4> QED BY <4>1, <4>2 DEF InList
    <3> QED BY <3>3, <3>4
  <2> HIDE DEF list
  <2>6. new \in States /\ new.commands = list /\ new.srv = st.srv /\ new.fleet = st.fleet
    BY <2>3 DEF Good, States
  <2> HIDE DEF new
  <2> QED BY <2>1, <2>4, <2>5, <2>6 DEF Good, InList
<1> QED BY <1>2, <1>3

-----------------------------------------------------------------------------
(* Types, and no manifest without a pairing.                               *)

Typed == TypeOK /\ RoundShape /\ Good(mem) /\ Good(disk)

\* updateState: memory takes the new state, and the file that or nothing.
LEMMA SaveIs ==
    ASSUME Good(mem), Good(disk), TypeOK, NEW new, Good(new), NEW ok \in BOOLEAN,
           SaveState(new, ok)
    PROVE  /\ mem' = new /\ Good(mem') /\ Good(disk') /\ faults' \in 0..MaxFaults
           /\ disk' = new \/ (disk' = disk /\ "save" \in Events)
BY FleetAssumption DEF SaveState, Fault, TypeOK

\* A bounded event stays in its bound.
LEMMA FaultIs ==
    ASSUME TypeOK, NEW kind, Fault(kind) PROVE faults' \in 0..MaxFaults /\ kind \in Events
BY FleetAssumption DEF Fault, TypeOK

\* The types hold at the start.
LEMMA TypedInit == Init => Typed
<1> SUFFICES ASSUME Init PROVE Typed
  OBVIOUS
<1> USE FleetAssumption DEF Init, Idle, Standalone, NoRow
<1>1. Good(Standalone)
  BY DEF Good, States
<1>2. rows \in [Servers -> [Ids -> Rows]]
  BY DEF Rows, Month
<1>3. round \in Rounds /\ RoundShape
  BY DEF Rounds, RoundSteps, RoundShape, InCommand
<1>4. name \in [srv : Servers \cup {None}, id : Ids \cup {0}]
  OBVIOUS
<1>5. /\ nextId \in [Servers -> 1..(MaxId + 1)] /\ pairings \in 0..MaxPairings
      /\ faults \in 0..MaxFaults /\ ran \in [Servers -> [Ids -> 0..MaxRuns]]
  BY DEF MaxRuns
<1>6. /\ kinds \in [Servers -> [Ids -> AllKinds]]
      /\ device \in [Servers -> [known : BOOLEAN, token : Tokens \cup {0}]]
  BY DEF AllKinds
<1> QED BY <1>1, <1>2, <1>3, <1>4, <1>5, <1>6 DEF Typed, TypeOK, Good

\* QueueCommand: one new row with the next ID; of the others, at most a rename ends.
LEMMA QueueIs ==
    ASSUME TypeOK, NEW s \in Servers, NEW k \in Kinds, QueueCommand(s, k)
    PROVE  /\ nextId[s] \in Ids /\ device[s].known
           /\ UNCHANGED <<device, disk, mem, gen, release, rules, name, round, pairings, faults>>
           /\ rows' \in [Servers -> [Ids -> Rows]] /\ kinds' \in [Servers -> [Ids -> AllKinds]]
           /\ nextId' \in [Servers -> 1..(MaxId + 1)] /\ ran' \in [Servers -> [Ids -> 0..MaxRuns]]
           /\ nextId'[s] = nextId[s] + 1 /\ \A t \in Servers : t # s => nextId'[t] = nextId[t]
           /\ Waiting(rows'[s][nextId[s]]) /\ kinds'[s][nextId[s]] = k
           /\ ran'[s][nextId[s]] = 0
           /\ \A t \in Servers, i \in Ids : t # s \/ i # nextId[s] =>
                /\ kinds'[t][i] = kinds[t][i] /\ ran'[t][i] = ran[t][i]
                /\ rows'[t][i].state # "none" => rows[t][i].state # "none"
                /\ rows'[t][i].state = "acked" => rows[t][i].state = "acked"
                /\ Waiting(rows'[t][i]) => Waiting(rows[t][i])
                /\ Waiting(rows'[t][i]) /\ t = s => ~(k = "rename" /\ kinds[s][i] = "rename")
<1> DEFINE n == nextId[s]
           new(i) == IF i = n THEN NewRow
                     ELSE IF i \in Superseded(s, k) THEN [rows[s][i] EXCEPT !.state = "expired"]
                     ELSE rows[s][i]
<1>1. /\ n \in Ids /\ device[s].known
      /\ UNCHANGED <<device, disk, mem, gen, release, rules, name, round, pairings, faults>>
      /\ rows' = [rows EXCEPT ![s] = [i \in Ids |-> new(i)]]
      /\ kinds' = [kinds EXCEPT ![s] = [@ EXCEPT ![n] = k]]
      /\ nextId' = [nextId EXCEPT ![s] = n + 1]
      /\ ran' = [ran EXCEPT ![s] = [@ EXCEPT ![n] = 0]]
  BY DEF QueueCommand, NextId, deviceVars, TypeOK
<1>2. NewRow \in Rows /\ NewRow.state = "waiting"
  <2>1. NoRow \in Rows
    BY FleetAssumption DEF NoRow, Rows, Month
  <2> QED BY <2>1 DEF NewRow, Rows
<1>3. \A i \in Ids : rows[s][i] \in Rows
  BY DEF TypeOK
<1>4. \A i \in Ids : new(i) \in Rows
  BY <1>2, <1>3 DEF Rows
<1>5. \A i \in Ids : i # n =>
        /\ new(i).state # "none" => rows[s][i].state # "none"
        /\ new(i).state = "acked" => rows[s][i].state = "acked"
        /\ Waiting(new(i)) => Waiting(rows[s][i])
        /\ Waiting(new(i)) => ~(k = "rename" /\ kinds[s][i] = "rename")
  BY <1>3 DEF Superseded, Waiting, Rows
<1>6. Waiting(new(n))
  BY <1>2 DEF Waiting
<1> HIDE DEF new
<1>7. /\ rows' \in [Servers -> [Ids -> Rows]]
      /\ \A i \in Ids : rows'[s][i] = new(i)
      /\ \A t \in Servers : t # s => rows'[t] = rows[t]
  BY <1>1, <1>4 DEF TypeOK
<1>8. /\ kinds' \in [Servers -> [Ids -> AllKinds]] /\ kinds'[s][n] = k
      /\ \A t \in Servers, i \in Ids : t # s \/ i # n => kinds'[t][i] = kinds[t][i]
  BY <1>1, FleetAssumption DEF TypeOK
<1>9. /\ ran' \in [Servers -> [Ids -> 0..MaxRuns]] /\ ran'[s][n] = 0
      /\ \A t \in Servers, i \in Ids : t # s \/ i # n => ran'[t][i] = ran[t][i]
  BY <1>1, FleetAssumption DEF TypeOK, MaxRuns
<1>10. /\ nextId' \in [Servers -> 1..(MaxId + 1)] /\ nextId'[s] = nextId[s] + 1
       /\ \A t \in Servers : t # s => nextId'[t] = nextId[t]
  <2>1. n + 1 \in 1..(MaxId + 1)
    BY <1>1, FleetAssumption DEF Ids
  <2> HIDE DEF n
  <2>2. nextId' = [nextId EXCEPT ![s] = n + 1] /\ n = nextId[s]
    BY <1>1 DEF n
  <2> QED BY <2>1, <2>2 DEF TypeOK
<1> QED BY <1>1, <1>5, <1>6, <1>7, <1>8, <1>9, <1>10

\* What the other steps do to the tables of the servers: a row ends or goes, never comes
\* back, and it is acknowledged only by the round that carries its ID.
Carries(s, i) ==
    round.srv = s /\ (i \in round.acks \/ (round.pc = "early" /\ i = FirstId))

TablesKept ==
    /\ rows' \in [Servers -> [Ids -> Rows]]
    /\ device' \in [Servers -> [known : BOOLEAN, token : Tokens \cup {0}]]
    /\ kinds' = kinds /\ nextId' = nextId
    /\ \A s \in Servers, i \in Ids :
         /\ rows'[s][i].state # "none" => rows[s][i].state # "none"
         /\ rows'[s][i].state # "none" /\ device[s].known => device'[s].known
         /\ Waiting(rows'[s][i]) => Waiting(rows[s][i])
         /\ rows'[s][i].state = "acked" => rows[s][i].state = "acked" \/ Carries(s, i)

\* The expiry of a row ends a wait and starts none.
LEMMA ExpireIs ==
    ASSUME NEW r \in Rows
    PROVE  /\ Expire(r) \in Rows /\ (Waiting(Expire(r)) => Waiting(r))
           /\ Expire(r).state = "none" <=> r.state = "none"
           /\ Expire(r).state = "acked" <=> r.state = "acked"
           /\ Expire(r).deliveries = r.deliveries
BY DEF Expire, Overdue, Rows, Waiting

\* The rows of one server change, each as the statement above allows.
LEMMA OneServer ==
    ASSUME TypeOK, NEW s \in Servers, NEW new \in [Ids -> Rows],
           rows' = [rows EXCEPT ![s] = new], UNCHANGED <<kinds, nextId, device>>,
           \A i \in Ids :
             /\ new[i].state # "none" => rows[s][i].state # "none"
             /\ Waiting(new[i]) => Waiting(rows[s][i])
             /\ new[i].state = "acked" => rows[s][i].state = "acked" \/ Carries(s, i)
    PROVE  TablesKept
BY DEF TablesKept, TypeOK

\* The clock, the sweep, the admin, and the answers of the server to a round.
LEMMA ServerSteps ==
    ASSUME TypeOK, RoundShape, NEW s \in Servers,
           \/ SweepCommands(s) \/ RevokeToken(s) \/ DeleteDevice(s)
           \/ \E i \in Ids : TenMinutes(s, i) \/ GrowOld(s, i)
    PROVE  TablesKept
<1>0. \A i \in Ids : rows[s][i] \in Rows
  BY DEF TypeOK
<1>1. CASE SweepCommands(s)
  <2> DEFINE new(i) == LET r == Expire(rows[s][i])
                       IN IF r.state \in {"acked", "expired"} /\ r.age = Month THEN NoRow ELSE r
  <2>1. NoRow \in Rows /\ NoRow.state = "none"
    BY FleetAssumption DEF NoRow, Rows, Month
  <2>2. \A i \in Ids :
          /\ new(i) \in Rows
          /\ new(i).state # "none" => rows[s][i].state # "none"
          /\ Waiting(new(i)) => Waiting(rows[s][i])
          /\ new(i).state = "acked" => rows[s][i].state = "acked"
    <3> TAKE i \in Ids
    <3>1. new(i) = NoRow \/ new(i) = Expire(rows[s][i])
      OBVIOUS
    <3> HIDE DEF new
    <3> QED BY <1>0, <2>1, <3>1, ExpireIs DEF Waiting
  <2>3. rows' = [rows EXCEPT ![s] = [i \in Ids |-> new(i)]] /\ UNCHANGED <<kinds, nextId, device>>
    BY <1>1 DEF SweepCommands, TypeOK
  <2> HIDE DEF new
  <2> DEFINE all == [i \in Ids |-> new(i)]
  <2>4. all \in [Ids -> Rows] /\ \A i \in Ids : all[i] = new(i)
    BY <2>2
  <2> QED BY <2>2, <2>3, <2>4, OneServer
<1>2. CASE RevokeToken(s)
  <2>1. device' \in [Servers -> [known : BOOLEAN, token : Tokens \cup {0}]]
        /\ \A t \in Servers : device'[t].known = device[t].known
    BY <1>2 DEF RevokeToken, TypeOK
  <2> QED BY <1>2, <2>1 DEF RevokeToken, TablesKept, TypeOK
<1>3. CASE DeleteDevice(s)
  <2>1. NoRow \in Rows /\ NoRow.state = "none"
    BY FleetAssumption DEF NoRow, Rows, Month
  <2>2. /\ rows' \in [Servers -> [Ids -> Rows]]
        /\ \A i \in Ids : rows'[s][i] = NoRow
        /\ \A t \in Servers : t # s => rows'[t] = rows[t]
    BY <1>3, <2>1 DEF DeleteDevice, TypeOK
  <2>3. /\ device' \in [Servers -> [known : BOOLEAN, token : Tokens \cup {0}]]
        /\ \A t \in Servers : t # s => device'[t] = device[t]
    BY <1>3 DEF DeleteDevice, TypeOK
  <2> QED BY <1>3, <2>1, <2>2, <2>3 DEF DeleteDevice, TablesKept, Waiting
<1>4. ASSUME NEW i \in Ids, TenMinutes(s, i) \/ GrowOld(s, i) PROVE TablesKept
  <2> DEFINE r == rows[s][i]
             late == [r EXCEPT !.due = TRUE]
             old == [r EXCEPT !.age = @ + 1]
             all(x) == [rows[s] EXCEPT ![i] = x]
  <2>1. late \in Rows /\ late.state = r.state /\ old.state = r.state
    BY <1>0 DEF Rows
  <2>2. GrowOld(s, i) => old \in Rows
    BY <1>0 DEF GrowOld, Rows, Month
  <2>3. /\ rows' = [rows EXCEPT ![s] = all(late)] \/
           (GrowOld(s, i) /\ rows' = [rows EXCEPT ![s] = all(old)])
        /\ UNCHANGED <<kinds, nextId, device>>
    BY <1>4 DEF TenMinutes, GrowOld, TypeOK
  <2> HIDE DEF late, old
  <2>4. ASSUME NEW x \in Rows, x.state = r.state PROVE
          /\ all(x) \in [Ids -> Rows] /\ \A j \in Ids : all(x)[j].state = rows[s][j].state
    BY <1>0, <2>4 DEF TypeOK
  <2> HIDE DEF all
  <2>5. PICK x \in Rows : x.state = r.state /\ rows' = [rows EXCEPT ![s] = all(x)]
    BY <2>1, <2>2, <2>3
  <2>6. /\ all(x) \in [Ids -> Rows]
        /\ \A j \in Ids : /\ all(x)[j].state = rows[s][j].state
                          /\ Waiting(all(x)[j]) <=> Waiting(rows[s][j])
    BY <2>4, <2>5 DEF Waiting
  <2>7. PICK new \in [Ids -> Rows] :
          /\ rows' = [rows EXCEPT ![s] = new]
          /\ \A j \in Ids : /\ new[j].state = rows[s][j].state
                            /\ Waiting(new[j]) <=> Waiting(rows[s][j])
    BY <2>5, <2>6
  <2>8. UNCHANGED <<kinds, nextId, device>>
    BY <2>3
  <2> QED BY <2>7, <2>8, OneServer, ZenonT(60)
<1> QED BY <1>1, <1>2, <1>3, <1>4

\* TakeCommands: what goes out waited, and a row has its deliveries counted.
LEMMA TakenIs ==
    ASSUME TypeOK, RoundShape, FetchManifest
    PROVE  TablesKept /\ TakenIds(round.srv) \subseteq {i \in Ids : Waiting(rows[round.srv][i])}
<1> DEFINE s == round.srv
           new(i) == LET r == Expire(rows[s][i]) IN
                     IF Ready(r) THEN [r EXCEPT !.deliveries = @ + 1, !.due = FALSE] ELSE r
<1>1. s \in Servers /\ \A i \in Ids : rows[s][i] \in Rows
  BY DEF TypeOK, RoundShape, FetchManifest
<1>2. \A i \in Ids :
          /\ new(i) \in Rows
          /\ new(i).state # "none" => rows[s][i].state # "none"
          /\ Waiting(new(i)) => Waiting(rows[s][i])
          /\ new(i).state = "acked" => rows[s][i].state = "acked"
  <2> TAKE i \in Ids
  <2> DEFINE r == Expire(rows[s][i])
             x == [r EXCEPT !.deliveries = @ + 1, !.due = FALSE]
  <2>1. r \in Rows
    BY <1>1, ExpireIs
  <2>2. new(i) = r \/ (Ready(r) /\ new(i) = x)
    OBVIOUS
  <2> HIDE DEF r
  <2>3. Ready(r) => x \in Rows /\ x.state = r.state
    <3>1. Ready(r) => r.deliveries + 1 \in 0..maxDeliveries
      BY <2>1, FleetAssumption DEF Ready, Rows
    <3> QED BY <2>1, <3>1 DEF Rows
  <2> HIDE DEF x
  <2>4. new(i) \in Rows /\ new(i).state = r.state
    BY <2>1, <2>2, <2>3
  <2> HIDE DEF new
  <2> QED BY <1>1, <2>4, ExpireIs DEF Waiting, r
<1>3. rows' = [rows EXCEPT ![s] = [i \in Ids |-> new(i)]] /\ UNCHANGED <<kinds, nextId, device>>
  BY DEF FetchManifest, TakenRows
<1>4. TakenIds(s) \subseteq {i \in Ids : Waiting(rows[s][i])}
  BY <1>1, ExpireIs DEF TakenIds, Ready
<1> HIDE DEF new
<1> DEFINE all == [i \in Ids |-> new(i)]
<1>5. all \in [Ids -> Rows] /\ \A i \in Ids : all[i] = new(i)
  BY <1>2
<1>6. TablesKept
  <2> HIDE DEF s
  <2> QED BY <1>1, <1>2, <1>3, <1>5, OneServer
<1> QED BY <1>4, <1>6

\* A heartbeat acknowledges what it carries, and nothing else.
LEMMA HeartbeatIs ==
    ASSUME TypeOK, round.srv \in Servers, NEW acks, Heartbeat(acks),
           UNCHANGED <<kinds, nextId, device>>, \A i \in acks : Carries(round.srv, i)
    PROVE  TablesKept /\ faults' \in 0..MaxFaults
<1> DEFINE s == round.srv
           new(i) == IF i \in Carried(acks) /\ rows[s][i].state # "none"
                     THEN [rows[s][i] EXCEPT !.state = "acked"] ELSE rows[s][i]
<1>1. faults' \in 0..MaxFaults
  BY FaultIs DEF Heartbeat, TypeOK
<1>2. CASE rows' = rows
  BY <1>1, <1>2 DEF TablesKept, TypeOK
<1>3. CASE rows' = [rows EXCEPT ![s] = [i \in Ids |-> new(i)]]
  <2>1. \A i \in Ids : rows[s][i] \in Rows
    BY DEF TypeOK
  <2>2. \A i \in Ids :
          /\ new(i) \in Rows
          /\ new(i).state # "none" => rows[s][i].state # "none"
          /\ Waiting(new(i)) => Waiting(rows[s][i])
          /\ new(i).state = "acked" => rows[s][i].state = "acked" \/ Carries(s, i)
    BY <2>1 DEF Rows, Waiting, Carried
  <2> HIDE DEF new, s
  <2> DEFINE all == [i \in Ids |-> new(i)]
  <2>3. all \in [Ids -> Rows] /\ \A i \in Ids : all[i] = new(i)
    BY <2>2
  <2> QED BY <1>1, <1>3, <2>2, <2>3, OneServer DEF s
<1>4. rows' = rows \/ rows' = [rows EXCEPT ![s] = [i \in Ids |-> new(i)]]
  BY DEF Heartbeat, Acknowledge, TypeOK
<1> QED BY <1>1, <1>2, <1>3, <1>4

-----------------------------------------------------------------------------
(* What every step but QueueCommand does.  The invariants below need nothing else. *)

\* A round carries only IDs that it had or that wait on its server, and acknowledges
\* only the first ID of its list.
RoundKept ==
    /\ round' \in Rounds
    /\ \A s \in Servers, i \in Ids :
         /\ round'.srv = s /\ i \in round'.todo =>
                (round.srv = s /\ i \in round.todo) \/ Waiting(rows[s][i])
         /\ round'.srv = s /\ i \in round'.acks => round.srv = s /\
                \/ i \in round.acks
                \/ i = FirstId /\ round.pc \in {"early", "mark"}
                \/ i = FirstId /\ AtCommand /\ RanCommand(i)

\* The states in memory and on the card are old ones, a new pairing, or have one mark more.
StatesKept ==
    \A st \in {mem', disk'} :
        /\ Good(st)
        /\ \/ st \in {mem, disk}
           \/ st.commands = <<>>
           \/ st.srv = mem.srv /\ st.commands = mem.commands
           \/ /\ st = MarkCommand(mem, FirstId)
              /\ \/ round.pc = "mark"
                 \/ AtCommand /\ endsTheProcess(FirstKind)

\* A round stays with its server, and the pairing changes under it only by Unpair.
OwnKept ==
    /\ \/ mem'.srv = mem.srv
       \/ round'.pc \in {"idle", "forget"}
       \/ "unpair" \in Events
       \/ mem.srv = None /\ round' = round
    /\ \/ round'.pc = "idle"
       \/ /\ round'.srv = round.srv
          /\ round'.pc = "forget" \/ round.pc \notin {"idle", "forget"}
       \/ round'.srv = mem.srv /\ mem' = mem

\* A command runs where the round is at it, and a name comes from a rename.
RanKept ==
    /\ ran' \in [Servers -> [Ids -> 0..MaxRuns]]
    /\ \A s \in Servers, i \in Ids :
         /\ ran'[s][i] >= ran[s][i] /\ ran'[s][i] <= ran[s][i] + 1
         /\ ran'[s][i] # ran[s][i] => /\ s = round.srv /\ i = FirstId
                                      /\ round'.pc \notin {"early", "ender"}
                                      /\ \/ round.pc = "ender"
                                         \/ AtCommand /\ ~endsTheProcess(FirstKind)
    /\ round'.pc = "mark" => /\ round'.srv = round.srv /\ round'.todo = round.todo
                             /\ round.pc = "mark" \/ ran'[round.srv][FirstId] > 0
    /\ \/ name' = name
       \/ AtCommand /\ FirstKind = "rename" /\ name' = [srv |-> round.srv, id |-> FirstId]

\* A command that may end the process is marked before it runs.
EarlyKept ==
    round'.pc \in {"early", "ender"} =>
        /\ round'.srv = round.srv /\ round'.todo = round.todo
        /\ \/ round.pc \in {"early", "ender"}
           \/ AtCommand /\ ~RanCommand(FirstId) /\ mem' = MarkCommand(mem, FirstId)

Kept == /\ TypeOK' /\ RoundShape' /\ TablesKept /\ RoundKept /\ StatesKept
        /\ OwnKept /\ RanKept /\ EarlyKept

\* A step that leaves the list of the round alone leaves its first command.
LEMMA FirstIdKept == round'.todo = round.todo => FirstId' = FirstId
BY DEF FirstId

\* The kind of the first command stays while the list and the kinds stay.
LEMMA FirstKindKept ==
    round'.todo = round.todo /\ round'.srv = round.srv /\ kinds' = kinds => FirstKind' = FirstKind
BY FirstIdKept DEF FirstKind

\* RoundTo changes where the round is, and Idle is a round with nothing to do.
LEMMA RoundToIs ==
    ASSUME round \in Rounds, NEW pc \in RoundSteps, RoundTo(pc)
    PROVE  /\ round' \in Rounds /\ round'.pc = pc /\ round'.srv = round.srv
           /\ round'.todo = round.todo /\ round'.acks = round.acks
BY DEF RoundTo, Rounds

\* The device between two rounds.
LEMMA IdleIs == Idle \in Rounds /\ Idle.pc = "idle" /\ Idle.todo = {} /\ Idle.acks = {}
BY DEF Idle, Rounds, RoundSteps

\* The round takes its first command off the list and acknowledges it.
LEMMA DoneIs ==
    ASSUME round \in Rounds, round.todo # {}, NEW pc \in RoundSteps,
           round' = [round EXCEPT !.pc = pc, !.todo = @ \ {FirstId}, !.acks = @ \cup {FirstId}]
    PROVE  /\ round' \in Rounds /\ round'.srv = round.srv /\ round'.pc = pc
           /\ round'.todo = round.todo \ {FirstId} /\ round'.acks = round.acks \cup {FirstId}
<1>1. FirstId \in Ids
  BY FirstIdIs DEF Rounds
<1> QED BY <1>1 DEF Rounds

\* The types of a step from the parts that the lemmas give.
LEMMA TypesKept ==
    ASSUME TypeOK, TablesKept, Good(mem'), Good(disk'), round' \in Rounds,
           gen' \in Nat, release' \in Servers \cup {None}, rules' \in Servers \cup {None},
           name' \in [srv : Servers \cup {None}, id : Ids \cup {0}],
           ran' \in [Servers -> [Ids -> 0..MaxRuns]], pairings' \in 0..MaxPairings,
           faults' \in 0..MaxFaults
    PROVE  TypeOK'
BY DEF TypeOK, TablesKept, Good

\* A step that runs nothing.
LEMMA RanSame ==
    ASSUME TypeOK, UNCHANGED <<ran, name>>, round'.pc # "mark" \/ round' = round
    PROVE  RanKept
<1>1. \A s \in Servers, i \in Ids : ran[s][i] \in Nat
  BY DEF TypeOK
<1>2. ran' \in [Servers -> [Ids -> 0..MaxRuns]] /\ name' = name
  BY DEF TypeOK
<1>3. \A s \in Servers, i \in Ids :
        /\ ran'[s][i] >= ran[s][i] /\ ran'[s][i] <= ran[s][i] + 1
        /\ ran'[s][i] = ran[s][i]
  BY <1>1
<1> QED BY <1>2, <1>3 DEF RanKept

\* A step outside the round leaves it as it is.
LEMMA RoundSame ==
    ASSUME TypeOK, RoundShape, kinds' = kinds, round' = round
    PROVE  RoundShape' /\ RoundKept /\ EarlyKept
<1>1. FirstKind' = FirstKind
  BY FirstKindKept
<1> QED BY <1>1 DEF RoundShape, RoundKept, EarlyKept, InCommand, TypeOK

\* The steps of a round that change neither a table nor the state.
LEMMA KeptQuiet ==
    ASSUME Typed,
           \/ BeginRound \/ FetchRefused \/ ForgetFleet \/ TakeAnswer \/ ApplyManifest
           \/ CheckRules \/ SetFleetRules \/ Repeat
    PROVE  Kept
<1> USE DEF Typed
<1>1. /\ UNCHANGED <<rows, kinds, nextId, device, disk, mem, name, ran, pairings, faults>>
      /\ gen' \in Nat
      /\ release' \in Servers \cup {None} /\ rules' \in Servers \cup {None}
  BY DEF BeginRound, FetchRefused, ForgetFleet, TakeAnswer, ApplyManifest, CheckRules,
     SetFleetRules, Repeat, serverVars, clearFleet, TypeOK, Rounds
<1>2. TablesKept /\ StatesKept
  BY <1>1 DEF TablesKept, StatesKept, TypeOK
<1>3. ASSUME round' \in Rounds PROVE TypeOK'
  BY <1>1, <1>3 DEF TypeOK
<1>5. ASSUME round'.pc # "mark" PROVE RanKept
  BY <1>1, <1>5, RanSame
<1>6. round \in Rounds
  BY DEF TypeOK
<1>7. CASE BeginRound
  <2>1. /\ round.pc = "idle" /\ mem.srv \in Servers
        /\ round' = [pc |-> "fetch", srv |-> mem.srv, token |-> mem.token, gen |-> 0,
                     todo |-> {}, acks |-> {}]
    BY <1>7 DEF BeginRound, Idle, Good, States
  <2>2. round' \in Rounds
    BY <2>1 DEF Rounds, RoundSteps, Good, States
  <2>3. RoundShape' /\ RoundKept /\ OwnKept /\ EarlyKept
    BY <1>1, <2>1, <2>2 DEF RoundShape, RoundKept, OwnKept, EarlyKept, InCommand
  <2> QED BY <1>2, <1>3, <1>5, <2>1, <2>2, <2>3 DEF Kept
<1>8. CASE ForgetFleet
  <2>1. round' = Idle
    BY <1>8 DEF ForgetFleet
  <2>2. RoundShape' /\ RoundKept /\ OwnKept /\ EarlyKept
    BY <1>1, <2>1, IdleIs DEF RoundShape, RoundKept, OwnKept, EarlyKept, InCommand
  <2> QED BY <1>2, <1>3, <1>5, <2>1, <2>2, IdleIs DEF Kept
<1>9. CASE FetchRefused \/ TakeAnswer \/ ApplyManifest \/ CheckRules \/ SetFleetRules
  <2>1. /\ round' \in Rounds /\ round'.srv = round.srv /\ round'.todo = round.todo
        /\ round'.acks = round.acks
        /\ round'.pc \in {"refused", "apply", "save", "run", "set"}
        /\ round.pc \in {"fetch", "answer", "apply", "live", "set"}
        /\ round'.pc = "refused" => round.pc = "fetch"
    BY <1>6, <1>9, RoundToIs DEF FetchRefused, TakeAnswer, ApplyManifest, CheckRules,
       SetFleetRules, Rounds, RoundSteps, TypeOK
  <2>2. RoundShape' /\ RoundKept /\ OwnKept /\ EarlyKept
    BY <1>1, <2>1 DEF RoundShape, RoundKept, OwnKept, EarlyKept, InCommand
  <2> QED BY <1>2, <1>3, <1>5, <2>1, <2>2 DEF Kept
<1>10. CASE Repeat
  <2>1. /\ round.pc = "run" /\ round.todo # {} /\ RanCommand(FirstId) /\ AtCommand
        /\ round' = [round EXCEPT !.todo = @ \ {FirstId}, !.acks = @ \cup {FirstId}]
    BY <1>10 DEF Repeat, AtCommand
  <2>2. FirstId \in Ids
    BY <1>6, <2>1, FirstIdIs DEF Rounds
  <2>3. /\ round' \in Rounds /\ round'.srv = round.srv /\ round'.pc = "run"
        /\ round'.todo = round.todo \ {FirstId} /\ round'.acks = round.acks \cup {FirstId}
    BY <1>6, <2>1, <2>2 DEF Rounds
  <2>4. RoundShape' /\ RoundKept /\ OwnKept /\ EarlyKept
    BY <1>1, <2>1, <2>3 DEF RoundShape, RoundKept, OwnKept, EarlyKept, InCommand
  <2> QED BY <1>2, <1>3, <1>5, <2>3, <2>4 DEF Kept
<1> QED BY <1>7, <1>8, <1>9, <1>10

\* The clock, the sweep and the admin.
LEMMA KeptServer ==
    ASSUME Typed, NEW s \in Servers,
           \/ SweepCommands(s) \/ RevokeToken(s) \/ DeleteDevice(s)
           \/ \E i \in Ids : TenMinutes(s, i) \/ GrowOld(s, i)
    PROVE  Kept
<1> USE DEF Typed
<1>1. UNCHANGED <<disk, mem, gen, release, rules, name, round, ran, pairings, faults>>
  BY DEF SweepCommands, RevokeToken, DeleteDevice, TenMinutes, GrowOld, deviceVars
<1>2. TablesKept
  BY ServerSteps
<1>3. StatesKept /\ OwnKept
  BY <1>1 DEF StatesKept, OwnKept
<1>4. RanKept
  BY <1>1, RanSame
<1>5. RoundShape' /\ RoundKept /\ EarlyKept
  BY <1>1, <1>2, RoundSame DEF TablesKept
<1>6. TypeOK'
  BY <1>1, <1>2 DEF TypeOK, TablesKept
<1> QED BY <1>2, <1>3, <1>4, <1>5, <1>6 DEF Kept

\* Unpair, and the refusal that takes the token.
LEMMA KeptUnpair ==
    ASSUME Typed, Unpair \/ DropToken
    PROVE  Kept
<1> USE DEF Typed
<1>1. Good(Standalone) /\ Standalone.commands = <<>>
  BY FleetAssumption DEF Good, States, Standalone
<1>2. PICK ok \in BOOLEAN : SaveState(Standalone, ok)
  BY DEF Unpair, DropToken
<1>3. /\ mem' = Standalone /\ Good(mem') /\ Good(disk') /\ faults' \in 0..MaxFaults
      /\ disk' = Standalone \/ disk' = disk
  BY <1>1, <1>2, SaveIs
<1>4. /\ UNCHANGED <<rows, kinds, nextId, device, name, ran, pairings>>
      /\ gen' \in Nat
      /\ release' \in Servers \cup {None} /\ rules' \in Servers \cup {None}
  BY DEF Unpair, DropToken, serverVars, clearFleet, TypeOK
<1>5. TablesKept
  BY <1>4 DEF TablesKept, TypeOK
<1>6. StatesKept
  BY <1>1, <1>3 DEF StatesKept
<1>7. round' \in Rounds /\ (round'.pc # "mark" \/ round' = round)
  BY RoundToIs DEF Unpair, DropToken, RoundSteps, TypeOK
<1>8. RanKept
  BY <1>4, <1>7, RanSame
<1>9. TypeOK'
  BY <1>3, <1>4, <1>5, <1>7, TypesKept DEF TypeOK
<1>10. CASE Unpair
  <2>1. round' = round /\ "unpair" \in Events
    BY <1>10 DEF Unpair
  <2>2. RoundShape' /\ RoundKept /\ EarlyKept
    BY <1>4, <2>1, RoundSame
  <2>3. OwnKept
    BY <2>1 DEF OwnKept
  <2> QED BY <1>5, <1>6, <1>8, <1>9, <2>2, <2>3 DEF Kept
<1>11. CASE DropToken
  <2>1. /\ round.pc = "refused" /\ round' \in Rounds /\ round'.pc = "forget"
        /\ round'.srv = round.srv /\ round'.todo = round.todo /\ round'.acks = round.acks
    BY <1>11, RoundToIs DEF DropToken, RoundSteps, TypeOK
  <2>2. RoundShape' /\ RoundKept /\ EarlyKept /\ OwnKept
    BY <2>1 DEF RoundShape, RoundKept, EarlyKept, OwnKept, InCommand
  <2> QED BY <1>5, <1>6, <1>8, <1>9, <2>2 DEF Kept
<1> QED BY <1>10, <1>11

\* A pairing, and one whose answer is lost.
LEMMA KeptPair ==
    ASSUME Typed, NEW s \in Servers, Pair(s) \/ PairLost(s)
    PROVE  Kept
<1> USE DEF Typed
<1> DEFINE new == [srv |-> s, token |-> pairings + 1, commands |-> <<>>, fleet |-> None]
<1>1. pairings + 1 \in Tokens /\ pairings' \in 0..MaxPairings
  BY FleetAssumption, SMTT(30) DEF Pair, PairLost, Tokens, TypeOK
<1>2. Good(new) /\ new.commands = <<>>
  BY <1>1, FleetAssumption DEF Good, States
<1>3. /\ UNCHANGED <<rows, kinds, nextId, rules, name, round, ran>> /\ mem.srv = None
      /\ PairRow(s)
      /\ gen' \in Nat /\ release' \in Servers \cup {None}
  BY DEF Pair, PairLost, deviceVars, clearFleet, TypeOK
<1>4. TablesKept
  <2>1. /\ device' \in [Servers -> [known : BOOLEAN, token : Tokens \cup {0}]]
        /\ \A t \in Servers : device[t].known => device'[t].known
    BY <1>1, <1>3 DEF PairRow, TypeOK
  <2> QED BY <1>3, <2>1 DEF TablesKept, TypeOK
<1>5. StatesKept /\ faults' \in 0..MaxFaults
  <2>1. CASE Pair(s)
    <3>1. PICK ok \in BOOLEAN : SaveState(new, ok)
      BY <2>1 DEF Pair
    <3> HIDE DEF new
    <3>2. /\ mem' = new /\ Good(mem') /\ Good(disk') /\ faults' \in 0..MaxFaults
          /\ disk' = new \/ disk' = disk
      BY <1>2, <3>1, SaveIs
    <3> QED BY <1>2, <3>2 DEF StatesKept
  <2>2. CASE PairLost(s)
    <3>1. UNCHANGED <<mem, disk>> /\ faults' \in 0..MaxFaults
      BY <2>2, FaultIs DEF PairLost, deviceVars
    <3> QED BY <3>1 DEF StatesKept
  <2> QED BY <2>1, <2>2
<1>6. RoundShape' /\ RoundKept /\ EarlyKept /\ RanKept
  BY <1>3, RoundSame, RanSame
<1>7. OwnKept
  BY <1>3 DEF OwnKept
<1>8. TypeOK'
  BY <1>1, <1>3, <1>4, <1>5, TypesKept DEF TypeOK, StatesKept
<1> QED BY <1>4, <1>5, <1>6, <1>7, <1>8 DEF Kept

\* The steps of the round that write the state file: the manifest and the marks.
LEMMA KeptSave ==
    ASSUME Typed, SaveRules \/ MarkFirst \/ MarkAfter
    PROVE  Kept
<1> USE DEF Typed
<1>1. /\ UNCHANGED <<rows, kinds, nextId, device, gen, release, rules, name, ran, pairings>>
      /\ round \in Rounds
  BY DEF SaveRules, MarkFirst, MarkAfter, serverVars, TypeOK
<1>2. TablesKept
  BY <1>1 DEF TablesKept, TypeOK
<1>3. ASSUME StatesKept, faults' \in 0..MaxFaults, round' \in Rounds PROVE TypeOK'
  BY <1>1, <1>2, <1>3, TypesKept DEF TypeOK, StatesKept
<1>4. ASSUME round'.pc # "mark" PROVE RanKept
  BY <1>1, <1>4, RanSame
<1>5. CASE SaveRules
  <2>1. Good(KeptState) /\ KeptState.srv = mem.srv /\ KeptState.commands = mem.commands
    <3>1. round.srv \in Servers /\ mem \in States
      BY <1>5 DEF SaveRules, RoundShape, Good
    <3>2. CASE mem.srv = None
      BY <3>2 DEF KeptState
    <3>3. CASE mem.srv # None
      <4> DEFINE kept == [mem EXCEPT !.fleet = round.srv]
      <4>1. kept \in States /\ kept.srv = mem.srv /\ kept.commands = mem.commands
        BY <3>1 DEF States
      <4>2. KeptState = kept
        BY <3>3 DEF KeptState
      <4> HIDE DEF kept
      <4> QED BY <3>3, <4>1, <4>2 DEF Good
    <3> QED BY <3>2, <3>3
  <2>2. /\ round.pc = "save" /\ round' \in Rounds /\ round'.pc \in {"live", "run"}
        /\ round'.srv = round.srv /\ round'.todo = round.todo /\ round'.acks = round.acks
    BY <1>1, <1>5, RoundToIs DEF SaveRules, RoundSteps
  <2>3. StatesKept /\ mem'.srv = mem.srv /\ faults' \in 0..MaxFaults
    <3>1. CASE UNCHANGED <<disk, mem, faults>>
      BY <3>1 DEF StatesKept, TypeOK
    <3>2. ASSUME NEW ok \in BOOLEAN, SaveState(KeptState, ok)
          PROVE  StatesKept /\ mem'.srv = mem.srv /\ faults' \in 0..MaxFaults
      <4>1. PICK new : new = KeptState
        OBVIOUS
      <4>2. /\ mem' = new /\ Good(mem') /\ Good(disk') /\ faults' \in 0..MaxFaults
            /\ disk' = new \/ disk' = disk
        BY <2>1, <3>2, <4>1, SaveIs
      <4> QED BY <2>1, <4>1, <4>2 DEF StatesKept
    <3> QED BY <1>5, <3>1, <3>2 DEF SaveRules
  <2>4. RoundShape' /\ RoundKept /\ EarlyKept /\ OwnKept
    BY <2>2, <2>3 DEF RoundShape, RoundKept, EarlyKept, OwnKept, InCommand
  <2> QED BY <1>2, <1>3, <1>4, <2>2, <2>3, <2>4 DEF Kept
<1>6. CASE MarkFirst \/ MarkAfter
  <2>1. /\ round.todo # {} /\ round.todo \in SUBSET Ids
        /\ MarkFirst => AtCommand /\ endsTheProcess(FirstKind)
        /\ MarkAfter => round.pc = "mark"
    BY <1>1, <1>6 DEF MarkFirst, MarkAfter, AtCommand, RoundShape, InCommand, Rounds
  <2>2. PICK id \in Ids : id = FirstId
    BY <2>1, FirstIdIs
  <2>3. PICK new : new = MarkCommand(mem, id)
    OBVIOUS
  <2>4. Good(new) /\ new.srv = mem.srv
    BY <2>2, <2>3, MarkIs
  <2>5. PICK ok \in BOOLEAN : SaveState(new, ok)
    BY <1>6, <2>2, <2>3 DEF MarkFirst, MarkAfter
  <2>6. /\ mem' = new /\ Good(mem') /\ Good(disk') /\ faults' \in 0..MaxFaults
        /\ disk' = new \/ disk' = disk
    BY <2>4, <2>5, SaveIs
  <2>7. StatesKept
    BY <1>6, <2>1, <2>2, <2>3, <2>6 DEF StatesKept
  <2>8. CASE MarkFirst
    <3>1. /\ round.pc = "run" /\ round' \in Rounds /\ round'.pc = "early"
          /\ round'.srv = round.srv /\ round'.todo = round.todo /\ round'.acks = round.acks
          /\ ~RanCommand(FirstId)
      BY <1>1, <2>8, RoundToIs DEF MarkFirst, AtCommand, RoundSteps
    <3>2. FirstKind' = FirstKind
      BY <1>1, <3>1, FirstKindKept
    <3>3. RoundShape'
      BY <2>1, <2>8, <3>1, <3>2 DEF RoundShape, InCommand, endsTheProcess
    <3>4. RoundKept /\ EarlyKept /\ OwnKept
      BY <2>1, <2>2, <2>3, <2>4, <2>6, <2>8, <3>1 DEF RoundKept, EarlyKept, OwnKept
    <3> QED BY <1>2, <1>3, <1>4, <2>6, <2>7, <3>1, <3>3, <3>4 DEF Kept
  <2>9. CASE MarkAfter
    <3>1. /\ round.pc = "mark" /\ round' \in Rounds /\ round'.pc = "run"
          /\ round'.srv = round.srv /\ round'.todo = round.todo \ {FirstId}
          /\ round'.acks = round.acks \cup {FirstId}
      BY <1>1, <2>1, <2>9, DoneIs DEF MarkAfter, RoundSteps
    <3>2. RoundShape' /\ RoundKept /\ EarlyKept /\ OwnKept
      BY <2>4, <2>6, <3>1 DEF RoundShape, RoundKept, EarlyKept, OwnKept, InCommand
    <3> QED BY <1>2, <1>3, <1>4, <2>6, <2>7, <3>1, <3>2 DEF Kept
  <2> QED BY <1>6, <2>8, <2>9
<1> QED BY <1>5, <1>6

\* The steps of the round that a server answers.
LEMMA KeptAnswer ==
    ASSUME Typed, FetchManifest \/ AckFirst \/ EndRound
    PROVE  Kept
<1> USE DEF Typed
<1>1. /\ UNCHANGED <<kinds, nextId, device, disk, mem, gen, release, rules, name, ran, pairings>>
      /\ round \in Rounds
  BY DEF FetchManifest, AckFirst, EndRound, TypeOK
<1>2. StatesKept
  BY <1>1 DEF StatesKept
<1>3. ASSUME TablesKept, faults' \in 0..MaxFaults, round' \in Rounds PROVE TypeOK'
  BY <1>1, <1>3, TypesKept DEF TypeOK
<1>4. ASSUME round'.pc # "mark" PROVE RanKept
  BY <1>1, <1>4, RanSame
<1>5. CASE FetchManifest
  <2>1. TablesKept /\ TakenIds(round.srv) \subseteq {i \in Ids : Waiting(rows[round.srv][i])}
    BY <1>5, TakenIs
  <2>2. faults' \in 0..MaxFaults
    BY <1>5, FaultIs DEF FetchManifest, TypeOK
  <2>3. CASE round' = Idle
    <3>1. RoundShape' /\ RoundKept /\ EarlyKept /\ OwnKept
      BY <2>3, IdleIs DEF RoundShape, RoundKept, EarlyKept, OwnKept, InCommand
    <3> QED BY <1>2, <1>3, <1>4, <2>1, <2>2, <2>3, <3>1, IdleIs DEF Kept
  <2>4. CASE round' = [round EXCEPT !.pc = "answer", !.todo = TakenIds(round.srv)]
    <3>1. PICK todo : todo = TakenIds(round.srv)
      OBVIOUS
    <3>2. todo \in SUBSET Ids /\ \A i \in todo : Waiting(rows[round.srv][i])
      BY <2>1, <3>1
    <3>3. /\ round.pc = "fetch" /\ round' \in Rounds /\ round'.pc = "answer"
          /\ round'.srv = round.srv /\ round'.todo = todo /\ round'.acks = round.acks
      BY <1>1, <1>5, <2>4, <3>1, <3>2 DEF FetchManifest, Rounds, RoundSteps
    <3>4. RoundShape' /\ RoundKept /\ EarlyKept /\ OwnKept
      BY <1>1, <3>2, <3>3 DEF RoundShape, RoundKept, EarlyKept, OwnKept, InCommand
    <3> QED BY <1>2, <1>3, <1>4, <2>1, <2>2, <3>3, <3>4 DEF Kept
  <2> QED BY <1>5, <2>3, <2>4 DEF FetchManifest
<1>6. CASE AckFirst
  <2>1. /\ round.pc = "early" /\ round.srv \in Servers /\ round.todo # {}
        /\ Heartbeat(round.acks \cup {FirstId})
        /\ round' = [round EXCEPT !.pc = "ender", !.acks = @ \cup {FirstId}]
    BY <1>6 DEF AckFirst, RoundShape, InCommand
  <2>2. PICK id \in Ids : id = FirstId
    BY <1>1, <2>1, FirstIdIs DEF Rounds
  <2>3. PICK acks : acks = round.acks \cup {id}
    OBVIOUS
  <2>4. \A i \in acks : Carries(round.srv, i)
    BY <2>1, <2>2, <2>3 DEF Carries
  <2>5. TablesKept /\ faults' \in 0..MaxFaults
    BY <1>1, <2>1, <2>2, <2>3, <2>4, HeartbeatIs
  <2>6. /\ round' \in Rounds /\ round'.pc = "ender" /\ round'.srv = round.srv
        /\ round'.todo = round.todo /\ round'.acks = round.acks \cup {id}
    BY <1>1, <2>1, <2>2 DEF Rounds, RoundSteps
  <2>7. FirstKind' = FirstKind
    BY <1>1, <2>6, FirstKindKept
  <2>8. RoundShape'
    BY <2>1, <2>6, <2>7 DEF RoundShape, InCommand, endsTheProcess
  <2>9. RoundKept /\ EarlyKept /\ OwnKept
    BY <1>1, <2>1, <2>2, <2>6 DEF RoundKept, EarlyKept, OwnKept
  <2> QED BY <1>2, <1>3, <1>4, <2>5, <2>6, <2>8, <2>9 DEF Kept
<1>7. CASE EndRound
  <2>1. round.pc = "run" /\ round.srv \in Servers /\ Heartbeat(round.acks) /\ round' = Idle
    BY <1>7 DEF EndRound, RoundShape
  <2>2. \A i \in round.acks : Carries(round.srv, i)
    BY DEF Carries
  <2>3. TablesKept /\ faults' \in 0..MaxFaults
    BY <1>1, <2>1, <2>2, HeartbeatIs
  <2>4. RoundShape' /\ RoundKept /\ EarlyKept /\ OwnKept
    BY <2>1, IdleIs DEF RoundShape, RoundKept, EarlyKept, OwnKept, InCommand
  <2> QED BY <1>2, <1>3, <1>4, <2>1, <2>3, <2>4, IdleIs DEF Kept
<1> QED BY <1>5, <1>6, <1>7

\* A command runs once more, up to the bound of the history.
LEMMA ExecutedIs ==
    ASSUME TypeOK, round.srv \in Servers, FirstId \in Ids, Executed
    PROVE  /\ ran' \in [Servers -> [Ids -> 0..MaxRuns]] /\ ran'[round.srv][FirstId] > 0
           /\ \A s \in Servers, i \in Ids :
                /\ ran'[s][i] >= ran[s][i] /\ ran'[s][i] <= ran[s][i] + 1
                /\ ran'[s][i] # ran[s][i] => s = round.srv /\ i = FirstId
<1>0. PICK t \in Servers, id \in Ids : t = round.srv /\ id = FirstId
  OBVIOUS
<1>1. ran' = [ran EXCEPT ![t] = [@ EXCEPT ![id] = Count(ran[t][id])]]
  BY <1>0 DEF Executed, TypeOK
<1>2. PICK n : n = Count(ran[t][id])
  OBVIOUS
<1>3. \A s \in Servers, i \in Ids : ran[s][i] \in 0..MaxRuns
  BY DEF TypeOK
<1>4. /\ n \in 0..MaxRuns /\ n > 0 /\ n >= ran[t][id] /\ n <= ran[t][id] + 1
  BY <1>2, <1>3 DEF Count, MaxRuns
<1>5. /\ ran' \in [Servers -> [Ids -> 0..MaxRuns]] /\ ran'[t][id] = n
      /\ \A s \in Servers, i \in Ids : s # t \/ i # id => ran'[s][i] = ran[s][i]
  BY <1>1, <1>2, <1>4 DEF TypeOK
<1>6. ASSUME NEW s \in Servers, NEW i \in Ids
      PROVE  /\ ran'[s][i] >= ran[s][i] /\ ran'[s][i] <= ran[s][i] + 1
             /\ ran'[s][i] # ran[s][i] => s = t /\ i = id
  <2>1. CASE s = t /\ i = id
    BY <1>4, <1>5, <2>1
  <2>2. CASE ~(s = t /\ i = id)
    <3>1. ran'[s][i] = ran[s][i] /\ ran[s][i] \in 0..MaxRuns
      BY <1>3, <1>5, <2>2
    <3> QED BY <2>2, <3>1 DEF MaxRuns
  <2> QED BY <2>1, <2>2
<1> QED BY <1>0, <1>4, <1>5, <1>6

\* The steps that run a command, and the crash.
LEMMA KeptRun ==
    ASSUME Typed, RunEnder \/ Execute \/ Crash
    PROVE  Kept
<1> USE DEF Typed
<1>1. UNCHANGED <<rows, kinds, nextId, device, disk, pairings>> /\ round \in Rounds
  BY DEF RunEnder, Execute, Crash, serverVars, TypeOK
<1>2. TablesKept
  BY <1>1 DEF TablesKept, TypeOK
<1>3. Restart => /\ mem' = disk /\ gen' \in Nat /\ round' = Idle
                 /\ release' \in Servers \cup {None} /\ rules' \in Servers \cup {None}
  BY DEF Restart, Good, States
<1>4. CASE Crash
  <2>1. Restart /\ UNCHANGED <<name, ran>> /\ faults' \in 0..MaxFaults
    BY <1>4, FaultIs DEF Crash
  <2>2. StatesKept
    BY <1>1, <1>3, <2>1 DEF StatesKept
  <2>3. RoundShape' /\ RoundKept /\ EarlyKept /\ OwnKept
    BY <1>3, <2>1, IdleIs DEF RoundShape, RoundKept, EarlyKept, OwnKept, InCommand
  <2>4. RanKept
    BY <1>3, <2>1, RanSame, IdleIs
  <2>5. TypeOK'
    BY <1>1, <1>2, <1>3, <2>1, <2>2, IdleIs, TypesKept DEF TypeOK, StatesKept
  <2> QED BY <1>2, <2>2, <2>3, <2>4, <2>5 DEF Kept
<1>5. CASE RunEnder
  <2>1. /\ round.pc = "ender" /\ round.srv \in Servers /\ round.todo # {}
        /\ Executed /\ UNCHANGED <<name, faults>>
    BY <1>5 DEF RunEnder, RoundShape, InCommand
  <2>2. PICK id \in Ids : id = FirstId
    BY <1>1, <2>1, FirstIdIs DEF Rounds
  <2>3. /\ round' \in Rounds /\ round'.pc \in {"idle", "run"} /\ round'.todo \subseteq round.todo
        /\ round'.acks \subseteq round.acks
        /\ round'.pc = "run" => round'.srv = round.srv
        /\ round'.pc = "idle" => round'.todo = {} /\ round'.acks = {}
    <3>1. CASE round' = Idle
      BY <3>1, IdleIs
    <3>2. CASE round' = [round EXCEPT !.pc = "run", !.todo = @ \ {id}]
      BY <1>1, <3>2 DEF Rounds, RoundSteps
    <3> QED BY <1>3, <1>5, <2>2, <3>1, <3>2 DEF RunEnder
  <2>4. /\ (mem' = disk /\ round'.pc = "idle") \/ mem' = mem
        /\ gen' \in Nat
        /\ release' \in Servers \cup {None} /\ rules' \in Servers \cup {None}
    BY <1>3, <1>5, IdleIs DEF RunEnder, TypeOK
  <2>5. StatesKept
    BY <1>1, <2>4 DEF StatesKept
  <2>6. RoundShape' /\ EarlyKept /\ OwnKept
    BY <2>1, <2>3, <2>4 DEF RoundShape, EarlyKept, OwnKept, InCommand
  <2>7. RoundKept
    BY <2>3 DEF RoundKept
  <2>8. RanKept
    BY <2>1, <2>2, <2>3, ExecutedIs DEF RanKept
  <2>9. TypeOK'
    BY <1>1, <1>2, <2>1, <2>3, <2>4, <2>5, <2>8, TypesKept DEF TypeOK, StatesKept, RanKept
  <2> QED BY <1>2, <2>5, <2>6, <2>7, <2>8, <2>9 DEF Kept
<1>6. CASE Execute
  <2>1. /\ AtCommand /\ round.pc = "run" /\ round.srv \in Servers /\ round.todo # {}
        /\ Executed /\ UNCHANGED <<mem, gen, release, rules, faults>>
        /\ ~endsTheProcess(FirstKind)
    BY <1>6 DEF Execute, AtCommand, RoundShape
  <2>2. PICK id \in Ids : id = FirstId
    BY <1>1, <2>1, FirstIdIs DEF Rounds
  <2>3. /\ round' \in Rounds /\ round'.pc = "mark" /\ round'.srv = round.srv
        /\ round'.todo = round.todo /\ round'.acks = round.acks
    BY <1>1, <1>6, RoundToIs DEF Execute, RoundSteps
  <2>4. StatesKept
    BY <1>1, <2>1 DEF StatesKept
  <2>5. RoundShape' /\ RoundKept /\ EarlyKept /\ OwnKept
    BY <2>1, <2>3 DEF RoundShape, RoundKept, EarlyKept, OwnKept, InCommand
  <2>6. \/ name' = name
        \/ FirstKind = "rename" /\ name' = [srv |-> round.srv, id |-> FirstId]
    BY <1>6 DEF Execute
  <2>7. RanKept
    BY <2>1, <2>2, <2>3, <2>6, ExecutedIs DEF RanKept
  <2>8. name' \in [srv : Servers \cup {None}, id : Ids \cup {0}]
    BY <2>1, <2>2, <2>6 DEF TypeOK
  <2>9. TypeOK'
    BY <1>1, <1>2, <2>1, <2>3, <2>4, <2>7, <2>8, TypesKept DEF TypeOK, StatesKept, RanKept
  <2> QED BY <1>2, <2>4, <2>5, <2>7, <2>9 DEF Kept
<1> QED BY <1>4, <1>5, <1>6

\* Every step is a new command or one of the above.
LEMMA Steps ==
    ASSUME Typed, Next
    PROVE  Kept \/ \E s \in Servers, k \in Kinds : QueueCommand(s, k)
<1>1. ASSUME RoundStep PROVE Kept
  BY <1>1, KeptQuiet, KeptUnpair, KeptSave, KeptAnswer, KeptRun DEF RoundStep, RunStep
<1>2. ASSUME NEW s \in Servers, ServerStep(s) \/ ClockStep(s)
      PROVE  Kept \/ \E k \in Kinds : QueueCommand(s, k)
  BY <1>2, KeptServer DEF ServerStep, ClockStep
<1>3. ASSUME NEW s \in Servers, Pair(s) \/ PairLost(s) PROVE Kept
  BY <1>3, KeptPair
<1> QED BY <1>1, <1>2, <1>3, KeptUnpair, KeptRun DEF Next

\* A new command leaves the round and the states alone.
LEMMA QueueTyped ==
    ASSUME Typed, IdsAreOld, NEW s \in Servers, NEW k \in Kinds, QueueCommand(s, k)
    PROVE  Typed'
<1> USE DEF Typed
<1>1. /\ UNCHANGED <<device, disk, mem, gen, release, rules, name, round, pairings, faults>>
      /\ rows' \in [Servers -> [Ids -> Rows]] /\ kinds' \in [Servers -> [Ids -> AllKinds]]
      /\ nextId' \in [Servers -> 1..(MaxId + 1)] /\ ran' \in [Servers -> [Ids -> 0..MaxRuns]]
      /\ nextId[s] \in Ids
      /\ \A t \in Servers, i \in Ids : t # s \/ i # nextId[s] => kinds'[t][i] = kinds[t][i]
  BY QueueIs
<1>2. TypeOK' /\ Good(mem)' /\ Good(disk)'
  BY <1>1 DEF TypeOK, Good
<1>3. ASSUME InCommand PROVE FirstKind' = FirstKind
  <2>1. /\ round.todo \in SUBSET Ids /\ round.todo # {} /\ round.srv \in Servers
    BY <1>3 DEF RoundShape, InCommand, TypeOK, Rounds
  <2>2. FirstId \in Ids /\ FirstId \in round.todo /\ FirstId' = FirstId
    BY <1>1, <2>1, FirstIdIs, FirstIdKept
  <2>3. FirstId < nextId[round.srv]
    BY <2>1, <2>2 DEF IdsAreOld
  <2>4. round.srv = s => FirstId # nextId[s]
    BY <1>1, <2>2, <2>3 DEF Ids
  <2> QED BY <1>1, <2>1, <2>2, <2>4 DEF FirstKind
<1>4. RoundShape'
  BY <1>1, <1>3 DEF RoundShape, InCommand
<1> QED BY <1>2, <1>4

-----------------------------------------------------------------------------
(* Renames in order, and no manifest without a pairing.                    *)

\* The conjuncts of RenameInv with the types in the form of the lemmas above.
LEMMA RenameTyped == RenameInv => Typed
BY DEF RenameInv, NoManifestUnpaired, Typed, TypeOK, Good

\* RenameInv holds at the start.
LEMMA RenameInit == Init => RenameInv
<1> SUFFICES ASSUME Init PROVE RenameInv
  OBVIOUS
<1>1. Typed
  BY TypedInit
<1>2. NoManifestUnpaired
  BY <1>1 DEF Typed, Good, NoManifestUnpaired
<1>3. IdsAreOld
  BY DEF Init, IdsAreOld, NoRow, Idle
<1>4. RenamesAreNew
  BY FleetAssumption DEF Init, RenamesAreNew, IsRename, NoRow, Waiting
<1> QED BY <1>1, <1>2, <1>3, <1>4 DEF RenameInv, Typed

\* The first command of a round that is at it.
LEMMA AtFirst ==
    ASSUME Typed, round.pc \in {"early", "ender", "mark"} \/ AtCommand
    PROVE  /\ round.srv \in Servers /\ round.todo # {} /\ round.todo \in SUBSET Ids
           /\ FirstId \in Ids /\ FirstId \in round.todo
           /\ \A j \in round.todo : FirstId <= j
<1>1. round.srv \in Servers /\ round.todo # {} /\ round.todo \in SUBSET Ids
  BY DEF Typed, TypeOK, RoundShape, InCommand, AtCommand, Rounds
<1> QED BY <1>1, FirstIdIs

\* What may still run could run before: a step of Kept brings no command back.
LEMMA LiveKept ==
    ASSUME Kept, NEW s \in Servers, NEW i \in Ids, Live(s, i)'
    PROVE  Live(s, i)
BY DEF Kept, TablesKept, RoundKept, Live

\* A step that keeps the tables makes no id.
LEMMA OldKept ==
    ASSUME Typed, IdsAreOld, Kept
    PROVE  IdsAreOld'
<1> SUFFICES ASSUME NEW s \in Servers, NEW i \in Ids
             PROVE /\ rows'[s][i].state # "none" => i < nextId'[s] /\ device'[s].known
                   /\ kinds'[s][i] # "local" => i < nextId'[s]
                   /\ round'.srv = s /\ i \in round'.todo \cup round'.acks => i < nextId'[s]
  BY DEF IdsAreOld
<1>1. /\ rows'[s][i].state # "none" => i < nextId'[s] /\ device'[s].known
      /\ kinds'[s][i] # "local" => i < nextId'[s]
  <2>1. /\ rows'[s][i].state # "none" => rows[s][i].state # "none"
        /\ rows'[s][i].state # "none" /\ device[s].known => device'[s].known
        /\ kinds' = kinds /\ nextId' = nextId
    BY DEF Kept, TablesKept
  <2>2. /\ rows[s][i].state # "none" => i < nextId[s] /\ device[s].known
        /\ kinds[s][i] # "local" => i < nextId[s]
    BY DEF IdsAreOld
  <2> QED BY <2>1, <2>2
<1>2. ASSUME round'.srv = s, i \in round'.todo PROVE i < nextId'[s]
  <2>1. (round.srv = s /\ i \in round.todo) \/ Waiting(rows[s][i])
    BY <1>2 DEF Kept, RoundKept
  <2> QED BY <2>1 DEF IdsAreOld, Waiting, Kept, TablesKept
<1>3. ASSUME round'.srv = s, i \in round'.acks PROVE i < nextId'[s]
  <2>1. round.srv = s /\ \/ i \in round.acks
                         \/ i = FirstId /\ (round.pc \in {"early", "ender", "mark"} \/ AtCommand)
    BY <1>3 DEF Kept, RoundKept
  <2>2. i \in round.todo \cup round.acks
    BY <2>1, AtFirst
  <2> QED BY <2>1, <2>2 DEF IdsAreOld, Kept, TablesKept
<1> QED BY <1>1, <1>2, <1>3

\* A new command takes the next id, which nothing knows yet.
LEMMA OldQueue ==
    ASSUME Typed, IdsAreOld, NEW s \in Servers, NEW k \in Kinds, QueueCommand(s, k)
    PROVE  IdsAreOld'
<1> SUFFICES ASSUME NEW t \in Servers, NEW i \in Ids
             PROVE /\ rows'[t][i].state # "none" => i < nextId'[t] /\ device'[t].known
                   /\ kinds'[t][i] # "local" => i < nextId'[t]
                   /\ round'.srv = t /\ i \in round'.todo \cup round'.acks => i < nextId'[t]
  BY DEF IdsAreOld
<1>1. /\ nextId[t] \in Nat /\ nextId'[t] \in Nat /\ nextId'[t] >= nextId[t] /\ i \in Nat
      /\ t = s => nextId'[t] = nextId[s] + 1
      /\ UNCHANGED <<device, round>> /\ device[s].known
  <2>1. /\ nextId \in [Servers -> 1..(MaxId + 1)] /\ nextId' \in [Servers -> 1..(MaxId + 1)]
        /\ nextId'[s] = nextId[s] + 1 /\ \A u \in Servers : u # s => nextId'[u] = nextId[u]
        /\ UNCHANGED <<device, round>> /\ device[s].known
    BY QueueIs DEF Typed, TypeOK
  <2>2. nextId[t] \in Nat /\ nextId'[t] \in Nat /\ i \in Nat
    BY <2>1, FleetAssumption DEF Ids
  <2>3. nextId'[t] = nextId[t] \/ (t = s /\ nextId'[t] = nextId[t] + 1)
    BY <2>1
  <2>4. nextId'[t] >= nextId[t]
    BY <2>2, <2>3
  <2> QED BY <2>1, <2>2, <2>4
<1>2. CASE t = s /\ i = nextId[s]
  BY <1>1, <1>2
<1>3. CASE ~(t = s /\ i = nextId[s])
  <2>1. /\ kinds'[t][i] = kinds[t][i]
        /\ rows'[t][i].state # "none" => rows[t][i].state # "none"
    BY <1>3, QueueIs DEF Typed
  <2>2. i < nextId[t] => i < nextId'[t]
    BY <1>1
  <2> QED BY <1>1, <2>1, <2>2 DEF IdsAreOld
<1> QED BY <1>2, <1>3

\* A step that keeps the tables leaves the newest rename the newest.
LEMMA NewestKept ==
    ASSUME Typed, RenamesAreNew, Kept
    PROVE  RenamesAreNew'
<1>0. kinds' = kinds
  BY DEF Kept, TablesKept
<1> SUFFICES ASSUME NEW s \in Servers
             PROVE /\ \A k, i \in Ids :
                        Waiting(rows'[s][k]) /\ IsRename(s, k) /\ IsRename(s, i) => i <= k
                   /\ name'.srv = s =>
                        /\ IsRename(s, name'.id)
                        /\ \A i \in Ids : Live(s, i)' /\ IsRename(s, i) => name'.id <= i
  BY <1>0 DEF RenamesAreNew, IsRename
<1>1. \A k, i \in Ids : Waiting(rows'[s][k]) /\ IsRename(s, k) /\ IsRename(s, i) => i <= k
  BY DEF Kept, TablesKept, RenamesAreNew
<1>2. \A i \in Ids : Live(s, i)' => Live(s, i)
  BY LiveKept
<1>3. CASE name' = name
  BY <1>1, <1>2, <1>3 DEF RenamesAreNew
<1>4. CASE AtCommand /\ FirstKind = "rename" /\ name' = [srv |-> round.srv, id |-> FirstId]
  <2>1. FirstId \in Ids /\ \A j \in round.todo : FirstId <= j
    BY <1>4, AtFirst
  <2>2. name'.id = FirstId /\ name'.srv = round.srv
    BY <1>4
  <2>3. round.srv = s => IsRename(s, FirstId)
    BY <1>4, <2>1 DEF IsRename, FirstKind
  <2>4. ASSUME round.srv = s, NEW i \in Ids, Live(s, i), IsRename(s, i) PROVE FirstId <= i
    BY <2>1, <2>3, <2>4 DEF Live, RenamesAreNew
  <2> QED BY <1>1, <1>2, <2>2, <2>3, <2>4
<1> QED BY <1>3, <1>4 DEF Kept, RanKept

\* A rename that is queued takes the place of the one before it.
LEMMA NewestQueue ==
    ASSUME Typed, IdsAreOld, RenamesAreNew, NEW s \in Servers, NEW k \in Kinds, QueueCommand(s, k)
    PROVE  RenamesAreNew'
<1> DEFINE n == nextId[s]
<1>0. n \in Ids /\ UNCHANGED <<name, round>> /\ kinds'[s][n] = k
  BY QueueIs DEF Typed
<1>1. \A t \in Servers, i \in Ids : t # s \/ i # n =>
        /\ kinds'[t][i] = kinds[t][i]
        /\ Waiting(rows'[t][i]) => Waiting(rows[t][i])
        /\ Waiting(rows'[t][i]) /\ t = s => ~(k = "rename" /\ kinds[s][i] = "rename")
  BY QueueIs DEF Typed
<1>2. \A i \in Ids : kinds[s][i] = "rename" => i < n
  BY DEF IdsAreOld
<1>3. \A i, j \in Ids : (i < j => i <= j /\ i # j) /\ i <= i
  BY FleetAssumption DEF Ids
<1>4. \A i \in Ids : round.srv = s /\ i \in round.todo => i < n
  BY DEF IdsAreOld
<1> HIDE DEF n
<1> SUFFICES ASSUME NEW t \in Servers
             PROVE /\ \A j, i \in Ids :
                        Waiting(rows'[t][j]) /\ IsRename(t, j)' /\ IsRename(t, i)' => i <= j
                   /\ name.srv = t =>
                        /\ IsRename(t, name.id)'
                        /\ \A i \in Ids : Live(t, i)' /\ IsRename(t, i)' => name.id <= i
  BY <1>0 DEF RenamesAreNew, IsRename
<1>5. CASE t # s
  BY <1>0, <1>1, <1>5 DEF RenamesAreNew, IsRename, Live
<1>6. CASE t = s
  <2>1. ASSUME NEW j \in Ids, NEW i \in Ids, Waiting(rows'[s][j]), IsRename(s, j)',
               IsRename(s, i)'
        PROVE  i <= j
    <3>1. CASE j = n
      <4>1. i = n \/ i < n
        BY <1>1, <1>2, <2>1 DEF IsRename
      <4> QED BY <1>0, <1>3, <3>1, <4>1
    <3>2. CASE j # n
      <4>1. Waiting(rows[s][j]) /\ kinds[s][j] = "rename" /\ k # "rename"
        BY <1>1, <2>1, <3>2 DEF IsRename
      <4>2. i # n /\ kinds[s][i] = "rename"
        BY <1>0, <1>1, <2>1, <4>1 DEF IsRename
      <4> QED BY <4>1, <4>2 DEF RenamesAreNew, IsRename
    <3> QED BY <3>1, <3>2
  <2>2. ASSUME name.srv = s PROVE IsRename(s, name.id)' /\ name.id \in Ids /\ name.id < n
    <3>1. IsRename(s, name.id)
      BY <2>2 DEF RenamesAreNew
    <3>2. name.id \in Ids /\ name.id < n
      BY <1>2, <3>1 DEF IsRename
    <3>3. name.id # n
      BY <1>0, <1>3, <3>2
    <3> QED BY <1>0, <1>1, <3>1, <3>2, <3>3 DEF IsRename
  <2>3. ASSUME name.srv = s, NEW i \in Ids, Live(s, i)', IsRename(s, i)' PROVE name.id <= i
    <3>1. CASE i = n
      BY <1>0, <1>3, <2>2, <2>3, <3>1
    <3>2. CASE i # n
      BY <1>0, <1>1, <2>3, <3>2 DEF RenamesAreNew, IsRename, Live
    <3> QED BY <3>1, <3>2
  <2> QED BY <1>6, <2>1, <2>2, <2>3
<1> QED BY <1>5, <1>6

\* Every step keeps RenameInv.
LEMMA RenameStep == RenameInv /\ [Next]_vars => RenameInv'
<1> SUFFICES ASSUME RenameInv, [Next]_vars PROVE RenameInv'
  OBVIOUS
<1>0. Typed /\ IdsAreOld /\ RenamesAreNew
  BY RenameTyped DEF RenameInv
<1>1. CASE UNCHANGED vars
  BY <1>1 DEF vars, serverVars, deviceVars, RenameInv, NoManifestUnpaired, TypeOK, RoundShape,
     InCommand, FirstKind, FirstId, IdsAreOld, RenamesAreNew, IsRename, Live
<1>2. ASSUME NEW s \in Servers, NEW k \in Kinds, QueueCommand(s, k) PROVE RenameInv'
  <2>1. Typed'
    BY <1>0, <1>2, QueueTyped
  <2>2. IdsAreOld' /\ RenamesAreNew'
    BY <1>0, <1>2, OldQueue, NewestQueue
  <2> QED BY <2>1, <2>2 DEF RenameInv, Typed, Good, NoManifestUnpaired
<1>3. CASE Kept
  <2>1. IdsAreOld' /\ RenamesAreNew'
    BY <1>0, <1>3, OldKept, NewestKept
  <2>2. TypeOK' /\ RoundShape' /\ Good(mem') /\ Good(disk')
    BY <1>3 DEF Kept, StatesKept
  <2> QED BY <2>1, <2>2 DEF RenameInv, Good, NoManifestUnpaired
<1> QED BY <1>0, <1>1, <1>2, <1>3, Steps

\* RenameInv holds in every state.
LEMMA RenameHolds == Spec => []RenameInv
BY RenameInit, RenameStep, PTL DEF Spec

\* The state file and the memory of a device with no pairing hold no manifest, for every
\* interleaving of pairing, unpairing, saves that fail, crashes and rounds that apply one.
THEOREM NothingIsKept == Spec => []NoManifestUnpaired
<1>1. RenameInv => NoManifestUnpaired
  BY DEF RenameInv
<1> QED BY <1>1, RenameHolds, PTL

\* The name that a server gave is never replaced by an older one of its own: a rename that
\* waits, or that an answer under way carries, is at least as new as the name.
THEOREM RenamesAreOrdered == Spec => RenamesInOrder
<1>1. RenameInv /\ [Next]_vars => [name' # name /\ name'.srv = name.srv => name'.id > name.id]_vars
  <2> SUFFICES ASSUME RenameInv, Next, name' # name, name'.srv = name.srv
               PROVE  name'.id > name.id
    BY DEF vars
  <2>1. Typed /\ RenamesAreNew
    BY RenameTyped DEF RenameInv
  <2>2. Kept
    BY <2>1, Steps, QueueIs DEF Typed
  <2>3. AtCommand /\ FirstKind = "rename" /\ name' = [srv |-> round.srv, id |-> FirstId]
    BY <2>2 DEF Kept, RanKept
  <2>4. round.srv \in Servers /\ FirstId \in Ids /\ FirstId \in round.todo
    BY <2>1, <2>3, AtFirst
  <2>5. name'.id = FirstId /\ name.srv = round.srv
    BY <2>3
  <2>6. name.id <= FirstId /\ name.id \in Ids
    BY <2>1, <2>3, <2>4, <2>5 DEF RenamesAreNew, Live, IsRename, FirstKind
  <2>7. name.id # FirstId
    <3>1. name \in [srv : Servers \cup {None}, id : Ids \cup {0}]
      BY <2>1 DEF Typed, TypeOK
    <3>2. ASSUME name.id = FirstId PROVE name = [srv |-> round.srv, id |-> FirstId]
      BY <2>5, <3>1, <3>2
    <3> QED BY <2>3, <3>2
  <2> QED BY <2>4, <2>5, <2>6, <2>7, FleetAssumption DEF Ids
<1> QED BY <1>1, RenameHolds, PTL DEF Spec, RenamesInOrder

-----------------------------------------------------------------------------
(* What the server shows as acknowledged ran on the device.                *)

\* A round works for the server of the pairing, as long as nobody unpairs by hand.
LEMMA OwnStep ==
    ASSUME NoUnpair, Typed, RoundIsOwn, Kept
    PROVE  RoundIsOwn'
<1> SUFFICES ASSUME round'.pc \notin {"idle", "forget"} PROVE mem'.srv = round'.srv
  BY DEF RoundIsOwn
<1>1. \/ round'.srv = round.srv /\ round.pc \notin {"idle", "forget"}
      \/ round'.srv = mem.srv /\ mem' = mem
  BY DEF Kept, OwnKept
<1>2. CASE round'.srv = round.srv /\ round.pc \notin {"idle", "forget"}
  <2>1. mem.srv = round.srv /\ round.srv # None
    BY <1>2, FleetAssumption DEF RoundIsOwn, Typed, RoundShape
  <2>2. mem'.srv = mem.srv
    BY <2>1 DEF Kept, OwnKept, NoUnpair
  <2> QED BY <1>2, <2>1, <2>2
<1> QED BY <1>1, <1>2

\* The commands that run first and have a mark, an acknowledgement on the way, or a
\* heartbeat that carries them.
LEMMA CarriedRan ==
    ASSUME Typed, MarkedRan, NEW s \in Servers, NEW i \in Ids, RunsFirst(s, i), Carries(s, i)
    PROVE  ran[s][i] > 0
<1>1. CASE i \in round.acks
  BY <1>1 DEF Carries, MarkedRan
<1>2. CASE round.pc = "early" /\ i = FirstId
  BY <1>2 DEF Carries, Typed, RoundShape, endsTheProcess, FirstKind, RunsFirst
<1> QED BY <1>1, <1>2 DEF Carries

\* The command that the round marks or acknowledges ran.
LEMMA FirstMarked ==
    ASSUME Typed, RoundIsOwn, MarkedRan, NEW s \in Servers, round.srv = s, RunsFirst(s, FirstId),
           \/ round.pc \in {"early", "mark"}
           \/ AtCommand /\ RanCommand(FirstId)
    PROVE  ran[s][FirstId] > 0
<1>1. CASE round.pc = "early"
  BY <1>1 DEF Typed, RoundShape, endsTheProcess, FirstKind, RunsFirst
<1>2. CASE round.pc = "mark"
  BY <1>2 DEF MarkedRan
<1>3. CASE AtCommand /\ RanCommand(FirstId)
  <2>1. mem.srv = s /\ FirstId \in Ids
    BY <1>3, AtFirst DEF RoundIsOwn, AtCommand
  <2> QED BY <1>3, <2>1 DEF MarkedRan, RanCommand
<1> QED BY <1>1, <1>2, <1>3

\* What is marked or on its way to the server ran: the steps that keep the tables.
LEMMA MarkedKept ==
    ASSUME Typed, IdsAreOld, RoundIsOwn, MarkedRan, Kept
    PROVE  MarkedRan'
<1>0. kinds' = kinds /\ nextId' = nextId
  BY DEF Kept, TablesKept
<1>1. \A s \in Servers, i \in Ids : ran[s][i] > 0 => ran'[s][i] > 0
  <2> SUFFICES ASSUME NEW s \in Servers, NEW i \in Ids, ran[s][i] > 0 PROVE ran'[s][i] > 0
    OBVIOUS
  <2>1. ran'[s][i] >= ran[s][i]
    BY DEF Kept, RanKept
  <2>2. ran[s][i] \in Nat /\ ran'[s][i] \in Nat
    BY DEF Kept, Typed, TypeOK
  <2> QED BY <2>1, <2>2
<1>2. ASSUME NEW st \in {mem', disk'}, NEW s \in Servers, NEW i \in Ids, st.srv = s,
             InList(i, st.commands)
      PROVE  i < nextId[s] /\ (RunsFirst(s, i) => ran[s][i] > 0)
  <2>1. CASE \E old \in {mem, disk} : st.srv = old.srv /\ st.commands = old.commands
    BY <1>2, <2>1 DEF MarkedRan
  <2>2. CASE st.commands = <<>>
    <3>1. FALSE
      BY <1>2, <2>2 DEF InList
    <3> QED BY <3>1
  <2>3. CASE /\ st = MarkCommand(mem, FirstId)
             /\ round.pc = "mark" \/ (AtCommand /\ endsTheProcess(FirstKind))
    <3>1. FirstId \in Ids /\ FirstId \in round.todo /\ round.srv \in Servers /\ mem.srv = round.srv
      BY <2>3, AtFirst DEF RoundIsOwn, AtCommand
    <3>2. PICK id \in Ids : id = FirstId
      BY <3>1
    <3>3. st.srv = mem.srv /\ (i = id \/ InList(i, mem.commands))
      BY <1>2, <2>3, <3>2, MarkIs DEF Typed
    <3>4. CASE InList(i, mem.commands)
      BY <1>2, <3>3, <3>4 DEF MarkedRan
    <3>5. CASE i = id
      <4>1. s = round.srv /\ i = FirstId
        BY <1>2, <3>1, <3>2, <3>3, <3>5
      <4>2. i < nextId[s]
        BY <3>1, <4>1 DEF IdsAreOld
      <4>3. RunsFirst(s, i) => ran[s][i] > 0
        BY <2>3, <4>1, FirstMarked DEF endsTheProcess, FirstKind, RunsFirst
      <4> QED BY <4>2, <4>3
    <3> QED BY <3>3, <3>4, <3>5
  <2> QED BY <2>1, <2>2, <2>3 DEF Kept, StatesKept
<1>3. ASSUME NEW s \in Servers, NEW i \in Ids, round'.srv = s, RunsFirst(s, i), i \in round'.acks
      PROVE  ran[s][i] > 0
  <2>1. round.srv = s /\ \/ i \in round.acks
                         \/ i = FirstId /\ round.pc \in {"early", "mark"}
                         \/ i = FirstId /\ AtCommand /\ RanCommand(i)
    BY <1>3 DEF Kept, RoundKept
  <2>2. CASE i \in round.acks
    BY <1>3, <2>1, <2>2 DEF MarkedRan
  <2>3. CASE i = FirstId /\ (round.pc \in {"early", "mark"} \/ (AtCommand /\ RanCommand(FirstId)))
    BY <1>3, <2>1, <2>3, FirstMarked
  <2> QED BY <2>1, <2>2, <2>3
<1>4. ASSUME round'.pc = "mark" PROVE ran'[round'.srv][FirstId'] > 0
  <2>1. /\ round'.srv = round.srv /\ round'.todo = round.todo
        /\ round.pc = "mark" \/ ran'[round.srv][FirstId] > 0
    BY <1>4 DEF Kept, RanKept
  <2>2. FirstId' = FirstId
    BY <2>1, FirstIdKept
  <2>3. CASE round.pc = "mark"
    <3>1. FirstId \in Ids /\ round.srv \in Servers
      BY <2>3, AtFirst
    <3> QED BY <1>1, <2>1, <2>2, <2>3, <3>1 DEF MarkedRan
  <2> QED BY <2>1, <2>2, <2>3
<1> QED BY <1>0, <1>1, <1>2, <1>3, <1>4 DEF MarkedRan, RunsFirst

\* A row becomes acknowledged only by an answer of the device.
LEMMA AckedKept ==
    ASSUME Typed, MarkedRan, AckedRan, Kept
    PROVE  AckedRan'
<1> SUFFICES ASSUME NEW s \in Servers, NEW i \in Ids, rows'[s][i].state = "acked", RunsFirst(s, i)
             PROVE  ran'[s][i] > 0
  <2>1. kinds' = kinds
    BY DEF Kept, TablesKept
  <2> QED BY <2>1 DEF AckedRan, RunsFirst
<1>1. rows[s][i].state = "acked" \/ Carries(s, i)
  BY DEF Kept, TablesKept
<1>2. ran[s][i] > 0
  BY <1>1, CarriedRan DEF AckedRan, RunsFirst
<1>3. ran'[s][i] >= ran[s][i] /\ ran[s][i] \in Nat /\ ran'[s][i] \in Nat
  BY DEF Kept, RanKept, Typed, TypeOK
<1> QED BY <1>2, <1>3

\* A new command is neither marked nor acknowledged.
LEMMA AckedQueue ==
    ASSUME Typed, IdsAreOld, RoundIsOwn, MarkedRan, AckedRan,
           NEW s \in Servers, NEW k \in Kinds, QueueCommand(s, k)
    PROVE  RoundIsOwn' /\ MarkedRan' /\ AckedRan'
<1>1. UNCHANGED <<disk, mem, round>> /\ nextId[s] \in Ids /\ Waiting(rows'[s][nextId[s]])
  BY QueueIs DEF Typed
<1>2. \A t \in Servers, i \in Ids : t # s \/ i # nextId[s] =>
        /\ kinds'[t][i] = kinds[t][i] /\ ran'[t][i] = ran[t][i]
        /\ rows'[t][i].state = "acked" => rows[t][i].state = "acked"
  BY QueueIs DEF Typed
<1>3. \A t \in Servers, i \in Ids : i < nextId[t] => i < nextId'[t] /\ (t # s \/ i # nextId[s])
  <2> SUFFICES ASSUME NEW t \in Servers, NEW i \in Ids, i < nextId[t]
               PROVE  i < nextId'[t] /\ (t # s \/ i # nextId[s])
    OBVIOUS
  <2>1. nextId'[t] = nextId[t] \/ nextId'[t] = nextId[t] + 1
    BY QueueIs DEF Typed
  <2>2. i \in Nat /\ nextId[t] \in Nat
    BY FleetAssumption DEF Typed, TypeOK, Ids
  <2> QED BY <2>1, <2>2
<1>4. RoundIsOwn'
  BY <1>1 DEF RoundIsOwn
<1>5. MarkedRan'
  <2>1. ASSUME NEW st \in {mem, disk}, NEW t \in Servers, NEW i \in Ids, st.srv = t,
               InList(i, st.commands)
        PROVE  i < nextId'[t] /\ (RunsFirst(t, i)' => ran'[t][i] > 0)
    BY <1>2, <1>3, <2>1 DEF MarkedRan, RunsFirst
  <2>2. ASSUME NEW t \in Servers, NEW i \in Ids, round.srv = t, RunsFirst(t, i)', i \in round.acks
        PROVE  ran'[t][i] > 0
    BY <1>2, <1>3, <2>2 DEF MarkedRan, RunsFirst, IdsAreOld
  <2>3. ASSUME round.pc = "mark" PROVE ran'[round.srv][FirstId] > 0
    <3>1. FirstId \in Ids /\ FirstId \in round.todo /\ round.srv \in Servers
      BY <2>3, AtFirst
    <3> QED BY <1>2, <1>3, <2>3, <3>1 DEF MarkedRan, IdsAreOld
  <2>4. FirstId' = FirstId
    BY <1>1, FirstIdKept
  <2> QED BY <1>1, <2>1, <2>2, <2>3, <2>4 DEF MarkedRan
<1>6. AckedRan'
  <2> SUFFICES ASSUME NEW t \in Servers, NEW i \in Ids, rows'[t][i].state = "acked",
                      RunsFirst(t, i)'
               PROVE  ran'[t][i] > 0
    BY DEF AckedRan, RunsFirst
  <2>1. t # s \/ i # nextId[s]
    BY <1>1 DEF Waiting
  <2> QED BY <1>2, <2>1 DEF AckedRan, RunsFirst
<1> QED BY <1>4, <1>5, <1>6

\* AckedInv holds at the start.
LEMMA AckedInit == Init => AckedInv
<1> SUFFICES ASSUME Init PROVE AckedInv
  OBVIOUS
<1>1. RoundIsOwn /\ MarkedRan /\ AckedRan
  BY FleetAssumption DEF Init, RoundIsOwn, MarkedRan, AckedRan, Idle, Standalone, NoRow, InList
<1> QED BY <1>1, RenameInit DEF AckedInv

\* Every step keeps AckedInv where nothing is unpaired.
LEMMA AckedStep == NoUnpair /\ AckedInv /\ [Next]_vars => AckedInv'
<1> SUFFICES ASSUME NoUnpair, AckedInv, [Next]_vars PROVE AckedInv'
  OBVIOUS
<1>0. RenameInv' /\ Typed /\ IdsAreOld /\ RoundIsOwn /\ MarkedRan /\ AckedRan
  BY RenameStep, RenameTyped DEF AckedInv, RenameInv
<1>1. CASE UNCHANGED vars
  <2>1. RoundIsOwn' /\ MarkedRan' /\ AckedRan'
    BY <1>0, <1>1 DEF vars, serverVars, deviceVars, RoundIsOwn, MarkedRan, AckedRan, RunsFirst, FirstId
  <2> QED BY <1>0, <2>1 DEF AckedInv
<1>2. ASSUME NEW s \in Servers, NEW k \in Kinds, QueueCommand(s, k) PROVE AckedInv'
  BY <1>0, <1>2, AckedQueue DEF AckedInv
<1>3. CASE Kept
  BY <1>0, <1>3, OwnStep, MarkedKept, AckedKept DEF AckedInv
<1> QED BY <1>0, <1>1, <1>2, <1>3, Steps

\* A command that runs before it is marked shows as acknowledged only after the device ran
\* it: lost answers and heartbeats, crashes and saves that fail do not change that.  The
\* one thing it needs is that nobody unpairs the device by hand during a round.
THEOREM AckedDidRun == NoUnpair => (Spec => []AckedRan)
<1> SUFFICES ASSUME NoUnpair PROVE Spec => []AckedRan
  OBVIOUS
<1>1. AckedInv /\ [Next]_vars => AckedInv'
  BY AckedStep
<1>2. AckedInv => AckedRan
  BY DEF AckedInv
<1> QED BY <1>1, <1>2, AckedInit, PTL DEF Spec

-----------------------------------------------------------------------------
(* A reboot or an update runs once.                                        *)

Distinct(list) == \A j, k \in 1..Len(list) : list[j] = list[k] => j = k

\* A list with no ID twice that misses one of them is shorter than MaxId.
LEMMA ShortList ==
    ASSUME NEW list \in Seq(Ids), Distinct(list), NEW id \in Ids, ~InList(id, list)
    PROVE  Len(list) < MaxId
<1> DEFINE D == 1..Len(list)
           T == Ids \ {id}
<1>1. list \in [D -> T]
  BY DEF InList
<1>2. list \in Injection(D, T)
  BY <1>1 DEF Injection, IsInjective, Distinct
<1>3. MaxId \in Nat /\ MaxId >= 1 /\ Len(list) \in Nat
  BY FleetAssumption DEF Ids
<1>4. IsFiniteSet(Ids) /\ Cardinality(Ids) = MaxId
  <2>1. IsFiniteSet(1..MaxId) /\ Cardinality(1..MaxId) = IF 1 > MaxId THEN 0 ELSE MaxId - 1 + 1
    BY <1>3, FS_Interval
  <2> QED BY <1>3, <2>1 DEF Ids
<1>5. IsFiniteSet(T) /\ Cardinality(T) = MaxId - 1
  BY <1>4, FS_RemoveElement
<1>6. Cardinality(D) = Len(list)
  <2>1. Cardinality(1..Len(list)) = IF 1 > Len(list) THEN 0 ELSE Len(list) - 1 + 1
    BY <1>3, FS_Interval
  <2> QED BY <1>3, <2>1
<1> HIDE DEF D, T
<1>7. Cardinality(D) <= Cardinality(T)
  BY <1>2, <1>5, FS_Injection
<1> QED BY <1>3, <1>5, <1>6, <1>7

\* While the list of marks has room for every ID, a mark is added and none is forgotten.
LEMMA MarkKeeps ==
    ASSUME MaxId <= MaxCommands, NEW st, Good(st), Distinct(st.commands), NEW id \in Ids
    PROVE  /\ Distinct(MarkCommand(st, id).commands)
           /\ InList(id, MarkCommand(st, id).commands)
           /\ \A i \in Ids : InList(i, st.commands) => InList(i, MarkCommand(st, id).commands)
<1> DEFINE old == st.commands
           longer == Append(old, id)
<1>1. old \in Seq(Ids) /\ Len(old) \in Nat /\ st \in States
  BY DEF Good, States
<1>2. CASE InList(id, old)
  <2>1. MarkCommand(st, id) = st
    BY <1>2 DEF MarkCommand
  <2> QED BY <1>2, <2>1
<1>3. CASE ~InList(id, old)
  <2>1. Len(old) < MaxId
    <3> HIDE DEF old
    <3>1. Distinct(old)
      BY DEF old
    <3> QED BY <1>1, <1>3, <3>1, ShortList
  <2>2. /\ longer \in Seq(Ids) /\ Len(longer) = Len(old) + 1 /\ longer[Len(longer)] = id
        /\ \A k \in 1..Len(old) : longer[k] = old[k]
    BY <1>1
  <2>3. ~(Len(longer) > MaxCommands) /\ Len(longer) \in Nat
    BY <1>1, <2>1, <2>2, FleetAssumption
  <2>4. SubSeq(longer, 1, Len(longer)) = longer
    BY <2>2
  <2>5. MarkCommand(st, id).commands = longer
    BY <1>1, <1>3, <2>3, <2>4 DEF MarkCommand, States
  <2>6. \A k \in 1..Len(longer) : k \in 1..Len(old) \/ k = Len(longer)
    BY <1>1, <2>2
  <2>7. \A k \in 1..Len(old) : old[k] # id /\ k \in 1..Len(longer)
    BY <1>1, <1>3, <2>2 DEF InList
  <2>8. Len(longer) \in 1..Len(longer)
    BY <1>1, <2>2
  <2> HIDE DEF longer
  <2>9. Distinct(longer)
    BY <2>2, <2>6, <2>7 DEF Distinct
  <2>10. \A i \in Ids : InList(i, old) => InList(i, longer)
    BY <2>2, <2>7 DEF InList
  <2> QED BY <2>2, <2>5, <2>8, <2>9, <2>10 DEF InList
<1> QED BY <1>2, <1>3

\* With saves that work, no Unpair and no way back to a known row, the state goes to both
\* places, and a new pairing is one with a server that has no row of the device.
LEMMA SteadySteps ==
    ASSUME Steady, Typed, mem = disk, Next
    PROVE  /\ mem' = disk'
           /\ \/ mem'.srv = None /\ mem'.commands = <<>>
              \/ mem'.srv = mem.srv /\ mem'.commands = mem.commands
              \/ /\ mem' = MarkCommand(mem, FirstId)
                 /\ round.pc = "mark" \/ AtCommand
              \/ /\ mem'.srv \in Servers /\ ~device[mem'.srv].known /\ mem.srv = None
                 /\ mem'.commands = <<>> /\ UNCHANGED <<round, ran, kinds>>
<1>0. "save" \notin Events /\ "unpair" \notin Events /\ "rejoin" \notin Events
  BY DEF Steady
<1>1. ASSUME NEW new, NEW ok \in BOOLEAN, SaveState(new, ok) PROVE mem' = new /\ disk' = new
  BY <1>0, <1>1 DEF SaveState, Fault
<1>2. CASE UNCHANGED <<mem, disk>>
  BY <1>2
<1>3. ASSUME NEW s \in Servers, Pair(s)
      PROVE  /\ mem' = disk' /\ mem'.srv \in Servers /\ ~device[mem'.srv].known /\ mem.srv = None
             /\ mem'.commands = <<>> /\ UNCHANGED <<round, ran, kinds>>
  <2>1. PICK new : new = [srv |-> s, token |-> pairings + 1, commands |-> <<>>, fleet |-> None]
    OBVIOUS
  <2>2. mem' = new /\ disk' = new
    BY <1>1, <1>3, <2>1 DEF Pair
  <2>3. new.srv = s /\ new.commands = <<>>
    BY <2>1
  <2> QED BY <1>0, <1>3, <2>2, <2>3 DEF Pair
<1>4. CASE DropToken
  BY <1>1, <1>4 DEF DropToken, Standalone
<1>5. CASE SaveRules
  <2>1. (mem' = KeptState /\ disk' = KeptState) \/ UNCHANGED <<mem, disk>>
    BY <1>1, <1>5 DEF SaveRules
  <2>2. KeptState.srv = mem.srv /\ KeptState.commands = mem.commands
    BY DEF KeptState, Typed, Good, States
  <2> QED BY <1>2, <2>1, <2>2
<1>6. CASE MarkFirst \/ MarkAfter
  <2>1. mem' = MarkCommand(mem, FirstId) /\ disk' = MarkCommand(mem, FirstId)
    BY <1>1, <1>6 DEF MarkFirst, MarkAfter
  <2> QED BY <1>6, <2>1 DEF MarkFirst, MarkAfter
<1>7. CASE RunEnder \/ Crash
  BY <1>7 DEF RunEnder, Crash, Restart
<1>8. \/ UNCHANGED <<mem, disk>>
      \/ DropToken \/ SaveRules \/ MarkFirst \/ MarkAfter \/ RunEnder \/ Crash
      \/ \E s \in Servers : Pair(s)
  <2>1. ASSUME RoundStep
        PROVE  \/ UNCHANGED <<mem, disk>>
               \/ DropToken \/ SaveRules \/ MarkFirst \/ MarkAfter \/ RunEnder
    BY <2>1 DEF RoundStep, RunStep, BeginRound, FetchManifest, FetchRefused, ForgetFleet,
       TakeAnswer, ApplyManifest, CheckRules, SetFleetRules, Repeat, AckFirst, Execute, EndRound
  <2>2. ASSUME NEW s \in Servers, ServerStep(s) \/ ClockStep(s) \/ PairLost(s)
        PROVE  UNCHANGED <<mem, disk>>
    BY <2>2 DEF ServerStep, ClockStep, QueueCommand, SweepCommands, RevokeToken, DeleteDevice,
       TenMinutes, GrowOld, PairLost, deviceVars
  <2>3. ~Unpair
    BY <1>0 DEF Unpair
  <2> QED BY <2>1, <2>2, <2>3 DEF Next
<1> QED BY <1>2, <1>3, <1>4, <1>5, <1>6, <1>7, <1>8

\* The marks of the pairing stay: what the memory had marked is marked after the step, as
\* long as the device stays with the server.
LEMMA MarksStay ==
    ASSUME Steady, Typed, SavedState, RoundIsOwn, Next
    PROVE  /\ SavedState'
           /\ \/ mem'.srv = None
              \/ mem'.srv = mem.srv /\ \A i \in Ids : InList(i, mem.commands) => InList(i, mem'.commands)
              \/ /\ mem'.srv \in Servers /\ ~device[mem'.srv].known /\ mem.srv = None
                 /\ UNCHANGED <<round, ran, kinds>>
<1>0. mem = disk /\ Distinct(mem.commands) /\ MaxId <= MaxCommands
  BY DEF SavedState, Steady, Distinct
<1>1. mem' = disk'
  BY <1>0, SteadySteps
<1>2. CASE mem'.srv = mem.srv /\ mem'.commands = mem.commands
  BY <1>0, <1>1, <1>2 DEF SavedState, Distinct
<1>3. CASE mem' = MarkCommand(mem, FirstId) /\ (round.pc = "mark" \/ AtCommand)
  <2>1. PICK id \in Ids : id = FirstId
    BY <1>3, AtFirst
  <2>2. /\ mem'.srv = mem.srv /\ Distinct(mem'.commands)
        /\ \A i \in Ids : InList(i, mem.commands) => InList(i, mem'.commands)
    BY <1>0, <1>3, <2>1, MarkIs, MarkKeeps DEF Typed
  <2> QED BY <1>1, <2>2 DEF SavedState, Distinct
<1>4. CASE mem'.commands = <<>>
  <2>1. Distinct(mem'.commands)
    BY <1>4 DEF Distinct
  <2> QED BY <1>0, <1>1, <1>2, <1>3, <2>1, SteadySteps DEF SavedState, Distinct
<1> QED BY <1>0, <1>2, <1>3, <1>4, SteadySteps

\* A pairing with a server that has no row of the device has nothing to run.
LEMMA FreshIsEmpty ==
    ASSUME Typed, IdsAreOld, RoundIsOwn, mem.srv = None, NEW s \in Servers, ~device[s].known,
           NEW i \in Ids
    PROVE  ~Live(s, i)
<1>1. rows[s][i].state = "none"
  BY DEF IdsAreOld
<1>2. round.srv = s => i \notin round.todo
  BY FleetAssumption DEF RoundIsOwn, Typed, RoundShape
<1> QED BY <1>1, <1>2 DEF Live, Waiting

\* A command that ends the daemon is marked on disk before it runs: the steps that keep
\* the tables.
LEMMA EndersKept ==
    ASSUME Steady, Typed, IdsAreOld, RoundIsOwn, RoundIsOwn', SavedState, EndersAreMarked,
           EndersRunOnce, Next, Kept
    PROVE  EndersAreMarked' /\ EndersRunOnce'
<1>0. kinds' = kinds
  BY DEF Kept, TablesKept
<1>1. \A s \in Servers, i \in Ids : ran[s][i] \in Nat /\ ran'[s][i] \in Nat
  BY DEF Kept, Typed, TypeOK
<1>2. ASSUME NEW s \in Servers, NEW i \in Ids, endsTheProcess(kinds[s][i]), ran'[s][i] # ran[s][i]
      PROVE  /\ s = round.srv /\ i = FirstId /\ round.pc = "ender"
             /\ round'.pc \notin {"early", "ender"} /\ ran[s][i] = 0 /\ ran'[s][i] <= 1
             /\ InList(i, mem.commands) /\ mem.srv = s
  <2>1. /\ s = round.srv /\ i = FirstId /\ round'.pc \notin {"early", "ender"}
        /\ ran'[s][i] <= ran[s][i] + 1
        /\ round.pc = "ender" \/ ~endsTheProcess(FirstKind)
    BY <1>2 DEF Kept, RanKept
  <2>2. round.pc = "ender"
    BY <1>2, <2>1 DEF FirstKind
  <2>3. InList(i, mem.commands) /\ ran[s][i] = 0 /\ mem.srv = s
    BY <2>1, <2>2 DEF EndersAreMarked, RoundIsOwn
  <2> QED BY <1>1, <2>1, <2>2, <2>3
<1>3. ASSUME NEW s \in Servers, NEW i \in Ids, endsTheProcess(kinds[s][i]), ran'[s][i] > 0,
             mem'.srv = s, Live(s, i)'
      PROVE  InList(i, mem'.commands)
  <2>1. Live(s, i)
    BY <1>3, LiveKept
  <2>2. CASE mem'.srv = mem.srv
    <3>1. InList(i, mem.commands)
      <4>1. CASE ran'[s][i] # ran[s][i]
        BY <1>2, <1>3, <4>1
      <4>2. CASE ran'[s][i] = ran[s][i]
        BY <1>3, <2>1, <2>2, <4>2 DEF EndersAreMarked
      <4> QED BY <4>1, <4>2
    <3>2. s # None
      BY FleetAssumption
    <3> QED BY <1>3, <2>2, <3>1, <3>2, MarksStay
  <2>3. CASE mem'.srv # mem.srv
    <3>1. ~device[s].known /\ mem.srv = None
      BY <1>3, <2>3, MarksStay, FleetAssumption
    <3> QED BY <2>1, <3>1, FreshIsEmpty
  <2> QED BY <2>2, <2>3
<1>4. ASSUME round'.pc \in {"early", "ender"}
      PROVE  InList(FirstId', mem'.commands) /\ ran'[round'.srv][FirstId'] = 0
  <2>1. /\ round'.srv = round.srv /\ round'.todo = round.todo
        /\ \/ round.pc \in {"early", "ender"}
           \/ AtCommand /\ ~RanCommand(FirstId) /\ mem' = MarkCommand(mem, FirstId)
    BY <1>4 DEF Kept, EarlyKept
  <2>2. FirstId' = FirstId /\ FirstKind' = FirstKind
    BY <1>0, <2>1, FirstIdKept, FirstKindKept
  <2>3. /\ FirstId \in Ids /\ FirstId \in round.todo /\ round.srv \in Servers
        /\ mem.srv = round.srv
    BY <2>1, AtFirst DEF RoundIsOwn, AtCommand
  <2>4. endsTheProcess(kinds[round.srv][FirstId])
    BY <1>4, <2>2 DEF Kept, RoundShape, FirstKind, endsTheProcess
  <2>5. ran'[round.srv][FirstId] = ran[round.srv][FirstId]
    BY <1>2, <1>4, <2>3, <2>4
  <2>6. CASE round.pc \in {"early", "ender"}
    <3>1. InList(FirstId, mem.commands) /\ ran[round.srv][FirstId] = 0
      BY <2>6 DEF EndersAreMarked
    <3>2. mem'.srv = round.srv /\ mem'.srv # None
      BY <1>4, <2>1, <2>3, FleetAssumption DEF RoundIsOwn
    <3>3. InList(FirstId, mem'.commands)
      BY <2>3, <3>1, <3>2, MarksStay
    <3> QED BY <2>1, <2>2, <2>5, <3>1, <3>3
  <2>7. CASE AtCommand /\ ~RanCommand(FirstId) /\ mem' = MarkCommand(mem, FirstId)
    <3>1. PICK id \in Ids : id = FirstId
      BY <2>3
    <3>2. InList(id, mem'.commands)
      BY <2>7, <3>1, MarkKeeps DEF Typed, SavedState, Distinct, Steady
    <3>3. ~(ran[round.srv][FirstId] > 0)
      BY <2>3, <2>4, <2>7 DEF EndersAreMarked, Live, RanCommand
    <3> QED BY <1>1, <2>1, <2>2, <2>3, <2>5, <3>1, <3>2, <3>3
  <2> QED BY <2>1, <2>6, <2>7
<1>5. EndersRunOnce'
  <2> SUFFICES ASSUME NEW s \in Servers, NEW i \in Ids, endsTheProcess(kinds[s][i])
               PROVE  ran'[s][i] <= 1
    BY <1>0 DEF EndersRunOnce, endsTheProcess
  <2> QED BY <1>2 DEF EndersRunOnce, endsTheProcess
<1>6. EndersAreMarked'
  BY <1>0, <1>3, <1>4 DEF EndersAreMarked
<1> QED BY <1>5, <1>6

\* A new command that ends the daemon did not run yet.
LEMMA EndersQueue ==
    ASSUME Typed, IdsAreOld, SavedState, EndersAreMarked, EndersRunOnce,
           NEW s \in Servers, NEW k \in Kinds, QueueCommand(s, k)
    PROVE  SavedState' /\ EndersAreMarked' /\ EndersRunOnce'
<1>1. /\ UNCHANGED <<disk, mem, round>> /\ nextId[s] \in Ids /\ ran'[s][nextId[s]] = 0
  BY QueueIs DEF Typed
<1>2. \A t \in Servers, i \in Ids : t # s \/ i # nextId[s] =>
        /\ kinds'[t][i] = kinds[t][i] /\ ran'[t][i] = ran[t][i]
        /\ Waiting(rows'[t][i]) => Waiting(rows[t][i])
  BY QueueIs DEF Typed
<1>3. SavedState'
  BY <1>1 DEF SavedState
<1>4. ASSUME NEW t \in Servers, NEW i \in Ids, endsTheProcess(kinds'[t][i]), ran'[t][i] > 0,
             mem.srv = t, Live(t, i)'
      PROVE  InList(i, mem.commands)
  <2>1. t # s \/ i # nextId[s]
    BY <1>1, <1>4
  <2>2. Live(t, i)
    BY <1>1, <1>2, <1>4, <2>1 DEF Live
  <2> QED BY <1>2, <1>4, <2>1, <2>2 DEF EndersAreMarked
<1>5. ASSUME round.pc \in {"early", "ender"}
      PROVE  InList(FirstId, mem.commands) /\ ran'[round.srv][FirstId] = 0
  <2>1. FirstId \in Ids /\ FirstId \in round.todo /\ round.srv \in Servers
    BY <1>5, AtFirst
  <2>2. FirstId < nextId[round.srv]
    BY <2>1 DEF IdsAreOld
  <2>3. round.srv # s \/ FirstId # nextId[s]
    BY <1>1, <2>1, <2>2, FleetAssumption DEF Ids
  <2> QED BY <1>2, <1>5, <2>1, <2>3 DEF EndersAreMarked
<1>6. FirstId' = FirstId
  BY <1>1, FirstIdKept
<1>7. EndersAreMarked'
  BY <1>1, <1>4, <1>5, <1>6 DEF EndersAreMarked
<1>8. EndersRunOnce'
  <2> SUFFICES ASSUME NEW t \in Servers, NEW i \in Ids, endsTheProcess(kinds'[t][i])
               PROVE  ran'[t][i] <= 1
    BY DEF EndersRunOnce, endsTheProcess
  <2>1. CASE t = s /\ i = nextId[s]
    BY <1>1, <2>1
  <2>2. CASE ~(t = s /\ i = nextId[s])
    BY <1>2, <2>2 DEF EndersRunOnce, endsTheProcess
  <2> QED BY <2>1, <2>2
<1> QED BY <1>3, <1>7, <1>8

\* EndersInv holds at the start.
LEMMA EndersInit == Init => EndersInv
<1> SUFFICES ASSUME Init PROVE EndersInv
  OBVIOUS
<1>1. SavedState /\ EndersAreMarked
  BY FleetAssumption DEF Init, SavedState, EndersAreMarked, Idle, Standalone
<1>2. EndersRunOnce
  BY DEF Init, EndersRunOnce
<1> QED BY <1>1, <1>2, AckedInit DEF EndersInv

\* Every step keeps EndersInv where the device is steady.
LEMMA EndersStep == Steady /\ EndersInv /\ [Next]_vars => EndersInv'
<1> SUFFICES ASSUME Steady, EndersInv, [Next]_vars PROVE EndersInv'
  OBVIOUS
<1>0. /\ AckedInv' /\ RoundIsOwn' /\ Typed /\ IdsAreOld /\ RoundIsOwn
      /\ SavedState /\ EndersAreMarked /\ EndersRunOnce
  <2>1. NoUnpair
    BY DEF Steady, NoUnpair
  <2>2. AckedInv' /\ AckedInv
    BY <2>1, AckedStep DEF EndersInv
  <2> QED BY <2>2, RenameTyped DEF EndersInv, AckedInv, RenameInv
<1>1. CASE UNCHANGED vars
  <2>1. SavedState' /\ EndersAreMarked' /\ EndersRunOnce'
    BY <1>0, <1>1 DEF vars, serverVars, deviceVars, SavedState, EndersAreMarked, EndersRunOnce,
       Live, FirstId
  <2> QED BY <1>0, <2>1 DEF EndersInv
<1>2. ASSUME NEW s \in Servers, NEW k \in Kinds, QueueCommand(s, k) PROVE EndersInv'
  BY <1>0, <1>2, EndersQueue DEF EndersInv
<1>3. CASE Next /\ Kept
  BY <1>0, <1>3, EndersKept, MarksStay DEF EndersInv
<1> QED BY <1>0, <1>1, <1>2, <1>3, Steps

\* A reboot or an update runs at most once, for every number of servers, deliveries, lost
\* messages and crashes, when the saves work, the device leaves a server only because that
\* refuses it, and the list of marks has room for every command.
THEOREM EndersRanOnce == Steady => (Spec => []EndersRunOnce)
<1> SUFFICES ASSUME Steady PROVE Spec => []EndersRunOnce
  OBVIOUS
<1>1. EndersInv /\ [Next]_vars => EndersInv'
  BY EndersStep
<1>2. EndersInv => EndersRunOnce
  BY DEF EndersInv
<1> QED BY <1>1, <1>2, EndersInit, PTL DEF Spec
=============================================================================
