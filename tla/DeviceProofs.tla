---------------------------- MODULE DeviceProofs ----------------------------
(***************************************************************************)
(* Proofs about the components of the device, as MCDevice composes them:   *)
(* for every size of the queues and any number of events.                  *)
(***************************************************************************)
EXTENDS MCDevice, FiniteSetTheorems, SequenceTheorems, WellFoundedInduction, TLAPS

-----------------------------------------------------------------------------
(* Numbers and queues.                                                     *)

\* A set of numbers that is not empty has a least one.
LEMMA LeastOf ==
    ASSUME NEW S \in SUBSET Nat, S # {}
    PROVE  \E x \in S : \A y \in S : x <= y
<1> DEFINE Below(x) == {k \in S : k <= x}
           F == {Below(x) : x \in S}
<1>1. \A x \in S : Below(x) \in FiniteSubsetsOf(S)
  <2> TAKE x \in S
  <2>1. IsFiniteSet(Below(x))
    <3>1. Below(x) \in SUBSET Nat /\ x \in Nat /\ \A s \in Below(x) : s <= x
      OBVIOUS
    <3> HIDE DEF Below
    <3> QED BY <3>1, FS_BoundedSetOfNaturals
  <2> QED BY <2>1 DEF FiniteSubsetsOf
<1>2. IsWellFoundedOn(StrictSubsetOrdering(S), FiniteSubsetsOf(S))
  BY FS_StrictSubsetOrderingWellFounded
<1>3. PICK T \in F : \A U \in F : ~(<<U, T>> \in StrictSubsetOrdering(S))
  <2>1. F \subseteq FiniteSubsetsOf(S) /\ F # {}
    BY <1>1
  <2> HIDE DEF F
  <2> QED BY <1>2, <2>1, WFMin
<1>4. PICK x \in S : T = Below(x)
  OBVIOUS
<1> HIDE DEF F
<1>5. ASSUME NEW y \in S, y < x PROVE FALSE
  <2>0. x \in Nat /\ y \in Nat /\ \A k \in S : k \in Nat
    OBVIOUS
  <2>1. Below(y) \in SUBSET S /\ T \in SUBSET S
    BY <1>4
  <2>2. Below(y) \subseteq Below(x) /\ x \in Below(x) /\ x \notin Below(y)
    <3>1. ~(x <= y) /\ x <= x /\ \A k \in S : k <= y => k <= x
      BY <1>5, <2>0
    <3>2. x \in Below(x) /\ x \notin Below(y)
      BY <3>1
    <3>3. Below(y) \subseteq Below(x)
      BY <3>1
    <3> QED BY <3>2, <3>3
  <2>3. Below(y) # T
    BY <1>4, <2>2
  <2>4. <<Below(y), T>> \in StrictSubsetOrdering(S)
    BY <1>4, <2>1, <2>2, <2>3 DEF StrictSubsetOrdering
  <2> QED BY <1>3, <2>4 DEF F
<1> QED BY <1>5

-----------------------------------------------------------------------------
(* The screen power controller.                                            *)

Msgs == [kind : {"suspend", "resume", "restart"}, mine : BOOLEAN]
Players == [cmds : Seq(Msgs), suspended : BOOLEAN, mpv : BOOLEAN]

\* The last message that is not a restart decides.
LEMMA EndsAt ==
    ASSUME NEW p \in Players, NEW i \in 1..Len(p.cmds), p.cmds[i].kind # "restart",
           \A j \in 1..Len(p.cmds) : j > i => p.cmds[j].kind = "restart"
    PROVE  Power!Ends(p) = (p.cmds[i].kind = "suspend")
<1> DEFINE awake == {k \in 1..Len(p.cmds) : p.cmds[k].kind # "restart"}
           m == CHOOSE k \in awake : \A j \in awake : j <= k
<1>1. i \in awake /\ \A j \in awake : j <= i
  BY DEF Players
<1>2. m \in awake /\ \A j \in awake : j <= m
  BY <1>1
<1>3. m = i
  <2>1. m \in 1..Len(p.cmds) /\ m <= i /\ i <= m
    BY <1>1, <1>2
  <2> HIDE DEF m
  <2> QED BY <2>1
<1> QED BY <1>1, <1>3 DEF Power!Ends

\* Without one, the player stays as it is.
LEMMA EndsAsIs ==
    ASSUME NEW p \in Players, \A j \in 1..Len(p.cmds) : p.cmds[j].kind = "restart"
    PROVE  Power!Ends(p) = p.suspended
BY DEF Power!Ends

\* One of the two is the case.
LEMMA LastMessage ==
    ASSUME NEW p \in Players
    PROVE  \/ \A j \in 1..Len(p.cmds) : p.cmds[j].kind = "restart"
           \/ \E i \in 1..Len(p.cmds) :
                /\ p.cmds[i].kind # "restart"
                /\ \A j \in 1..Len(p.cmds) : j > i => p.cmds[j].kind = "restart"
<1>1. PICK n \in Nat : n = Len(p.cmds)
  BY DEF Players
<1> DEFINE Wakes(j) == p.cmds[j].kind # "restart"
           S == {k \in Nat : k < n /\ Wakes(n - k)}
<1>2. CASE S = {}
  <2> SUFFICES ASSUME NEW j \in 1..n, Wakes(j) PROVE FALSE
    BY <1>1
  <2>1. n - j \in Nat /\ n - j < n /\ n - (n - j) = j
    OBVIOUS
  <2> HIDE DEF Wakes
  <2> QED BY <1>2, <2>1
<1>3. CASE S # {}
  <2>1. PICK k \in S : \A y \in S : k <= y
    <3>1. S \in SUBSET Nat
      OBVIOUS
    <3> HIDE DEF S
    <3> QED BY <1>3, <3>1, LeastOf
  <2>2. n - k \in 1..n /\ Wakes(n - k)
    <3>1. k \in Nat /\ k < n /\ Wakes(n - k)
      OBVIOUS
    <3> HIDE DEF Wakes
    <3> QED BY <3>1
  <2>3. ASSUME NEW j \in 1..n, j > n - k, Wakes(j) PROVE FALSE
    <3>1. n - j \in Nat /\ n - j < n /\ n - (n - j) = j /\ ~(k <= n - j)
      BY <2>3, <2>1
    <3>2. n - j \in S
      <4> HIDE DEF Wakes
      <4> QED BY <2>3, <3>1
    <3> QED BY <2>1, <3>1, <3>2
  <2> QED BY <1>1, <2>2, <2>3
<1> QED BY <1>2, <1>3

\* In both cases the end is known.
LEMMA EndsBool == ASSUME NEW p \in Players PROVE Power!Ends(p) \in BOOLEAN
<1>1. CASE \A j \in 1..Len(p.cmds) : p.cmds[j].kind = "restart"
  <2>1. Power!Ends(p) = p.suspended
    BY <1>1, EndsAsIs
  <2> QED BY <2>1 DEF Players
<1>2. ASSUME NEW i \in 1..Len(p.cmds), p.cmds[i].kind # "restart",
             \A j \in 1..Len(p.cmds) : j > i => p.cmds[j].kind = "restart"
      PROVE  Power!Ends(p) \in BOOLEAN
  <2>1. Power!Ends(p) = (p.cmds[i].kind = "suspend")
    BY <1>2, EndsAt
  <2> QED BY <2>1
<1> QED BY <1>1, <1>2, LastMessage

\* What a message at the end of the queue changes.
LEMMA EndsAppend ==
    ASSUME NEW p \in Players, NEW q \in Players, NEW c \in Msgs,
           q.cmds = Append(p.cmds, c), q.suspended = p.suspended
    PROVE  Power!Ends(q) = IF c.kind = "restart" THEN Power!Ends(p) ELSE c.kind = "suspend"
<1>1. /\ Len(p.cmds) \in Nat /\ Len(q.cmds) = Len(p.cmds) + 1
      /\ q.cmds[Len(p.cmds) + 1] = c /\ \A i \in 1..Len(p.cmds) : q.cmds[i] = p.cmds[i]
  BY DEF Players
<1>2. \A i \in 1..Len(q.cmds) : i \in 1..Len(p.cmds) \/ i = Len(p.cmds) + 1
  BY <1>1
<1>3. CASE c.kind # "restart"
  <2>1. Len(q.cmds) \in 1..Len(q.cmds) /\ \A j \in 1..Len(q.cmds) : ~(j > Len(q.cmds))
    BY <1>1
  <2> QED BY <1>1, <1>3, <2>1, EndsAt
<1>4. CASE c.kind = "restart" /\ \A j \in 1..Len(p.cmds) : p.cmds[j].kind = "restart"
  <2>1. \A j \in 1..Len(q.cmds) : q.cmds[j].kind = "restart"
    BY <1>1, <1>2, <1>4
  <2> QED BY <1>4, <2>1, EndsAsIs
<1>5. ASSUME c.kind = "restart",
             NEW i \in 1..Len(p.cmds), p.cmds[i].kind # "restart",
             \A j \in 1..Len(p.cmds) : j > i => p.cmds[j].kind = "restart"
      PROVE  Power!Ends(q) = Power!Ends(p)
  <2>1. i \in 1..Len(q.cmds) /\ q.cmds[i] = p.cmds[i]
    BY <1>1
  <2>2. \A j \in 1..Len(q.cmds) : j > i => q.cmds[j].kind = "restart"
    BY <1>1, <1>2, <1>5
  <2>3. Power!Ends(q) = (q.cmds[i].kind = "suspend")
    BY <1>5, <2>1, <2>2, EndsAt
  <2>4. Power!Ends(p) = (p.cmds[i].kind = "suspend")
    BY <1>5, EndsAt
  <2> QED BY <2>1, <2>3, <2>4
<1> QED BY <1>3, <1>4, <1>5, LastMessage

\* Taking a message changes nothing of that.
LEMMA EndsTail ==
    ASSUME NEW p \in Players, NEW q \in Players, p.cmds # <<>>, q.cmds = Tail(p.cmds),
           q.suspended = CASE Head(p.cmds).kind = "suspend" -> TRUE
                           [] Head(p.cmds).kind = "resume" -> FALSE
                           [] OTHER -> p.suspended
    PROVE  Power!Ends(q) = Power!Ends(p)
<1>1. /\ Len(p.cmds) \in Nat \ {0} /\ Len(q.cmds) = Len(p.cmds) - 1
      /\ Head(p.cmds) = p.cmds[1] /\ p.cmds[1] \in Msgs
      /\ \A i \in 1..Len(q.cmds) : q.cmds[i] = p.cmds[i + 1]
  BY DEF Players
<1>2. \A i \in 1..Len(p.cmds) : i = 1 \/ (i - 1 \in 1..Len(q.cmds) /\ p.cmds[i] = q.cmds[i - 1])
  BY <1>1
<1>3. CASE \A j \in 1..Len(p.cmds) : p.cmds[j].kind = "restart"
  <2>1. \A j \in 1..Len(q.cmds) : q.cmds[j].kind = "restart"
    BY <1>1, <1>3, SMTT(30)
  <2>2. p.cmds[1].kind = "restart"
    BY <1>1, <1>3
  <2> QED BY <1>1, <1>3, <2>1, <2>2, EndsAsIs
<1>4. ASSUME NEW i \in 1..Len(p.cmds), p.cmds[i].kind # "restart",
             \A j \in 1..Len(p.cmds) : j > i => p.cmds[j].kind = "restart"
      PROVE  Power!Ends(q) = Power!Ends(p)
  <2>1. CASE i = 1
    <3>1. \A j \in 1..Len(q.cmds) : q.cmds[j].kind = "restart"
      BY <1>1, <1>4, <2>1
    <3>2. Power!Ends(q) = (p.cmds[1].kind = "suspend")
      <4>1. p.cmds[1].kind \in {"suspend", "resume"}
        BY <1>1, <1>4, <2>1 DEF Msgs
      <4>2. q.suspended = (p.cmds[1].kind = "suspend")
        BY <1>1, <4>1
      <4> QED BY <3>1, <4>2, EndsAsIs
    <3> QED BY <1>4, <2>1, <3>2, EndsAt
  <2>2. CASE i # 1
    <3>1. i - 1 \in 1..Len(q.cmds) /\ p.cmds[i] = q.cmds[i - 1]
      BY <1>2, <2>2
    <3>2. ASSUME NEW j \in 1..Len(q.cmds), j > i - 1 PROVE q.cmds[j].kind = "restart"
      <4>1. j + 1 \in 1..Len(p.cmds) /\ j + 1 > i /\ q.cmds[j] = p.cmds[j + 1]
        BY <1>1, <3>2
      <4> QED BY <1>4, <4>1
    <3>3. Power!Ends(q) = (q.cmds[i - 1].kind = "suspend")
      BY <1>4, <3>1, <3>2, EndsAt
    <3>4. Power!Ends(p) = (p.cmds[i].kind = "suspend")
      BY <1>4, EndsAt
    <3> QED BY <3>1, <3>3, <3>4
  <2> QED BY <2>1, <2>2
<1> QED BY <1>3, <1>4, LastMessage

Ctls == [up : BOOLEAN, on : BOOLEAN, manual : {"none", "on", "off"},
         lastWant : BOOLEAN, chosen : {"cec", "dpms", "none", "unset"}, cec : BOOLEAN,
         offBy : {"unset", "cec", "dpms"}]
Displays == [standby : BOOLEAN, held : BOOLEAN]

\* PowerInv holds at the start.
LEMMA PowerInit == Power!Init => Power!PowerInv
<1> SUFFICES ASSUME Power!Init PROVE Power!PowerInv
  OBVIOUS
<1>1. player \in Players /\ player.cmds = <<>> /\ ~player.suspended /\ ~player.mpv
  <2>1. <<>> \in Seq(Msgs)
    OBVIOUS
  <2> QED BY <2>1 DEF Power!Init, Power!NewPlayer, Players
<1>2. Power!TypeOK
  BY <1>1, BoundAssumption DEF Power!Init, Power!TypeOK, Power!NewController, Power!Methods,
     Players, Msgs
<1>3. Power!Ends(player) = FALSE
  <2>1. player.suspended = FALSE /\ \A j \in 1..Len(player.cmds) : player.cmds[j].kind = "restart"
    BY <1>1 DEF Power!Init, Power!NewPlayer
  <2> QED BY <1>1, <2>1, EndsAsIs
<1>4. /\ job = "idle" /\ DOMAIN player.cmds = {} /\ ctl.on = TRUE /\ ctl.up = FALSE
      /\ ~display.held /\ ~display.standby
  BY <1>1 DEF Power!Init, Power!NewController
<1>5. Power!AnswerIsOwn
  BY <1>1, <1>4 DEF Power!AnswerIsOwn
<1>6. Power!TransitionIsTrue
  BY <1>3, <1>4 DEF Power!TransitionIsTrue
<1>7. Power!OffIsKnown
  BY <1>4 DEF Power!OffIsKnown
<1> QED BY <1>2, <1>5, <1>6, <1>7 DEF Power!PowerInv

\* An event stays in its bound.
LEMMA PowerCount == ASSUME Power!TypeOK, NEW e, Power!Event(e) PROVE changes' \in 0..MaxChanges
BY BoundAssumption DEF Power!TypeOK, Power!Event

\* A message of the controller, or a restart, at the end of the queue.
LEMMA Queued ==
    ASSUME Power!TypeOK, ~Power!Full, NEW kind \in {"suspend", "resume", "restart"},
           player' = Power!Queue(kind)
    PROVE  /\ player' \in Players /\ Len(player'.cmds) <= QueueSize
           /\ player'.suspended = player.suspended /\ player'.mpv = player.mpv
           /\ Len(player.cmds) \in Nat /\ Len(player'.cmds) = Len(player.cmds) + 1
           /\ \A i \in 1..Len(player.cmds) : player'.cmds[i] = player.cmds[i]
           /\ player'.cmds[Len(player'.cmds)] = [kind |-> kind, mine |-> kind = "suspend"]
           /\ Power!Ends(player') =
                IF kind = "restart" THEN Power!Ends(player) ELSE kind = "suspend"
<1> DEFINE c == [kind |-> kind, mine |-> kind = "suspend"]
<1>1. c \in Msgs /\ c.kind = kind
  BY DEF Msgs
<1>2. player \in Players
  BY DEF Power!TypeOK, Players, Msgs
<1>3. player' = [player EXCEPT !.cmds = Append(player.cmds, c)]
  BY DEF Power!Queue
<1> HIDE DEF c
<1>4. /\ player' \in Players /\ player'.cmds = Append(player.cmds, c)
      /\ player'.suspended = player.suspended /\ player'.mpv = player.mpv
  BY <1>1, <1>2, <1>3, SMTT(30) DEF Players
<1>5. /\ Len(player.cmds) \in Nat /\ Len(player'.cmds) = Len(player.cmds) + 1
      /\ \A i \in 1..Len(player.cmds) : player'.cmds[i] = player.cmds[i]
      /\ player'.cmds[Len(player.cmds) + 1] = c
  BY <1>1, <1>2, <1>4 DEF Players
<1>6. Len(player'.cmds) <= QueueSize
  BY <1>5, BoundAssumption DEF Power!Full
<1>7. Power!Ends(player') = IF kind = "restart" THEN Power!Ends(player) ELSE kind = "suspend"
  BY <1>1, <1>2, <1>4, EndsAppend
<1> QED BY <1>4, <1>5, <1>6, <1>7 DEF c

\* A transition begins in the right direction.
LEMMA BeginIs ==
    ASSUME NEW from \in BOOLEAN, NEW to \in BOOLEAN
    PROVE  /\ Power!Begin(from, to) \in {"idle", "light", "stop"}
           /\ Power!Begin(from, to) = "light" => ~from
           /\ Power!Begin(from, to) = "stop" => from
<1>1. CASE from /\ to
  BY <1>1 DEF Power!Begin
<1>2. CASE from /\ ~to
  BY <1>2 DEF Power!Begin
<1>3. CASE ~from /\ to
  BY <1>3 DEF Power!Begin
<1>4. CASE ~from /\ ~to
  BY <1>4 DEF Power!Begin
<1> QED BY <1>1, <1>2, <1>3, <1>4

\* The starts of a transition: nothing but the record of the controller changes.
LEMMA PowerBegin ==
    ASSUME Power!PowerInv, Power!Start \/ Power!step \/ \E to \in BOOLEAN : Power!Set(to)
    PROVE  Power!PowerInv'
<1> USE DEF Power!PowerInv
<1>1. /\ UNCHANGED <<method, player, display, pExcuse, want>> /\ changes' \in 0..MaxChanges
      /\ job = "idle"
  BY PowerCount DEF Power!Start, Power!step, Power!Set, Power!TypeOK, Power!TransitionIsTrue
<1>2. /\ ctl' \in Ctls /\ UNCHANGED <<ctl.on, ctl.offBy, ctl.cec>>
      /\ job' \in {"idle", "light", "stop"} /\ (job' = "light" => ~ctl.on) /\ (job' = "stop" => ctl.on)
      /\ ctl'.up
  <2>1. ctl \in Ctls /\ want \in BOOLEAN
    BY DEF Power!TypeOK, Power!Methods, Ctls
  <2>2. \A to \in BOOLEAN : /\ Power!Begin(ctl.on, to) \in {"idle", "light", "stop"}
                            /\ Power!Begin(ctl.on, to) = "light" => ~ctl.on
                            /\ Power!Begin(ctl.on, to) = "stop" => ctl.on
    BY <2>1, BeginIs DEF Ctls
  <2>3. ASSUME NEW to \in BOOLEAN, job' = Power!Begin(ctl.on, to)
        PROVE  /\ job' \in {"idle", "light", "stop"}
               /\ (job' = "light" => ~ctl.on) /\ (job' = "stop" => ctl.on)
    BY <2>2, <2>3
  <2>4. CASE Power!Start
    <3>1. ctl' = [ctl EXCEPT !.up = TRUE, !.lastWant = want] /\ job' = Power!Begin(ctl.on, want)
      BY <2>4 DEF Power!Start
    <3>2. ctl' \in Ctls /\ ctl'.on = ctl.on /\ ctl'.offBy = ctl.offBy /\ ctl'.cec = ctl.cec /\ ctl'.up
      BY <2>1, <3>1 DEF Ctls
    <3> QED BY <2>1, <2>3, <3>1, <3>2
  <2>5. CASE Power!step
    <3>1. Power!Held \in {"none", "on", "off"} /\ Power!Wanted \in BOOLEAN
      BY <2>1 DEF Power!Held, Power!Wanted, Ctls
    <3>2. /\ ctl' = [ctl EXCEPT !.lastWant = want, !.manual = Power!Held] /\ ctl.up
          /\ job' = Power!Begin(ctl.on, Power!Wanted)
      BY <2>5 DEF Power!step
    <3>3. ctl' \in Ctls /\ ctl'.on = ctl.on /\ ctl'.offBy = ctl.offBy /\ ctl'.cec = ctl.cec /\ ctl'.up
      BY <2>1, <3>1, <3>2 DEF Ctls
    <3> QED BY <2>3, <3>1, <3>2, <3>3
  <2>6. ASSUME NEW to \in BOOLEAN, Power!Set(to)
        PROVE  /\ ctl' \in Ctls /\ UNCHANGED <<ctl.on, ctl.offBy, ctl.cec>>
               /\ job' \in {"idle", "light", "stop"}
               /\ (job' = "light" => ~ctl.on) /\ (job' = "stop" => ctl.on)
               /\ ctl'.up
    <3>1. /\ ctl' = [ctl EXCEPT !.manual = IF to THEN "on" ELSE "off"] /\ ctl.up
          /\ job' = Power!Begin(ctl.on, to)
      BY <2>6 DEF Power!Set
    <3>2. ctl' \in Ctls /\ ctl'.on = ctl.on /\ ctl'.offBy = ctl.offBy /\ ctl'.cec = ctl.cec /\ ctl'.up
      BY <2>1, <3>1 DEF Ctls
    <3> QED BY <2>3, <3>1, <3>2
  <2> QED BY <2>4, <2>5, <2>6
<1>3. Power!TypeOK'
  BY <1>1, <1>2 DEF Power!TypeOK, Power!Methods, Ctls
<1>4. Power!AnswerIsOwn'
  BY <1>1, <1>2 DEF Power!AnswerIsOwn
<1>5. Power!TransitionIsTrue'
  <2>1. Power!Ends(player)' = Power!Ends(player)
    BY <1>1 DEF Power!Ends
  <2> QED BY <1>1, <1>2, <2>1 DEF Power!TransitionIsTrue
<1>6. Power!OffIsKnown'
  <2>1. Power!IsDark' = Power!IsDark
    BY <1>1 DEF Power!IsDark, Power!OnlyRestarts
  <2> QED BY <1>1, <1>2, <2>1 DEF Power!OffIsKnown
<1> QED BY <1>3, <1>4, <1>5, <1>6

\* The controller settles on a method and forgets nothing else.
LEMMA PickIs ==
    ASSUME ctl \in Ctls, method \in {"auto", "cec", "dpms", "none"}, NEW found \in BOOLEAN
    PROVE  LET c == Power!Pick(found)
           IN  /\ c \in Ctls /\ c.on = ctl.on /\ c.up = ctl.up /\ c.offBy = ctl.offBy
               /\ c.chosen # "unset" /\ (ctl.cec => c.cec)
<1>1. CASE method # "auto"
  BY <1>1 DEF Power!Pick, Ctls
<1>2. CASE method = "auto" /\ ctl.chosen # "unset"
  BY <1>2 DEF Power!Pick, Ctls
<1>3. CASE method = "auto" /\ ctl.chosen = "unset"
  BY <1>3 DEF Power!Pick, Ctls
<1> QED BY <1>1, <1>2, <1>3

\* The display comes on: what turned it off undoes its step.
LEMMA PowerLight == ASSUME Power!PowerInv, Power!Light PROVE Power!PowerInv'
<1> USE DEF Power!PowerInv
<1>1. PICK found \in BOOLEAN, ok \in BOOLEAN :
        LET c == Power!Pick(found)
            d == Power!switchDisplay(Power!Undone(c, display, TRUE, ok), c.chosen, c.cec, TRUE, ok)
        IN  /\ IF ok THEN UNCHANGED changes ELSE Power!Event("display")
            /\ ctl' = [c EXCEPT !.offBy = "unset", !.on = @ /\ TRUE]
            /\ display' = d
            /\ pExcuse' = IF d.standby
                            THEN IF ok THEN pExcuse ELSE pExcuse \cup {"display"}
                            ELSE pExcuse \ {"display", "forgot"}
  BY DEF Power!Light, Power!screen, Power!probeCEC
<1> DEFINE c == Power!Pick(found)
           d == Power!switchDisplay(Power!Undone(c, display, TRUE, ok), c.chosen, c.cec, TRUE, ok)
<1>2. /\ ctl \in Ctls /\ method \in {"auto", "cec", "dpms", "none"} /\ display \in Displays
      /\ pExcuse \subseteq {"lost", "forgot", "display"} /\ ctl.on = FALSE /\ job = "light"
  BY DEF Power!TypeOK, Power!Methods, Ctls, Displays, Power!Light, Power!TransitionIsTrue
<1>3. /\ c \in Ctls /\ c.on = ctl.on /\ c.up = ctl.up /\ c.offBy = ctl.offBy
      /\ c.chosen # "unset" /\ (ctl.cec => c.cec)
  BY <1>2, PickIs
<1>4. /\ UNCHANGED <<want, method, player>> /\ job' = "resume"
      /\ changes' \in 0..MaxChanges
  BY <1>1, PowerCount DEF Power!Light, Power!TypeOK
<1>5. /\ display' = d
      /\ ctl' = [c EXCEPT !.offBy = "unset", !.on = @ /\ TRUE]
      /\ pExcuse' = IF d.standby THEN IF ok THEN pExcuse ELSE pExcuse \cup {"display"}
                                 ELSE pExcuse \ {"display", "forgot"}
  BY <1>1
<1> HIDE DEF c
<1>6. /\ d \in Displays
      /\ d.held => display.held /\ ctl.offBy # "dpms"
      /\ d.standby => display.standby /\ (ok => ~(ctl.offBy = "cec" /\ ctl.cec))
  BY <1>2, <1>3 DEF Power!switchDisplay, Power!Undone, Power!CecCtl, Power!Blank, Ctls, Displays
<1> HIDE DEF d
<1>7. ctl' \in Ctls /\ ctl'.on = FALSE /\ ctl'.up = ctl.up
  BY <1>2, <1>3, <1>5 DEF Ctls
<1>8. display'.held = FALSE
  BY <1>2, <1>5, <1>6 DEF Power!OffIsKnown, Displays
<1>9. display'.standby => pExcuse' \cap {"forgot", "display"} # {}
  BY <1>5, <1>6 DEF Power!OffIsKnown
<1>10. Power!TypeOK'
  BY <1>2, <1>4, <1>5, <1>6, <1>7 DEF Power!TypeOK, Power!Methods, Ctls, Displays
<1>11. Power!AnswerIsOwn'
  BY <1>2, <1>4 DEF Power!AnswerIsOwn
<1>12. Power!TransitionIsTrue'
  <2>1. Power!Ends(player)' = Power!Ends(player)
    BY <1>4 DEF Power!Ends
  <2>2. "lost" \in pExcuse <=> "lost" \in pExcuse'
    BY <1>5
  <2> QED BY <1>2, <1>4, <1>7, <2>1, <2>2 DEF Power!TransitionIsTrue
<1>13. Power!OffIsKnown'
  BY <1>8, <1>9 DEF Power!OffIsKnown
<1> QED BY <1>10, <1>11, <1>12, <1>13

\* The player is dark and the display goes off.
LEMMA PowerDark == ASSUME Power!PowerInv, Power!Dark PROVE Power!PowerInv'
<1> USE DEF Power!PowerInv
<1>1. PICK found \in BOOLEAN, ok \in BOOLEAN :
        LET c == Power!Pick(found)
            d == Power!switchDisplay(Power!Undone(c, display, FALSE, ok), c.chosen, c.cec, FALSE, ok)
        IN  /\ IF ok THEN UNCHANGED changes ELSE Power!Event("display")
            /\ ctl' = [c EXCEPT !.offBy = IF c.chosen # "none" THEN c.chosen ELSE "unset",
                                !.on = @ /\ FALSE]
            /\ display' = d
            /\ pExcuse' = (IF d.standby
                             THEN IF ok THEN pExcuse ELSE pExcuse \cup {"display"}
                             ELSE pExcuse \ {"display", "forgot"}) \ {"lost"}
  BY DEF Power!Dark, Power!screen, Power!probeCEC
<1> DEFINE c == Power!Pick(found)
           d == Power!switchDisplay(Power!Undone(c, display, FALSE, ok), c.chosen, c.cec, FALSE, ok)
<1>2. /\ ctl \in Ctls /\ method \in {"auto", "cec", "dpms", "none"} /\ display \in Displays
      /\ pExcuse \subseteq {"lost", "forgot", "display"} /\ job = "dark" /\ ctl.up = TRUE
      /\ display.held = FALSE /\ (display.standby => pExcuse \cap {"forgot", "display"} # {})
  BY DEF Power!TypeOK, Power!Methods, Ctls, Displays, Power!Dark, Power!TransitionIsTrue, Power!OffIsKnown
<1>3. /\ c \in Ctls /\ c.up = ctl.up /\ c.chosen # "unset"
  BY <1>2, PickIs
<1>4. /\ UNCHANGED <<want, method, player>> /\ job' = "idle"
      /\ changes' \in 0..MaxChanges
  BY <1>1, PowerCount DEF Power!Dark, Power!TypeOK
<1>5. /\ display' = d
      /\ ctl' = [c EXCEPT !.offBy = IF c.chosen # "none" THEN c.chosen ELSE "unset",
                          !.on = @ /\ FALSE]
      /\ pExcuse' = (IF d.standby THEN IF ok THEN pExcuse ELSE pExcuse \cup {"display"}
                                  ELSE pExcuse \ {"display", "forgot"}) \ {"lost"}
  BY <1>1
<1> HIDE DEF c
<1>6. /\ d \in Displays
      /\ d.held => c.chosen = "dpms"
      /\ d.standby => display.standby \/ (c.chosen = "cec" /\ c.cec)
  BY <1>2, <1>3 DEF Power!switchDisplay, Power!Undone, Power!CecCtl, Power!Blank, Ctls, Displays
<1> HIDE DEF d
<1>7. /\ ctl' \in Ctls /\ ctl'.on = FALSE /\ ctl'.up = ctl.up /\ ctl'.cec = c.cec
      /\ c.chosen # "none" => ctl'.offBy = c.chosen
  BY <1>2, <1>3, <1>5 DEF Ctls
<1>8. Power!TypeOK'
  BY <1>2, <1>4, <1>5, <1>6, <1>7 DEF Power!TypeOK, Power!Methods, Ctls, Displays
<1>9. Power!AnswerIsOwn'
  BY <1>2, <1>4 DEF Power!AnswerIsOwn
<1>10. Power!TransitionIsTrue'
  <2>1. Power!Ends(player)' = Power!Ends(player)
    BY <1>4 DEF Power!Ends
  <2>2. Power!Ends(player) = TRUE
    <3>1. player \in Players
      BY DEF Power!TypeOK, Players, Msgs
    <3>2. player.suspended = TRUE /\ \A i \in 1..Len(player.cmds) : player.cmds[i].kind = "restart"
      BY <1>2, <3>1 DEF Power!AnswerIsOwn, Power!IsDark, Power!OnlyRestarts, Players
    <3> QED BY <3>1, <3>2, EndsAsIs
  <2> QED BY <1>2, <1>4, <1>7, <2>1, <2>2 DEF Power!TransitionIsTrue
<1>11. Power!OffIsKnown'
  <2>1. Power!IsDark'
    BY <1>2, <1>4 DEF Power!IsDark, Power!OnlyRestarts, Power!AnswerIsOwn
  <2>2. display'.standby /\ pExcuse' \cap {"forgot", "display"} = {} => c.chosen = "cec" /\ c.cec
    BY <1>2, <1>5, <1>6
  <2> QED BY <1>4, <1>5, <1>6, <1>7, <2>1, <2>2 DEF Power!OffIsKnown
<1> QED BY <1>8, <1>9, <1>10, <1>11

\* The messages of other calls stay without an answer when one is added.
LEMMA QueuedOthers ==
    ASSUME Power!TypeOK, ~Power!Full, NEW kind \in {"resume", "restart"},
           player' = Power!Queue(kind), \A i \in DOMAIN player.cmds : ~player.cmds[i].mine
    PROVE  \A i \in DOMAIN player'.cmds : ~player'.cmds[i].mine
<1>1. /\ player' \in Players
      /\ Len(player.cmds) \in Nat /\ Len(player'.cmds) = Len(player.cmds) + 1
      /\ \A i \in 1..Len(player.cmds) : player'.cmds[i] = player.cmds[i]
      /\ player'.cmds[Len(player'.cmds)] = [kind |-> kind, mine |-> FALSE]
  BY Queued
<1>2. \A i \in DOMAIN player'.cmds : i \in 1..Len(player.cmds) \/ i = Len(player'.cmds)
  BY <1>1 DEF Players
<1>3. DOMAIN player.cmds = 1..Len(player.cmds)
  <2>1. player.cmds \in Seq(Msgs)
    BY DEF Power!TypeOK, Msgs
  <2> QED BY <2>1
<1>4. ASSUME NEW i \in DOMAIN player'.cmds PROVE ~player'.cmds[i].mine
  <2>1. CASE i \in 1..Len(player.cmds)
    BY <1>1, <1>3, <2>1
  <2>2. CASE i = Len(player'.cmds)
    BY <1>1, <2>2
  <2> QED BY <1>2, <1>4, <2>1, <2>2
<1> QED BY <1>4

\* The player is asked to come back, or the queue is full and nothing is recorded.
LEMMA PowerResume == ASSUME Power!PowerInv, Power!Resume PROVE Power!PowerInv'
<1> USE DEF Power!PowerInv
<1>1. /\ UNCHANGED <<want, method, display, changes>> /\ job = "resume" /\ job' = "idle"
      /\ ctl.on = FALSE /\ ctl.up = TRUE /\ ctl \in Ctls /\ player \in Players
  BY DEF Power!Resume, Power!TransitionIsTrue, Power!TypeOK, Power!Methods, Ctls, Players, Msgs
<1>2. ~display.held /\ (display.standby => pExcuse \cap {"forgot", "display"} # {})
  BY <1>1 DEF Power!OffIsKnown
<1>3. \A i \in DOMAIN player.cmds : ~player.cmds[i].mine
  BY <1>1 DEF Power!AnswerIsOwn
<1>4. CASE Power!Full /\ UNCHANGED <<ctl, player, pExcuse>>
  <2>1. Power!TypeOK'
    BY <1>1, <1>4 DEF Power!TypeOK
  <2>2. Power!AnswerIsOwn'
    BY <1>1, <1>3, <1>4 DEF Power!AnswerIsOwn
  <2>3. Power!TransitionIsTrue'
    <3>1. Power!Ends(player)' = Power!Ends(player)
      BY <1>4 DEF Power!Ends
    <3> QED BY <1>1, <1>4, <3>1 DEF Power!TransitionIsTrue
  <2>4. Power!OffIsKnown'
    BY <1>1, <1>2, <1>4 DEF Power!OffIsKnown
  <2> QED BY <2>1, <2>2, <2>3, <2>4
<1>5. CASE /\ ~Power!Full /\ player' = Power!Queue("resume")
           /\ ctl' = [ctl EXCEPT !.on = TRUE] /\ pExcuse' = pExcuse \ {"lost"}
  <2>1. /\ player' \in Players /\ Len(player'.cmds) <= QueueSize
        /\ player'.suspended = player.suspended /\ player'.mpv = player.mpv
        /\ Len(player.cmds) \in Nat /\ Len(player'.cmds) = Len(player.cmds) + 1
        /\ \A i \in 1..Len(player.cmds) : player'.cmds[i] = player.cmds[i]
        /\ player'.cmds[Len(player'.cmds)] = [kind |-> "resume", mine |-> FALSE]
        /\ Power!Ends(player') = FALSE
    BY <1>5, Queued
  <2>2. ctl' \in Ctls /\ ctl'.on = TRUE /\ ctl'.up = TRUE
    BY <1>1, <1>5 DEF Ctls
  <2>3. \A i \in DOMAIN player'.cmds : ~player'.cmds[i].mine
    BY <1>3, <1>5, QueuedOthers
  <2>4. Power!TypeOK'
    BY <1>1, <1>5, <2>1, <2>2 DEF Power!TypeOK, Power!Methods, Ctls, Players, Msgs
  <2>5. Power!AnswerIsOwn'
    BY <1>1, <2>1, <2>3 DEF Power!AnswerIsOwn
  <2>6. Power!TransitionIsTrue'
    <3>1. Power!Ends(player)' = FALSE
      BY <2>1
    <3> QED BY <1>1, <2>2, <3>1 DEF Power!TransitionIsTrue
  <2>7. Power!OffIsKnown'
    BY <1>1, <1>2, <1>5 DEF Power!OffIsKnown
  <2> QED BY <2>4, <2>5, <2>6, <2>7
<1> QED BY <1>4, <1>5 DEF Power!Resume

\* The player is asked to stop, or the queue is full.
LEMMA PowerStop == ASSUME Power!PowerInv, Power!Stop PROVE Power!PowerInv'
<1> USE DEF Power!PowerInv
<1>1. /\ UNCHANGED <<want, method, ctl, display, pExcuse, changes>> /\ job = "stop"
      /\ ctl.on = TRUE /\ ctl.up = TRUE /\ player \in Players
  BY DEF Power!Stop, Power!TransitionIsTrue, Power!TypeOK, Players, Msgs
<1>2. ~display.held /\ (display.standby => pExcuse \cap {"forgot", "display"} # {})
  BY <1>1 DEF Power!OffIsKnown
<1>3. \A i \in DOMAIN player.cmds : ~player.cmds[i].mine
  BY <1>1 DEF Power!AnswerIsOwn
<1>4. Power!OffIsKnown'
  BY <1>1, <1>2 DEF Power!OffIsKnown
<1>5. CASE Power!Full /\ job' = "back" /\ UNCHANGED player
  <2>1. Power!TypeOK'
    BY <1>1, <1>5 DEF Power!TypeOK
  <2>2. Power!AnswerIsOwn'
    BY <1>1, <1>3, <1>5 DEF Power!AnswerIsOwn
  <2>3. Power!TransitionIsTrue'
    BY <1>1, <1>5 DEF Power!TransitionIsTrue
  <2> QED BY <1>4, <2>1, <2>2, <2>3
<1>6. CASE ~Power!Full /\ job' = "wait" /\ player' = Power!Queue("suspend")
  <2>1. /\ player' \in Players /\ Len(player'.cmds) <= QueueSize
        /\ player'.suspended = player.suspended /\ player'.mpv = player.mpv
        /\ Len(player.cmds) \in Nat /\ Len(player'.cmds) = Len(player.cmds) + 1
        /\ \A i \in 1..Len(player.cmds) : player'.cmds[i] = player.cmds[i]
        /\ player'.cmds[Len(player'.cmds)] = [kind |-> "suspend", mine |-> TRUE]
    BY <1>6, Queued
  <2>2. /\ DOMAIN player'.cmds = 1..Len(player'.cmds) /\ DOMAIN player.cmds = 1..Len(player.cmds)
        /\ Len(player'.cmds) \in DOMAIN player'.cmds
    BY <1>1, <2>1 DEF Players
  <2>3. \A i \in DOMAIN player'.cmds : player'.cmds[i].mine => i = Len(player'.cmds)
    <3>1. \A i \in DOMAIN player'.cmds : i \in 1..Len(player.cmds) \/ i = Len(player'.cmds)
      BY <2>1, <2>2
    <3> QED BY <1>3, <2>1, <2>2, <3>1
  <2>4. Power!TypeOK'
    BY <1>1, <1>6, <2>1 DEF Power!TypeOK, Players, Msgs
  <2>5. Power!AnswerIsOwn'
    <3>1. \A j \in DOMAIN player'.cmds : ~(j > Len(player'.cmds))
      BY <2>1, <2>2
    <3>2. player'.mpv => ~player'.suspended
      BY <2>1 DEF Power!AnswerIsOwn
    <3> QED BY <1>6, <2>1, <2>2, <2>3, <3>1, <3>2 DEF Power!AnswerIsOwn
  <2>6. Power!TransitionIsTrue'
    BY <1>1, <1>6 DEF Power!TransitionIsTrue
  <2> QED BY <1>4, <2>4, <2>5, <2>6
<1> QED BY <1>5, <1>6 DEF Power!Stop

\* The call gives up: nobody waits for the answer of its message.
LEMMA PowerTimeout == ASSUME Power!PowerInv, Power!Timeout PROVE Power!PowerInv'
<1> USE DEF Power!PowerInv
<1>1. /\ UNCHANGED <<want, method, ctl, display, pExcuse>> /\ changes' \in 0..MaxChanges
      /\ job \in {"wait", "dark"} /\ job' = "back" /\ ctl.on = TRUE /\ ctl.up = TRUE
      /\ player \in Players
  BY PowerCount DEF Power!Timeout, Power!TransitionIsTrue, Power!TypeOK, Players, Msgs
<1> DEFINE q == [i \in DOMAIN player.cmds |-> [player.cmds[i] EXCEPT !.mine = FALSE]]
<1>2. player' = [player EXCEPT !.cmds = q]
  BY DEF Power!Timeout
<1>3. q \in Seq(Msgs) /\ Len(q) = Len(player.cmds) /\ \A i \in DOMAIN q : ~q[i].mine
  <2>1. player.cmds \in Seq(Msgs) /\ DOMAIN player.cmds = 1..Len(player.cmds) /\ Len(player.cmds) \in Nat
    BY <1>1 DEF Players
  <2>2. \A i \in 1..Len(player.cmds) :
           [player.cmds[i] EXCEPT !.mine = FALSE] \in Msgs /\ ~[player.cmds[i] EXCEPT !.mine = FALSE].mine
    <3> TAKE i \in 1..Len(player.cmds)
    <3>1. player.cmds[i] \in Msgs
      BY <2>1
    <3> QED BY <3>1 DEF Msgs
  <2> QED BY <2>1, <2>2
<1> HIDE DEF q
<1>4. /\ player' \in Players /\ player'.cmds = q /\ player'.mpv = player.mpv
      /\ player'.suspended = player.suspended
  BY <1>1, <1>2, <1>3 DEF Players
<1>5. ~display.held /\ (display.standby => pExcuse \cap {"forgot", "display"} # {})
  BY <1>1 DEF Power!OffIsKnown
<1>6. Power!TypeOK'
  BY <1>1, <1>3, <1>4 DEF Power!TypeOK, Players, Msgs
<1>7. Power!AnswerIsOwn'
  BY <1>1, <1>3, <1>4 DEF Power!AnswerIsOwn
<1>8. Power!TransitionIsTrue'
  BY <1>1 DEF Power!TransitionIsTrue
<1>9. Power!OffIsKnown'
  BY <1>1, <1>5 DEF Power!OffIsKnown
<1> QED BY <1>6, <1>7, <1>8, <1>9

\* The failed stop takes itself back, or says that it could not.
LEMMA PowerBack == ASSUME Power!PowerInv, Power!Back PROVE Power!PowerInv'
<1> USE DEF Power!PowerInv
<1>1. /\ UNCHANGED <<want, method, ctl, display, changes>> /\ job = "back" /\ job' = "idle"
      /\ ctl.on = TRUE /\ ctl.up = TRUE /\ player \in Players
  BY DEF Power!Back, Power!TransitionIsTrue, Power!TypeOK, Players, Msgs
<1>2. ~display.held /\ (display.standby => pExcuse \cap {"forgot", "display"} # {})
  BY <1>1 DEF Power!OffIsKnown
<1>3. \A i \in DOMAIN player.cmds : ~player.cmds[i].mine
  BY <1>1 DEF Power!AnswerIsOwn
<1>4. pExcuse' \in {pExcuse, pExcuse \cup {"lost"}}
  BY DEF Power!Back
<1>5. Power!OffIsKnown'
  <2>1. display' = display
    BY <1>1
  <2>2. display.standby => pExcuse' \cap {"forgot", "display"} # {}
    BY <1>2, <1>4
  <2> QED BY <1>2, <2>1, <2>2 DEF Power!OffIsKnown
<1>6. CASE ~Power!Full /\ player' = Power!Queue("resume") /\ UNCHANGED pExcuse
  <2>1. /\ player' \in Players /\ Len(player'.cmds) <= QueueSize
        /\ player'.suspended = player.suspended /\ player'.mpv = player.mpv
        /\ Power!Ends(player') = FALSE
    BY <1>6, Queued
  <2>2. \A i \in DOMAIN player'.cmds : ~player'.cmds[i].mine
    BY <1>3, <1>6, QueuedOthers
  <2>3. Power!TypeOK'
    BY <1>1, <1>6, <2>1 DEF Power!TypeOK, Players, Msgs
  <2>4. Power!AnswerIsOwn'
    BY <1>1, <2>1, <2>2 DEF Power!AnswerIsOwn
  <2>5. Power!TransitionIsTrue'
    <3>1. Power!Ends(player)' = FALSE
      BY <2>1
    <3> QED BY <1>1, <3>1 DEF Power!TransitionIsTrue
  <2> QED BY <1>5, <2>3, <2>4, <2>5
<1>7. CASE /\ Power!Full /\ UNCHANGED player
           /\ pExcuse' = IF Power!Ends(player) THEN pExcuse \cup {"lost"} ELSE pExcuse
  <2>1. Power!TypeOK'
    BY <1>1, <1>4, <1>7 DEF Power!TypeOK
  <2>2. Power!AnswerIsOwn'
    BY <1>1, <1>3, <1>7 DEF Power!AnswerIsOwn
  <2>3. Power!TransitionIsTrue'
    <3>1. Power!Ends(player)' = Power!Ends(player)
      BY <1>7 DEF Power!Ends
    <3>2. Power!Ends(player) \in BOOLEAN
      BY <1>1, EndsBool
    <3>3. "lost" \notin pExcuse' => Power!Ends(player) = FALSE
      BY <1>7, <3>2
    <3> QED BY <1>1, <3>1, <3>3 DEF Power!TransitionIsTrue
  <2> QED BY <1>5, <2>1, <2>2, <2>3
<1> QED BY <1>6, <1>7 DEF Power!Back

\* The player takes a message: what was asked for happens, and an answer goes to the
\* call that waits for it.
LEMMA PowerTake == ASSUME Power!PowerInv, Power!Take PROVE Power!PowerInv'
<1> USE DEF Power!PowerInv
<1> DEFINE c == Head(player.cmds)
<1>1. /\ UNCHANGED <<want, method, ctl, display, pExcuse, changes>>
      /\ player.cmds # <<>> /\ player \in Players
      /\ job' = IF c.kind = "suspend" /\ c.mine /\ job = "wait" THEN "dark" ELSE job
      /\ player' = [cmds |-> Tail(player.cmds),
                    suspended |-> CASE c.kind = "suspend" -> TRUE
                                    [] c.kind = "resume" -> FALSE
                                    [] OTHER -> player.suspended,
                    mpv |-> player.mpv /\ c.kind = "resume"]
  BY DEF Power!Take, Power!Answer, Power!TypeOK, Players, Msgs
<1>2. /\ Len(player.cmds) \in Nat \ {0} /\ c = player.cmds[1] /\ c \in Msgs
      /\ DOMAIN player.cmds = 1..Len(player.cmds) /\ 1 \in DOMAIN player.cmds
  BY <1>1 DEF Players
<1>3. /\ Tail(player.cmds) \in Seq(Msgs) /\ Len(Tail(player.cmds)) = Len(player.cmds) - 1
      /\ \A i \in DOMAIN Tail(player.cmds) : /\ i \in Nat \ {0} /\ i + 1 \in DOMAIN player.cmds
                                            /\ Tail(player.cmds)[i] = player.cmds[i + 1]
  BY <1>1, <1>2 DEF Players
<1>4. c.kind \in {"suspend", "resume", "restart"} /\ player.suspended \in BOOLEAN /\ player.mpv \in BOOLEAN
  BY <1>1, <1>2 DEF Players, Msgs
<1> HIDE DEF c
<1>5. /\ player'.cmds = Tail(player.cmds)
      /\ player'.suspended = CASE c.kind = "suspend" -> TRUE
                               [] c.kind = "resume" -> FALSE
                               [] OTHER -> player.suspended
      /\ player'.mpv = (player.mpv /\ c.kind = "resume")
  BY <1>1
<1>6. player' \in Players
  BY <1>1, <1>3, <1>4 DEF Players
<1>7. \A i \in DOMAIN player'.cmds : /\ i \in Nat \ {0} /\ i + 1 \in DOMAIN player.cmds
                                    /\ player'.cmds[i] = player.cmds[i + 1]
  BY <1>3, <1>5
<1>8. \A k \in DOMAIN player.cmds : k = 1 \/ (k - 1 \in DOMAIN player'.cmds /\ player'.cmds[k - 1] = player.cmds[k])
  BY <1>2, <1>3, <1>5
<1>9. c.mine => c.kind = "suspend" /\ job = "wait" /\ \A i \in DOMAIN player'.cmds : player'.cmds[i].kind = "restart"
  <2> SUFFICES ASSUME c.mine
               PROVE  /\ c.kind = "suspend" /\ job = "wait"
                      /\ \A i \in DOMAIN player'.cmds : player'.cmds[i].kind = "restart"
    OBVIOUS
  <2>1. /\ c.kind = "suspend" /\ job = "wait"
        /\ \A j \in DOMAIN player.cmds : j > 1 => player.cmds[j].kind = "restart"
    BY <1>2 DEF Power!AnswerIsOwn
  <2> QED BY <1>7, <2>1
<1>10. Power!TypeOK'
  <2>1. Len(player'.cmds) <= QueueSize
    BY <1>2, <1>3, <1>5, BoundAssumption DEF Power!TypeOK
  <2>2. job' \in {"idle", "light", "resume", "stop", "wait", "dark", "back"}
    BY <1>1 DEF Power!TypeOK
  <2> HIDE DEF Power!PowerInv
  <2>3. Power!TypeOK
    BY DEF Power!PowerInv
  <2>4. UNCHANGED <<want, method, ctl, display, pExcuse, changes>>
    BY <1>1
  <2> QED BY <1>6, <2>1, <2>2, <2>3, <2>4 DEF Power!TypeOK, Players, Msgs
<1>11. Power!AnswerIsOwn'
  <2>1. ASSUME NEW i \in DOMAIN player'.cmds, player'.cmds[i].mine
        PROVE  /\ job' = "wait" /\ player'.cmds[i].kind = "suspend"
               /\ \A j \in DOMAIN player'.cmds : j > i => player'.cmds[j].kind = "restart"
    <3>1. i \in Nat /\ i + 1 \in DOMAIN player.cmds /\ player'.cmds[i] = player.cmds[i + 1]
      BY <1>7
    <3>2. /\ job = "wait" /\ player.cmds[i + 1].kind = "suspend"
          /\ \A j \in DOMAIN player.cmds : j > i + 1 => player.cmds[j].kind = "restart"
      BY <2>1, <3>1 DEF Power!AnswerIsOwn
    <3>3. ~c.mine
      BY <1>9, <3>1, <3>2
    <3>4. \A j \in DOMAIN player'.cmds : j > i => player'.cmds[j].kind = "restart"
      <4> TAKE j \in DOMAIN player'.cmds
      <4>1. j \in Nat /\ j + 1 \in DOMAIN player.cmds /\ player'.cmds[j] = player.cmds[j + 1]
        BY <1>7
      <4> QED BY <3>1, <3>2, <4>1
    <3> QED BY <1>1, <3>1, <3>2, <3>3, <3>4
  <2>2. ASSUME job' = "wait" PROVE \E i \in DOMAIN player'.cmds : player'.cmds[i].mine
    <3>1. job = "wait" /\ ~(c.kind = "suspend" /\ c.mine)
      BY <1>1, <2>2
    <3>2. PICK i \in DOMAIN player.cmds : player.cmds[i].mine /\ player.cmds[i].kind = "suspend"
      BY <3>1 DEF Power!AnswerIsOwn
    <3>3. i # 1
      BY <1>2, <3>1, <3>2
    <3> QED BY <1>8, <3>2, <3>3
  <2>3. ASSUME job' = "dark" PROVE Power!IsDark'
    <3>1. CASE job = "dark"
      <4>1. /\ player.suspended /\ ~player.mpv /\ c.kind = "restart"
            /\ \A i \in DOMAIN player.cmds : player.cmds[i].kind = "restart"
        BY <1>2, <3>1 DEF Power!AnswerIsOwn, Power!IsDark, Power!OnlyRestarts
      <4>2. \A i \in DOMAIN player'.cmds : player'.cmds[i].kind = "restart"
        BY <1>7, <4>1
      <4>3. player'.suspended /\ ~player'.mpv
        BY <1>5, <4>1
      <4> QED BY <4>2, <4>3 DEF Power!IsDark, Power!OnlyRestarts
    <3>2. CASE c.kind = "suspend" /\ c.mine
      <4>1. player'.suspended /\ ~player'.mpv
        BY <1>5, <3>2
      <4> QED BY <1>9, <3>2, <4>1 DEF Power!IsDark, Power!OnlyRestarts
    <3> QED BY <1>1, <2>3, <3>1, <3>2
  <2>4. player'.mpv => ~player'.suspended
    BY <1>5
  <2> QED BY <2>1, <2>2, <2>3, <2>4 DEF Power!AnswerIsOwn
<1>12. Power!TransitionIsTrue'
  <2>1. Power!Ends(player') = Power!Ends(player)
    <3>1. player'.suspended = CASE Head(player.cmds).kind = "suspend" -> TRUE
                                [] Head(player.cmds).kind = "resume" -> FALSE
                                [] OTHER -> player.suspended
      BY <1>5 DEF c
    <3> QED BY <1>1, <1>5, <1>6, <3>1, EndsTail
  <2>2. Power!Ends(player)' = Power!Ends(player)
    BY <2>1
  <2>3. job' = job \/ (job = "wait" /\ job' = "dark")
    BY <1>1
  <2> QED BY <1>1, <2>2, <2>3 DEF Power!TransitionIsTrue
<1>13. Power!OffIsKnown'
  <2>1. job' = job \/ (job = "wait" /\ job' = "dark")
    BY <1>1
  <2>2. ASSUME display.held PROVE Power!IsDark'
    <3>1. /\ player.suspended /\ ~player.mpv /\ c.kind = "restart"
          /\ \A i \in DOMAIN player.cmds : player.cmds[i].kind = "restart"
      BY <1>2, <2>2 DEF Power!OffIsKnown, Power!IsDark, Power!OnlyRestarts
    <3>2. \A i \in DOMAIN player'.cmds : player'.cmds[i].kind = "restart"
      BY <1>7, <3>1
    <3>3. player'.suspended /\ ~player'.mpv
      BY <1>5, <3>1
    <3> QED BY <3>2, <3>3 DEF Power!IsDark, Power!OnlyRestarts
  <2> QED BY <1>1, <2>1, <2>2 DEF Power!OffIsKnown
<1> QED BY <1>10, <1>11, <1>12, <1>13

\* mpv starts: the player is not suspended, so no transition counts on the dark.
LEMMA PowerLaunch == ASSUME Power!PowerInv, Power!Launch PROVE Power!PowerInv'
<1> USE DEF Power!PowerInv
<1>1. /\ UNCHANGED <<want, method, ctl, job, display, pExcuse, changes>>
      /\ player \in Players /\ ~player.suspended /\ ~display.held
      /\ player' = [player EXCEPT !.mpv = TRUE]
  BY DEF Power!Launch, Power!TypeOK, Players, Msgs
<1>2. /\ player' \in Players /\ player'.cmds = player.cmds
      /\ player'.suspended = player.suspended
  BY <1>1 DEF Players
<1>3. Power!TypeOK'
  BY <1>1, <1>2 DEF Power!TypeOK, Players, Msgs
<1>4. Power!AnswerIsOwn'
  <2>1. job # "dark"
    BY <1>1 DEF Power!AnswerIsOwn, Power!IsDark
  <2> QED BY <1>1, <1>2, <2>1 DEF Power!AnswerIsOwn
<1>5. Power!TransitionIsTrue'
  <2>1. Power!Ends(player)' = Power!Ends(player)
    BY <1>2 DEF Power!Ends
  <2> QED BY <1>1, <2>1 DEF Power!TransitionIsTrue
<1>6. Power!OffIsKnown'
  BY <1>1 DEF Power!OffIsKnown
<1> QED BY <1>3, <1>4, <1>5, <1>6

\* A restart of mpv changes nothing of what the player will be.
LEMMA PowerRestart == ASSUME Power!PowerInv, Power!Restart PROVE Power!PowerInv'
<1> USE DEF Power!PowerInv
<1>1. /\ UNCHANGED <<want, method, ctl, job, display, pExcuse>> /\ changes' \in 0..MaxChanges
      /\ ~Power!Full /\ player' = Power!Queue("restart") /\ player \in Players
  BY PowerCount DEF Power!Restart, Power!TypeOK, Players, Msgs
<1>2. /\ player' \in Players /\ Len(player'.cmds) <= QueueSize
      /\ player'.suspended = player.suspended /\ player'.mpv = player.mpv
      /\ Len(player.cmds) \in Nat /\ Len(player'.cmds) = Len(player.cmds) + 1
      /\ \A i \in 1..Len(player.cmds) : player'.cmds[i] = player.cmds[i]
      /\ player'.cmds[Len(player'.cmds)] = [kind |-> "restart", mine |-> FALSE]
      /\ Power!Ends(player') = Power!Ends(player)
  BY <1>1, Queued
<1>3. \A i \in DOMAIN player.cmds : i \in DOMAIN player'.cmds /\ player'.cmds[i] = player.cmds[i]
  <2>1. player.cmds \in Seq(Msgs) /\ player'.cmds \in Seq(Msgs)
    BY <1>1, <1>2 DEF Players
  <2>2. DOMAIN player.cmds = 1..Len(player.cmds) /\ DOMAIN player'.cmds = 1..Len(player'.cmds)
    BY <2>1
  <2> QED BY <1>2, <2>2
<1>4. \A i \in DOMAIN player'.cmds :
         i \in DOMAIN player.cmds \/ (~player'.cmds[i].mine /\ player'.cmds[i].kind = "restart")
  <2>1. \A i \in DOMAIN player'.cmds : i \in DOMAIN player.cmds \/ i = Len(player'.cmds)
    BY <1>1, <1>2 DEF Players
  <2> QED BY <1>2, <2>1
<1>5. Power!TypeOK'
  BY <1>1, <1>2 DEF Power!TypeOK, Players, Msgs
<1>6. Power!AnswerIsOwn'
  BY <1>1, <1>2, <1>3, <1>4 DEF Power!AnswerIsOwn, Power!IsDark, Power!OnlyRestarts
<1>7. Power!TransitionIsTrue'
  <2>1. Power!Ends(player)' = Power!Ends(player)
    BY <1>2
  <2> QED BY <1>1, <2>1 DEF Power!TransitionIsTrue
<1>8. Power!OffIsKnown'
  <2>1. Power!IsDark => Power!IsDark'
    BY <1>2, <1>3, <1>4 DEF Power!IsDark, Power!OnlyRestarts
  <2> QED BY <1>1, <2>1 DEF Power!OffIsKnown
<1> QED BY <1>5, <1>6, <1>7, <1>8

\* An edge of the schedule and an edit of the method change nothing that is applied.
LEMMA PowerEdit ==
    ASSUME Power!PowerInv,
           Power!Edge \/ \E m \in Power!Methods \cup {"auto"} : Power!ChangeMethod(m)
    PROVE  Power!PowerInv'
<1> USE DEF Power!PowerInv
<1>1. /\ UNCHANGED <<ctl, job, player, display, pExcuse>> /\ changes' \in 0..MaxChanges
      /\ want' \in BOOLEAN /\ method' \in Power!Methods \cup {"auto"}
  BY PowerCount DEF Power!Edge, Power!ChangeMethod, Power!TypeOK
<1>2. Power!TypeOK'
  BY <1>1 DEF Power!TypeOK
<1>3. Power!AnswerIsOwn'
  BY <1>1 DEF Power!AnswerIsOwn, Power!IsDark, Power!OnlyRestarts
<1>4. Power!TransitionIsTrue'
  <2>1. Power!Ends(player)' = Power!Ends(player)
    BY <1>1 DEF Power!Ends
  <2> QED BY <1>1, <2>1 DEF Power!TransitionIsTrue
<1>5. Power!OffIsKnown'
  BY <1>1 DEF Power!OffIsKnown, Power!IsDark, Power!OnlyRestarts
<1> QED BY <1>2, <1>3, <1>4, <1>5

\* After a crash all of it is new, and what the television does is forgotten.
LEMMA PowerCrash == ASSUME Power!PowerInv, Power!Crash PROVE Power!PowerInv'
<1> USE DEF Power!PowerInv
<1>1. /\ UNCHANGED <<want, method>> /\ changes' \in 0..MaxChanges
      /\ ctl' = Power!NewController /\ job' = "idle" /\ player' = Power!NewPlayer
      /\ display' = [display EXCEPT !.held = FALSE] /\ display \in Displays
      /\ pExcuse' = IF display.standby THEN {"forgot"} ELSE {}
  BY PowerCount DEF Power!Crash, Power!TypeOK, Displays
<1>2. player' \in Players /\ player'.cmds = <<>> /\ ~player'.suspended /\ ~player'.mpv
  <2>1. <<>> \in Seq(Msgs)
    OBVIOUS
  <2> QED BY <1>1, <2>1 DEF Power!NewPlayer, Players
<1>3. display' \in Displays /\ ~display'.held /\ display'.standby = display.standby
  BY <1>1 DEF Displays
<1>4. ctl' \in Ctls /\ ctl'.on = TRUE
  BY <1>1 DEF Power!NewController, Ctls
<1>5. Power!TypeOK'
  BY <1>1, <1>2, <1>3, <1>4, BoundAssumption DEF Power!TypeOK, Power!Methods, Players, Msgs, Ctls, Displays
<1>6. Power!AnswerIsOwn'
  <2>1. DOMAIN player'.cmds = {}
    BY <1>2
  <2> QED BY <1>1, <1>2, <2>1 DEF Power!AnswerIsOwn
<1>7. Power!TransitionIsTrue'
  <2>1. player'.suspended = FALSE /\ \A j \in 1..Len(player'.cmds) : player'.cmds[j].kind = "restart"
    BY <1>1, <1>2 DEF Power!NewPlayer
  <2>2. Power!Ends(player') = FALSE
    BY <1>2, <2>1, EndsAsIs
  <2>3. Power!Ends(player)' = FALSE
    BY <2>2
  <2> QED BY <1>1, <1>4, <2>3 DEF Power!TransitionIsTrue
<1>8. Power!OffIsKnown'
  BY <1>1, <1>3 DEF Power!OffIsKnown
<1> QED BY <1>5, <1>6, <1>7, <1>8

\* The step of the power controller.
LEMMA PowerStep == ASSUME Power!PowerInv, Power!Next PROVE Power!PowerInv'
BY PowerBegin, PowerLight, PowerResume, PowerStop, PowerTimeout, PowerBack, PowerDark,
   PowerTake, PowerLaunch, PowerRestart, PowerEdit, PowerCrash DEF Power!Next

\* A component that is not in focus does not move.
LEMMA PowerFrame == ASSUME Power!PowerInv, UNCHANGED powerVars PROVE Power!PowerInv'
<1>1. UNCHANGED <<want, method, ctl, job, player, display, pExcuse, changes>>
  BY DEF powerVars
<1>2. Power!TypeOK' = Power!TypeOK
  BY <1>1 DEF Power!TypeOK
<1>3. Power!AnswerIsOwn' = Power!AnswerIsOwn
  BY <1>1 DEF Power!AnswerIsOwn, Power!IsDark, Power!OnlyRestarts
<1>4. Power!TransitionIsTrue' = Power!TransitionIsTrue
  BY <1>1 DEF Power!TransitionIsTrue, Power!Ends
<1>5. Power!OffIsKnown' = Power!OffIsKnown
  BY <1>1 DEF Power!OffIsKnown, Power!IsDark, Power!OnlyRestarts
<1> QED BY <1>2, <1>3, <1>4, <1>5 DEF Power!PowerInv

\* PowerIsReal (a transition of the screen is recorded as what the player and the
\* display really are): after any number of events, timeouts and crashes, with a
\* queue of any size, the state between two transitions is the recorded one, the
\* Blanker and mpv never both have the display, and a display that is recorded as
\* on is on.
THEOREM PowerSafe == DeviceSpec => []PowerIsReal
<1>1. DeviceInit => Power!PowerInv
  BY PowerInit DEF DeviceInit
<1>2. Power!PowerInv /\ [DeviceNext]_deviceVars => Power!PowerInv'
  <2> SUFFICES ASSUME Power!PowerInv, [DeviceNext]_deviceVars PROVE Power!PowerInv'
    OBVIOUS
  <2>1. Power!Next \/ UNCHANGED powerVars
    BY DEF DeviceNext, OfPower, OfSync, OfEditor, OfHash, OfConfig, OfSched, OfInstall, deviceVars
  <2> QED BY <2>1, PowerStep, PowerFrame
<1>3. Power!PowerInv => PowerIsReal
  <2> SUFFICES ASSUME Power!PowerInv PROVE Power!PowerIsReal
    BY DEF PowerIsReal
  <2> USE DEF Power!PowerInv
  <2>1. Power!AppliedIsReal
    BY DEF Power!AppliedIsReal, Power!TransitionIsTrue
  <2>2. Power!BlankerNeedsDark
    BY DEF Power!BlankerNeedsDark, Power!OffIsKnown, Power!IsDark
  <2>3. Power!DisplayAwake
    BY DEF Power!DisplayAwake, Power!OffIsKnown
  <2> QED BY <2>1, <2>2, <2>3 DEF Power!PowerIsReal
<1> QED BY <1>1, <1>2, <1>3, PTL DEF DeviceSpec
=============================================================================
