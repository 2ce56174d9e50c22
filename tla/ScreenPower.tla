---------------------------- MODULE ScreenPower ----------------------------
(***************************************************************************)
(* The screen power controller: internal/device/power, with the side of    *)
(* the player supervisor that it talks to (Suspend, Resume and the command *)
(* queue of internal/device/player/supervisor.go).                         *)
(*                                                                         *)
(* One transition runs at a time, under applyMu.  It is not atomic: the    *)
(* player takes its messages in its own goroutine, a Suspend can give up   *)
(* waiting while its message is still queued, display.power_method can be  *)
(* edited between two steps, and the daemon can end anywhere.  The         *)
(* television is outside the daemon: it stays in standby when the daemon   *)
(* restarts.  Displays and connectors are abstracted to one display.       *)
(***************************************************************************)
EXTENDS Integers, Sequences

CONSTANTS
    QueueSize,    \* the capacity of the player's queue (the code says 8)
    PowerEvents,  \* which of the events below the environment uses
    MaxChanges    \* bound: how many of these events happen

Methods == {"cec", "dpms", "none"}

VARIABLES
    want,      \* ShouldBeOn: what the schedule says now
    method,    \* display.power_method
    ctl,       \* the fields of Controller, and up: Start is over
    job,       \* the transition under applyMu: its next step, or "idle"
    player,    \* [cmds, suspended, mpv]
    display,   \* [standby: the television sleeps, held: the Blanker has DRM]
    excuse,    \* what went wrong that a property must know of
    changes    \* how many events there were

vars == <<want, method, ctl, job, player, display, excuse, changes>>

NewController ==
    [up |-> FALSE, on |-> TRUE, manual |-> "none", lastWant |-> TRUE,
     chosen |-> "unset", cec |-> FALSE, offBy |-> "unset"]

NewPlayer == [cmds |-> <<>>, suspended |-> FALSE, mpv |-> FALSE]

Init ==
    /\ want \in BOOLEAN
    /\ method = "auto"
    /\ ctl = NewController
    /\ job = "idle"
    /\ player = NewPlayer
    /\ display = [standby |-> FALSE, held |-> FALSE]
    /\ excuse = {}
    /\ changes = 0

TypeOK ==
    /\ want \in BOOLEAN
    /\ method \in Methods \cup {"auto"}
    /\ ctl \in [up : BOOLEAN, on : BOOLEAN, manual : {"none", "on", "off"},
                lastWant : BOOLEAN, chosen : Methods \cup {"unset"}, cec : BOOLEAN,
                offBy : {"unset", "cec", "dpms"}]
    /\ job \in {"idle", "light", "resume", "stop", "wait", "dark", "back"}
    /\ player \in [cmds : Seq([kind : {"suspend", "resume", "restart"}, mine : BOOLEAN]),
                   suspended : BOOLEAN, mpv : BOOLEAN]
    /\ Len(player.cmds) <= QueueSize
    /\ display \in [standby : BOOLEAN, held : BOOLEAN]
    /\ excuse \subseteq {"lost", "forgot", "display"}
    /\ changes \in 0..MaxChanges

Event(e) ==
    /\ e \in PowerEvents
    /\ changes < MaxChanges
    /\ changes' = changes + 1

-----------------------------------------------------------------------------
(***************************************************************************)
(* The display.                                                            *)
(***************************************************************************)
\* What the probe can answer: there is a CEC device with a physical address, or
\* not.
probeCEC == BOOLEAN

\* pick: an explicit method counts, "auto" keeps what was chosen before and
\* probes CEC only when nothing was.  found is the answer of the probe.
Pick(found) ==
    IF method # "auto"
    THEN [ctl EXCEPT !.chosen = method, !.cec = @ \/ (method = "cec" /\ found)]
    ELSE IF ctl.chosen # "unset"
    THEN ctl
    ELSE [ctl EXCEPT !.chosen = IF found THEN "cec" ELSE "dpms", !.cec = @ \/ found]

\* cec-ctl sends standby or image-view-on to the device of the probe.
CecCtl(d, cec, to, ok) == [d EXCEPT !.standby = IF cec /\ ok THEN ~to ELSE @]

\* Blanker.Off needs the DRM device, which mpv has while it runs; Blanker.On
\* gives the device up in any case.
Blank(d, to, ok) == [d EXCEPT !.held = ~to /\ (@ \/ (ok /\ ~player.mpv))]

\* switchDisplay of display d with one method.
switchDisplay(d, m, cec, to, ok) ==
    CASE m = "cec" -> CecCtl(d, cec, to, ok)
      [] m = "dpms" -> Blank(d, to, ok)
      [] OTHER -> d

\* screen: the method that switched the display off undoes its own step.
Undone(c, d, to, ok) ==
    IF to /\ c.offBy \notin {"unset", c.chosen}
    THEN switchDisplay(d, c.offBy, c.cec, TRUE, ok)
    ELSE d

screen(to) ==
    \E found \in probeCEC, ok \in BOOLEAN :
        LET c == Pick(found)
            d == switchDisplay(Undone(c, display, to, ok), c.chosen, c.cec, to, ok)
        IN  /\ IF ok THEN UNCHANGED changes ELSE Event("display")
            /\ ctl' = [c EXCEPT !.offBy = IF ~to /\ c.chosen # "none"
                                          THEN c.chosen ELSE "unset",
                                !.on = @ /\ to]
            /\ display' = d
            /\ excuse' = (IF d.standby
                          THEN IF ok THEN excuse ELSE excuse \cup {"display"}
                          ELSE excuse \ {"display", "forgot"})
                         \ (IF to THEN {} ELSE {"lost"})

-----------------------------------------------------------------------------
(***************************************************************************)
(* The messages of the player.                                             *)
(***************************************************************************)
Full == Len(player.cmds) >= QueueSize

Queue(kind) ==
    [player EXCEPT !.cmds = Append(@, [kind |-> kind, mine |-> kind = "suspend"])]

\* What the player will be when its queue is empty.
Ends(p) ==
    LET last == {i \in 1..Len(p.cmds) : p.cmds[i].kind # "restart"}
    IN  IF last = {} THEN p.suspended
        ELSE p.cmds[CHOOSE i \in last : \A j \in last : j <= i].kind = "suspend"

\* The answer to a Suspend goes to the reply channel of that call.
Answer(c) == IF c.mine /\ job = "wait" THEN "dark" ELSE job

\* handle: one message of the queue.
Take ==
    /\ player.cmds # <<>>
    /\ LET c == Head(player.cmds)
       IN  /\ player' = [cmds |-> Tail(player.cmds),
                         suspended |-> CASE c.kind = "suspend" -> TRUE
                                         [] c.kind = "resume" -> FALSE
                                         [] OTHER -> player.suspended,
                         mpv |-> player.mpv /\ c.kind = "resume"]
           /\ job' = IF c.kind = "suspend" THEN Answer(c) ELSE job
    /\ UNCHANGED <<want, method, ctl, display, excuse, changes>>

\* step of the supervisor: mpv starts when the player is not suspended.  It
\* cannot take the DRM device from the Blanker.
Launch ==
    /\ ~player.suspended
    /\ ~player.mpv
    /\ ~display.held
    /\ player' = [player EXCEPT !.mpv = TRUE]
    /\ UNCHANGED <<want, method, ctl, job, display, excuse, changes>>

\* Another part of the daemon asks for a restart of mpv.
Restart ==
    /\ Event("restart")
    /\ ~Full
    /\ player' = Queue("restart")
    /\ UNCHANGED <<want, method, ctl, job, display, excuse>>

-----------------------------------------------------------------------------
(***************************************************************************)
(* The controller.                                                         *)
(***************************************************************************)
Begin(from, to) ==
    IF from = to THEN "idle" ELSE IF to THEN "light" ELSE "stop"

Start ==
    /\ ~ctl.up
    /\ ctl' = [ctl EXCEPT !.up = TRUE, !.lastWant = want]
    /\ job' = Begin(ctl.on, want)
    /\ UNCHANGED <<want, method, player, display, excuse, changes>>

\* step: a manual command holds until the schedule crosses an edge.
Held == IF want = ctl.lastWant THEN ctl.manual ELSE "none"

Wanted == IF Held = "none" THEN want ELSE Held = "on"

\* A mutant: while a manual command holds, the loop does nothing.
stepUnlessManual ==
    /\ ctl.up
    /\ job = "idle"
    /\ ctl' = [ctl EXCEPT !.lastWant = want, !.manual = Held]
    /\ job' = IF Held = "none" THEN Begin(ctl.on, want) ELSE "idle"
    /\ UNCHANGED <<want, method, player, display, excuse, changes>>

step ==
    /\ ctl.up
    /\ job = "idle"
    /\ ctl' = [ctl EXCEPT !.lastWant = want, !.manual = Held]
    /\ job' = Begin(ctl.on, Wanted)
    /\ UNCHANGED <<want, method, player, display, excuse, changes>>

Set(to) ==
    /\ Event("set")
    /\ ctl.up
    /\ job = "idle"
    /\ ctl' = [ctl EXCEPT !.manual = IF to THEN "on" ELSE "off"]
    /\ job' = Begin(ctl.on, to)
    /\ UNCHANGED <<want, method, player, display, excuse>>

\* apply(true): the display first.
Light ==
    /\ job = "light"
    /\ screen(TRUE)
    /\ job' = "resume"
    /\ UNCHANGED <<want, method, player>>

\* apply(true): then the player.  A refused message keeps the old state.
Resume ==
    /\ job = "resume"
    /\ job' = "idle"
    /\ \/ /\ Full
          /\ UNCHANGED <<ctl, player, excuse>>
       \/ /\ ~Full
          /\ player' = Queue("resume")
          /\ ctl' = [ctl EXCEPT !.on = TRUE]
          /\ excuse' = excuse \ {"lost"}
    /\ UNCHANGED <<want, method, display, changes>>

\* apply(false): Suspend queues its message and waits for the answer.
Stop ==
    /\ job = "stop"
    /\ \/ Full /\ job' = "back" /\ UNCHANGED player
       \/ ~Full /\ job' = "wait" /\ player' = Queue("suspend")
    /\ UNCHANGED <<want, method, ctl, display, excuse, changes>>

\* suspendWait ends first.  The message stays in the queue.
Timeout ==
    /\ Event("timeout")
    /\ job \in {"wait", "dark"}
    /\ job' = "back"
    /\ player' = [player EXCEPT !.cmds =
                    [i \in DOMAIN @ |-> [@[i] EXCEPT !.mine = FALSE]]]
    /\ UNCHANGED <<want, method, ctl, display, excuse>>

\* A mutant: the failed transition ends without a Resume.
BackWithout ==
    /\ job = "back"
    /\ job' = "idle"
    /\ UNCHANGED <<want, method, ctl, player, display, excuse, changes>>

\* apply(false) failed: a Resume follows the Suspend that may still be queued.
Back ==
    /\ job = "back"
    /\ job' = "idle"
    /\ \/ /\ ~Full
          /\ player' = Queue("resume")
          /\ UNCHANGED excuse
       \/ /\ Full
          /\ excuse' = IF Ends(player) THEN excuse \cup {"lost"} ELSE excuse
          /\ UNCHANGED player
    /\ UNCHANGED <<want, method, ctl, display, changes>>

\* apply(false): the player has ended; the display goes off.
Dark ==
    /\ job = "dark"
    /\ screen(FALSE)
    /\ job' = "idle"
    /\ UNCHANGED <<want, method, player>>

Steps == Light \/ Resume \/ Stop \/ Back \/ Dark

-----------------------------------------------------------------------------
(***************************************************************************)
(* The environment.                                                        *)
(***************************************************************************)
Edge ==
    /\ Event("edge")
    /\ want' = ~want
    /\ UNCHANGED <<method, ctl, job, player, display, excuse>>

ChangeMethod(m) ==
    /\ Event("method")
    /\ method' = m
    /\ m # method
    /\ UNCHANGED <<want, ctl, job, player, display, excuse>>

\* The daemon ends and starts again.  The kernel puts a DPMS display on when
\* the handle closes.  A television in standby stays there, and nothing knows.
Crash ==
    /\ Event("crash")
    /\ ctl' = NewController
    /\ job' = "idle"
    /\ player' = NewPlayer
    /\ display' = [display EXCEPT !.held = FALSE]
    /\ excuse' = IF display.standby THEN {"forgot"} ELSE {}
    /\ UNCHANGED <<want, method>>

Next ==
    \/ Start \/ step \/ (\E to \in BOOLEAN : Set(to))
    \/ Light \/ Resume \/ Stop \/ Timeout \/ Back \/ Dark
    \/ Take \/ Launch \/ Restart
    \/ Edge \/ (\E m \in Methods \cup {"auto"} : ChangeMethod(m)) \/ Crash

Spec == Init /\ [][Next]_vars

\* The player empties its queue between two ticks again and again: a tick is
\* 30 seconds and adds at most two of the eight messages of the queue.
Drained == player.cmds = <<>> /\ job = "idle"

Loop == Start \/ step \/ Steps

\* The goroutines of the controller and of the player run.
Fairness ==
    /\ WF_vars(Loop) /\ WF_vars(Take) /\ WF_vars(Launch)
    /\ SF_vars(step /\ Drained)

-----------------------------------------------------------------------------
(***************************************************************************)
(* Properties.                                                             *)
(***************************************************************************)
\* Between transitions the player is, or will be once its queue is empty, what
\* the controller records, whatever timed out or was refused on the way.  The
\* exception is a Resume that a full queue refused after a late Suspend.
AppliedIsReal ==
    job = "idle" /\ "lost" \notin excuse => Ends(player) = ~ctl.on

\* The Blanker has the DRM device only while the player is suspended, so mpv
\* is never locked out of the display: a late answer of an earlier Suspend does
\* not start the display call of a later one.
BlankerNeedsDark == display.held => player.suspended /\ ~player.mpv

\* Once the controller records "on", the display is on, although the method
\* may have changed since it went off.  A television that the daemon forgot in
\* a restart, or whose CEC call failed, is excused.
DisplayAwake ==
    job = "idle" /\ ctl.on /\ excuse \cap {"forgot", "display"} = {}
        => ~display.standby /\ ~display.held

PictureIsRight == "lost" \in excuse \/ player.mpv = Wanted

\* When the changes end, mpv runs if and only if the schedule, or the manual
\* command that holds, wants the screen on: the loop tries a refused or late
\* transition again.
PictureFollows ==
    []<>Drained => <>[]PictureIsRight

\* The safety of the controller: types, and the three statements above.
PowerIsReal == TypeOK /\ AppliedIsReal /\ BlankerNeedsDark /\ DisplayAwake

-----------------------------------------------------------------------------
(***************************************************************************)
(* The inductive invariant behind PowerIsReal.                             *)
(***************************************************************************)
OnlyRestarts == \A i \in DOMAIN player.cmds : player.cmds[i].kind = "restart"
IsDark == OnlyRestarts /\ player.suspended /\ ~player.mpv

\* The message that a transition waits for is its own last one, and the answer means
\* that the player is dark and nothing in the queue wakes it.
AnswerIsOwn ==
    /\ \A i \in DOMAIN player.cmds : player.cmds[i].mine =>
         /\ job = "wait" /\ player.cmds[i].kind = "suspend"
         /\ \A j \in DOMAIN player.cmds : j > i => player.cmds[j].kind = "restart"
    /\ job = "wait" => \E i \in DOMAIN player.cmds : player.cmds[i].mine
    /\ job = "dark" => IsDark
    /\ player.mpv => ~player.suspended

\* A transition knows what is recorded, and until it ends the player is what was
\* recorded before it.
TransitionIsTrue ==
    /\ ~ctl.up => job = "idle"
    /\ job \in {"light", "resume"} => ~ctl.on
    /\ job \in {"stop", "wait", "dark", "back"} => ctl.on
    /\ job \in {"idle", "light", "resume", "stop"} /\ "lost" \notin excuse => Ends(player) = ~ctl.on

\* What turned the display off is remembered until it is on again.
OffIsKnown ==
    /\ display.held => /\ IsDark /\ ~ctl.on /\ ctl.offBy = "dpms" /\ job \in {"idle", "light"}
    /\ display.standby /\ excuse \cap {"forgot", "display"} = {} =>
         /\ ~ctl.on /\ ctl.offBy = "cec" /\ ctl.cec /\ job \in {"idle", "light"}

PowerInv == TypeOK /\ AnswerIsOwn /\ TransitionIsTrue /\ OffIsKnown
=============================================================================
