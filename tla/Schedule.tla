------------------------------ MODULE Schedule ------------------------------
(***************************************************************************)
(* Which playlist plays now, and when the screen is on:                    *)
(* internal/device/scheduler/scheduler.go, and the callers and the reader  *)
(* of it in cmd/portapixeld/run.go.                                        *)
(*                                                                         *)
(* A plan is a default playlist, a list of rules and a screen rule, from   *)
(* portapixel.toml or from the manifest of the fleet server.  Evaluate     *)
(* reads the plan, the clock and its sync state at different moments and   *)
(* under different locks, so a change can come between two reads.  The     *)
(* goroutine that made a change then waits for its own evaluation.         *)
(***************************************************************************)
EXTENDS Integers, Sequences

CONSTANTS
    Names,       \* the names of playlists, with "" for none
    Plans,       \* the plans that portapixel.toml can hold
    FleetPlans,  \* the plans that a manifest can hold
    NoFleet,     \* no plan of a fleet server: the device is not paired
    NoScreen,    \* a manifest with no screen rule
    DayLen,      \* the minutes of a day
    Moments,     \* the moments that the clock starts at or is stepped to
    MaxSchedule  \* bound: how many changes and minutes happen

VARIABLES
    cfg,      \* the plan of the configuration that runs
    fleet,    \* fleetDefault, fleetRules and fleetScreen, or NoFleet
    now,      \* the wall clock: [day, minute]
    synced,   \* clockOK: the last answer of the clock probe
    active,   \* Scheduler.active
    due,      \* the goroutines that wait for evalMu or hold it
    eval,     \* the evaluation that holds evalMu: what it has read
    chan,     \* the channel of the subscriber: {} or {name}
    sub,      \* watchSchedule: the name in its hands, as a set
    told,     \* a PlaylistChanged that the player has not taken
    playing,  \* the name of the last manifest of the player
    moved,    \* history: the clock moved since the last evaluation read it
    count

plan == <<cfg, fleet>>
clock == <<now, synced>>
reader == <<chan, sub, told, playing>>
vars == <<plan, clock, active, due, eval, reader, moved, count>>

Weekdays == 0..6
Minutes == 0..(DayLen - 1)
Time == [day : Weekdays, minute : Minutes]

\* The empty time of a rule.
NoTime == -1
Windows == [start : Minutes \cup {NoTime}, end : Minutes \cup {NoTime}, days : SUBSET Weekdays]
Rules == [win : Windows, playlist : Names]
PlanSet(screens) == [default : Names, rules : Seq(Rules), screen : screens]

\* The goroutines that evaluate: the ticker, the sync loop, the handler of an
\* unpair, the watcher or the handler of the configuration, the clock probe.
Callers == {"tick", "sync", "unpair", "config", "clock"}

ScheduleAssumption ==
    /\ DayLen \in Nat \ {0} /\ MaxSchedule \in Nat /\ Moments \subseteq Time
    /\ "" \in Names
    /\ Plans \subseteq PlanSet(Windows)
    /\ FleetPlans \subseteq PlanSet(Windows \cup {NoScreen})
    /\ NoFleet \notin FleetPlans /\ NoScreen \notin Windows

-----------------------------------------------------------------------------
(***************************************************************************)
(* Windows and rules.                                                      *)
(***************************************************************************)
previousDay(day) == (day + 6) % 7

\* dayPermitted: an empty list means every day.
dayPermitted(days, day) == days = {} \/ day \in days

\* ParseClock refuses the empty time.
ParseClock(t) == t # NoTime

inWindow(w, t) ==
    \/ w.start = NoTime /\ w.end = NoTime /\ dayPermitted(w.days, t.day)
    \/ /\ ParseClock(w.start) /\ ParseClock(w.end)
       /\ \/ /\ w.start < w.end
             /\ w.start <= t.minute /\ t.minute < w.end
             /\ dayPermitted(w.days, t.day)
          \/ /\ w.end < w.start
             /\ w.start <= t.minute /\ dayPermitted(w.days, t.day)
          \/ /\ w.end < w.start
             /\ t.minute < w.end /\ dayPermitted(w.days, previousDay(t.day))

\* The first of a set of rule numbers.
First(S) == CHOOSE i \in S : \A j \in S : i <= j

\* match: the playlist of the first rule that matches, or "".
match(rules, t) ==
    LET hits == {i \in DOMAIN rules : inWindow(rules[i].win, t)}
    IN  IF hits = {} THEN "" ELSE rules[First(hits)].playlist

\* The plan that counts: the plan of the fleet server while there is one.
Live(c, f) == IF f = NoFleet THEN c ELSE f
defaultPlaylist(c, f) == Live(c, f).default

\* screenRule: a fleet plan with no screen rule leaves it to the configuration.
HasTimes(w) == w.start # NoTime /\ w.end # NoTime
screenRule == IF fleet # NoFleet /\ fleet.screen # NoScreen THEN fleet.screen ELSE cfg.screen
ScreenShouldBeOn(t) == HasTimes(screenRule) => inWindow(screenRule, t)
ScreenOffCovers(t) == HasTimes(screenRule) /\ ~ScreenShouldBeOn(t)

-----------------------------------------------------------------------------
(***************************************************************************)
(* The reference: a window opens at its start on each permitted day and    *)
(* lasts Length minutes, over midnight or not.                             *)
(***************************************************************************)
Length(w) ==
    IF HasTimes(w)
    THEN w.end - w.start + IF w.end < w.start THEN DayLen ELSE 0
    ELSE IF w.start = w.end THEN DayLen ELSE 0

Opens(w) == IF HasTimes(w) THEN w.start ELSE 0

Covers(w, t) ==
    \E d \in Weekdays, nights \in {0, 1} :
        LET since == nights * DayLen + t.minute - Opens(w)
        IN  /\ dayPermitted(w.days, d) /\ t.day = (d + nights) % 7
            /\ 0 <= since /\ since < Length(w)

\* What must play: the first rule of the plan that counts, once the clock is
\* true, and else its default.
Right ==
    LET live == Live(cfg, fleet)
        hits == {i \in DOMAIN live.rules : synced /\ Covers(live.rules[i].win, now)}
    IN  IF hits = {} \/ live.rules[First(hits)].playlist = ""
        THEN live.default ELSE live.rules[First(hits)].playlist

-----------------------------------------------------------------------------
NoEval == [pc |-> "idle"]

\* The daemon evaluated, Restore gave the plan of the last manifest, and the
\* player read the answer before a goroutine of the daemon runs.
Init ==
    /\ cfg \in Plans /\ fleet \in FleetPlans \cup {NoFleet}
    /\ now \in Moments /\ synced \in BOOLEAN
    /\ active = Right /\ playing = Right
    /\ due = {} /\ eval = NoEval
    /\ chan = {} /\ sub = {} /\ told = FALSE
    /\ moved = FALSE
    /\ count = 0

Evaluations ==
    {NoEval}
    \cup [pc : {"clock"}, by : Callers, cfg : Plans]
    \cup [pc : {"default"}, by : Callers, cfg : Plans, now : Time, synced : BOOLEAN]
    \cup [pc : {"match"}, by : Callers, cfg : Plans, now : Time, synced : BOOLEAN,
          name : Names]
    \cup [pc : {"publish"}, by : Callers, name : Names]

TypeOK ==
    /\ cfg \in Plans /\ fleet \in FleetPlans \cup {NoFleet}
    /\ now \in Time /\ synced \in BOOLEAN
    /\ active \in Names /\ playing \in Names
    /\ due \subseteq Callers /\ eval \in Evaluations
    /\ chan \subseteq Names /\ sub \subseteq Names
    /\ told \in BOOLEAN /\ moved \in BOOLEAN
    /\ count \in 0..MaxSchedule

-----------------------------------------------------------------------------
(***************************************************************************)
(* What changes: the plans, the clock and its sync state.                  *)
(***************************************************************************)
Counted == count < MaxSchedule /\ count' = count + 1

\* A goroutine that made a change calls Evaluate, and waits until it returns.
Joins(c) == c \notin due /\ due' = due \cup {c}

SetFleetRules(f) ==
    /\ Counted /\ Joins("sync")
    /\ fleet' = f
    /\ UNCHANGED <<cfg, clock, active, eval, reader, moved>>

\* ClearFleetRules, after a refusal of the token or for a person.
ClearFleetRules(c) ==
    /\ Counted /\ Joins(c)
    /\ fleet # NoFleet
    /\ fleet' = NoFleet
    /\ UNCHANGED <<cfg, clock, active, eval, reader, moved>>

\* adopt and applyChanges, or playlistRenamed: the configuration that runs is a
\* new one, and Evaluate follows.
applyChanges(c) ==
    /\ Counted /\ Joins("config")
    /\ cfg # c /\ cfg' = c
    /\ UNCHANGED <<fleet, clock, active, eval, reader, moved>>

\* watchClock: the probe gives another answer than before.
watchClock ==
    /\ Counted /\ Joins("clock")
    /\ synced' = ~synced
    /\ UNCHANGED <<plan, now, active, eval, reader, moved>>

\* Run: the ticker.
Tick ==
    /\ Joins("tick")
    /\ UNCHANGED <<plan, clock, active, eval, reader, moved, count>>

\* A minute passes, or chrony steps a clock that is not true yet.
Minute ==
    /\ Counted
    /\ now' = [day |-> IF now.minute = DayLen - 1 THEN (now.day + 1) % 7 ELSE now.day,
               minute |-> (now.minute + 1) % DayLen]
    /\ moved' = TRUE
    /\ UNCHANGED <<plan, synced, active, due, eval, reader>>

ClockStep ==
    /\ Counted /\ ~synced
    /\ now' \in Moments \ {now}
    /\ moved' = TRUE
    /\ UNCHANGED <<plan, synced, active, due, eval, reader>>

-----------------------------------------------------------------------------
(***************************************************************************)
(* Evaluate, from the lock of evalMu to its end.                           *)
(***************************************************************************)
\* s.config: the plan of the configuration.
evalConfig(c) ==
    /\ eval.pc = "idle" /\ c \in due
    /\ eval' = [pc |-> "clock", by |-> c, cfg |-> cfg]
    /\ UNCHANGED <<plan, clock, active, due, reader, moved, count>>

\* Now and Synced.
evalClock ==
    /\ eval.pc = "clock"
    /\ eval' = [pc |-> "default", by |-> eval.by, cfg |-> eval.cfg, now |-> now,
                synced |-> synced]
    /\ moved' = FALSE
    /\ UNCHANGED <<plan, clock, active, due, reader, count>>

evalDefault ==
    /\ eval.pc = "default"
    /\ eval' = [pc |-> "match", by |-> eval.by, cfg |-> eval.cfg, now |-> eval.now,
                synced |-> eval.synced, name |-> defaultPlaylist(eval.cfg, fleet)]
    /\ UNCHANGED <<plan, clock, active, due, reader, moved, count>>

\* The rules are inert until the clock is true.
evalMatch ==
    /\ eval.pc = "match"
    /\ LET rule == IF eval.synced THEN match(Live(eval.cfg, fleet).rules, eval.now) ELSE ""
       IN  eval' = [pc |-> "publish", by |-> eval.by,
                    name |-> IF rule = "" THEN eval.name ELSE rule]
    /\ UNCHANGED <<plan, clock, active, due, reader, moved, count>>

\* A mutant: a channel that is full keeps its name.
SendIfEmpty(name) == IF name = active \/ chan # {} THEN chan ELSE {name}

\* The channel holds one name, the newest.
Send(name) == IF name = active THEN chan ELSE {name}

\* After its evaluation applyChanges may tell the player on its own.
evalPublish ==
    /\ eval.pc = "publish"
    /\ active' = eval.name
    /\ chan' = Send(eval.name)
    /\ eval' = NoEval /\ due' = due \ {eval.by}
    /\ told' \in IF eval.by = "config" THEN {told, TRUE} ELSE {told}
    /\ UNCHANGED <<plan, clock, sub, playing, moved, count>>

Evaluate ==
    \/ \E c \in Callers : evalConfig(c)
    \/ evalClock \/ evalDefault \/ evalMatch \/ evalPublish

-----------------------------------------------------------------------------
(***************************************************************************)
(* The reader: watchSchedule, and the player, which asks for the active    *)
(* name when it is told.                                                   *)
(***************************************************************************)
watchSchedule ==
    /\ sub = {} /\ chan # {}
    /\ sub' = chan /\ chan' = {}
    /\ UNCHANGED <<plan, clock, active, due, eval, told, playing, moved, count>>

scheduleChanged ==
    /\ sub # {}
    /\ sub' = {} /\ told' = TRUE
    /\ UNCHANGED <<plan, clock, active, due, eval, chan, playing, moved, count>>

playerManifest ==
    /\ told
    /\ told' = FALSE /\ playing' = active
    /\ UNCHANGED <<plan, clock, active, due, eval, chan, sub, moved, count>>

Next ==
    \/ \E f \in FleetPlans : SetFleetRules(f)
    \/ \E c \in {"sync", "unpair"} : ClearFleetRules(c)
    \/ \E c \in Plans : applyChanges(c)
    \/ watchClock \/ Tick \/ Minute \/ ClockStep
    \/ Evaluate
    \/ watchSchedule \/ scheduleChanged \/ playerManifest

Spec == Init /\ [][Next]_vars

\* The ticker ticks, and every goroutine goes on.
Hear == watchSchedule \/ scheduleChanged \/ playerManifest
Fairness == WF_vars(Tick) /\ WF_vars(Evaluate) /\ WF_vars(Hear)

-----------------------------------------------------------------------------
(***************************************************************************)
(* Properties.                                                             *)
(***************************************************************************)
\* Evaluate: "an evaluation that read the old rules could land after the
\* evaluation of the new rules".  When every caller has returned, the active
\* name is what the plan, the rules and the clock of its reading say.
ActiveIsRight == due = {} /\ ~moved => active = Right

\* Subscribe: "a subscriber that is busy gets the newest name".  The channel
\* holds the active name, and a player with no message to come plays it.
NewestIsHeard ==
    /\ chan \subseteq {active}
    /\ chan = {} /\ sub = {} /\ ~told => playing = active

\* ScreenShouldBeOn and ScreenOffCovers: the picture and the nightly restart
\* follow the windows of the screen rule, over midnight too.
ScreenIsRight ==
    /\ ScreenShouldBeOn(now) <=> (HasTimes(screenRule) => Covers(screenRule, now))
    /\ ScreenOffCovers(now) <=> (HasTimes(screenRule) /\ ~Covers(screenRule, now))

\* The safety of the schedule.
ScheduleIsRight == TypeOK /\ ActiveIsRight /\ NewestIsHeard /\ ScreenIsRight

\* In the end the player plays what must play now.
PlaysRight == playing = Right
=============================================================================
