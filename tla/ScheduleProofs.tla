--------------------------- MODULE ScheduleProofs ---------------------------
(***************************************************************************)
(* Proofs about Schedule: inWindow is the reference for every window and   *)
(* every moment, and the schedule is right in every reachable state.       *)
(***************************************************************************)
EXTENDS Schedule, TLAPS, WellFoundedInduction

\* The days of the week in a circle.
LEMMA DayBefore ==
    ASSUME NEW d \in 0..6, NEW day \in 0..6
    PROVE  /\ previousDay(day) \in 0..6
           /\ day = (d + 0) % 7 <=> d = day
           /\ day = (d + 1) % 7 <=> d = previousDay(day)
BY DEF previousDay

\* The minutes of a window with times: those of its day, and those of the night.
LEMMA MinutesOfWindow ==
    ASSUME NEW N \in Nat \ {0}, NEW m \in 0..(N - 1), NEW s \in 0..(N - 1),
           NEW e \in 0..(N - 1), NEW len \in Int,
           len = e - s + IF e < s THEN N ELSE 0
    PROVE  /\ 0 <= m - s /\ m - s < len <=> s <= m /\ (m < e \/ e < s)
           /\ 0 <= N + m - s /\ N + m - s < len <=> e < s /\ m < e
OBVIOUS

\* Covers has two parts: a window that opened today, and one of the day before.
LEMMA CoversInParts ==
    ASSUME NEW w, NEW t \in Time, DayLen \in Nat, Opens(w) \in Int
    PROVE  Covers(w, t) <=>
            \/ /\ dayPermitted(w.days, t.day)
               /\ 0 <= t.minute - Opens(w) /\ t.minute - Opens(w) < Length(w)
            \/ /\ dayPermitted(w.days, previousDay(t.day))
               /\ 0 <= DayLen + t.minute - Opens(w)
               /\ DayLen + t.minute - Opens(w) < Length(w)
<1> DEFINE Part(d, n) ==
        /\ dayPermitted(w.days, d) /\ t.day = (d + n) % 7
        /\ 0 <= n * DayLen + t.minute - Opens(w)
        /\ n * DayLen + t.minute - Opens(w) < Length(w)
<1>1. t.day \in 0..6 /\ t.minute \in Int
  BY DEF Time, Weekdays, Minutes
<1>2. Covers(w, t) <=> \E d \in 0..6 : Part(d, 0) \/ Part(d, 1)
  BY DEF Covers, Weekdays
<1>3. /\ 0 * DayLen + t.minute - Opens(w) = t.minute - Opens(w)
      /\ 1 * DayLen + t.minute - Opens(w) = DayLen + t.minute - Opens(w)
  BY <1>1
<1>4. (\E d \in 0..6 : Part(d, 0)) <=>
        /\ dayPermitted(w.days, t.day)
        /\ 0 <= t.minute - Opens(w) /\ t.minute - Opens(w) < Length(w)
  BY <1>1, <1>3, DayBefore, Zenon
<1>5. (\E d \in 0..6 : Part(d, 1)) <=>
        /\ dayPermitted(w.days, previousDay(t.day))
        /\ 0 <= DayLen + t.minute - Opens(w) /\ DayLen + t.minute - Opens(w) < Length(w)
  BY <1>1, <1>3, DayBefore, Zenon
<1> HIDE DEF Part
<1> QED BY <1>2, <1>4, <1>5, Zenon

\* inWindow: a window opens on each permitted day and lasts its length, also
\* over midnight and from Saturday to Sunday.
THEOREM WindowIsReference ==
    ASSUME ScheduleAssumption, NEW w \in Windows, NEW t \in Time
    PROVE  inWindow(w, t) <=> Covers(w, t)
<1>1. DayLen \in Nat \ {0}
  BY DEF ScheduleAssumption
<1>2. t.day \in 0..6 /\ t.minute \in 0..(DayLen - 1)
  BY DEF Time, Weekdays, Minutes
<1>3. w.start \in 0..(DayLen - 1) \cup {-1} /\ w.end \in 0..(DayLen - 1) \cup {-1}
  BY DEF Windows, Minutes, NoTime
<1>4. CASE w.start = -1 \/ w.end = -1
  <2>1. Opens(w) = 0 /\ Length(w) = IF w.start = w.end THEN DayLen ELSE 0
    BY <1>4 DEF Opens, Length, HasTimes, NoTime
  <2>2. inWindow(w, t) <=> w.start = w.end /\ dayPermitted(w.days, t.day)
    BY <1>3, <1>4 DEF inWindow, ParseClock, NoTime
  <2> QED BY <1>1, <1>2, <2>1, <2>2, CoversInParts
<1>5. CASE w.start # -1 /\ w.end # -1
  <2>1. /\ Opens(w) = w.start
        /\ Length(w) = w.end - w.start + IF w.end < w.start THEN DayLen ELSE 0
    BY <1>5 DEF Opens, Length, HasTimes, NoTime
  <2>2. w.start \in 0..(DayLen - 1) /\ w.end \in 0..(DayLen - 1) /\ Length(w) \in Int
    BY <1>1, <1>3, <1>5, <2>1
  <2>3. inWindow(w, t) <=>
          \/ /\ w.start <= t.minute /\ (t.minute < w.end \/ w.end < w.start)
             /\ dayPermitted(w.days, t.day)
          \/ /\ w.end < w.start /\ t.minute < w.end
             /\ dayPermitted(w.days, previousDay(t.day))
    BY <1>1, <1>2, <1>5, <2>2 DEF inWindow, ParseClock, NoTime
  <2>4. /\ 0 <= t.minute - w.start /\ t.minute - w.start < Length(w)
            <=> w.start <= t.minute /\ (t.minute < w.end \/ w.end < w.start)
        /\ 0 <= DayLen + t.minute - w.start /\ DayLen + t.minute - w.start < Length(w)
            <=> w.end < w.start /\ t.minute < w.end
    BY <1>1, <1>2, <2>1, <2>2, MinutesOfWindow
  <2>5. Opens(w) \in Int
    BY <2>1, <2>2
  <2> QED BY <1>1, <2>1, <2>3, <2>4, <2>5, CoversInParts
<1> QED BY <1>4, <1>5

-----------------------------------------------------------------------------
\* The first rule of a set of rule numbers is one of them.
LEMMA FirstInSet ==
    ASSUME NEW S \in SUBSET Nat, S # {}
    PROVE  First(S) \in S
<1>1. PICK x \in S : \A y \in S : ~(<<y, x>> \in OpToRel(<, Nat))
  BY NatLessThanWellFounded, WFMin, Zenon
<1>2. \A y \in S : <<y, x>> \in OpToRel(<, Nat) <=> y < x
  <2> TAKE y \in S
  <2>1. y \in Nat /\ x \in Nat
    OBVIOUS
  <2> QED BY <2>1, Zenon DEF OpToRel
<1>3. \A y \in S : ~(y < x)
  BY <1>1, <1>2, Zenon
<1>4. \A y \in S : x <= y
  <2> QED BY <1>3
<1> QED BY <1>4, Zenon DEF First

\* The rules of a plan have numbers and the types of a rule.
LEMMA RuleTyped ==
    ASSUME NEW rules \in Seq(Rules), NEW i \in DOMAIN rules
    PROVE  i \in Nat /\ rules[i].win \in Windows /\ rules[i].playlist \in Names
<1>1. DOMAIN rules = 1..Len(rules) /\ Len(rules) \in Nat
  OBVIOUS
<1>2. i \in Nat /\ rules[i] \in Rules
  BY <1>1
<1> QED BY <1>2 DEF Rules

\* The plan that counts has the types of a plan.
LEMMA LiveTyped ==
    ASSUME ScheduleAssumption, NEW c \in Plans, NEW f \in FleetPlans \cup {NoFleet}
    PROVE  Live(c, f).default \in Names /\ Live(c, f).rules \in Seq(Rules)
BY DEF ScheduleAssumption, PlanSet, Live

\* The rule that matches names a playlist of the library, or none.
LEMMA MatchTyped ==
    ASSUME ScheduleAssumption, NEW rules \in Seq(Rules), NEW t
    PROVE  match(rules, t) \in Names
<1> DEFINE hits == {i \in DOMAIN rules : inWindow(rules[i].win, t)}
<1>1. hits \in SUBSET Nat /\ \A i \in hits : rules[i].playlist \in Names
  BY RuleTyped, Zenon
<1>2. hits # {} => First(hits) \in hits
  BY <1>1, FirstInSet
<1> QED BY <1>1, <1>2 DEF match, ScheduleAssumption

\* match with the reference: what Evaluate finds is what must play.
LEMMA MatchIsRight ==
    ASSUME ScheduleAssumption, TypeOK
    PROVE  LET rule == IF synced THEN match(Live(cfg, fleet).rules, now) ELSE ""
           IN  Right = IF rule = "" THEN defaultPlaylist(cfg, fleet) ELSE rule
<1> DEFINE live == Live(cfg, fleet)
           hits == {i \in DOMAIN live.rules : inWindow(live.rules[i].win, now)}
           refs == {i \in DOMAIN live.rules : synced /\ Covers(live.rules[i].win, now)}
<1>1. live.rules \in Seq(Rules) /\ now \in Time
  BY LiveTyped DEF TypeOK
<1>2. \A i \in DOMAIN live.rules : live.rules[i].win \in Windows
  BY <1>1, RuleTyped
<1>3. \A i \in DOMAIN live.rules :
        inWindow(live.rules[i].win, now) <=> Covers(live.rules[i].win, now)
  BY <1>1, <1>2, WindowIsReference
<1>4. Right = IF refs = {} \/ live.rules[First(refs)].playlist = ""
              THEN live.default ELSE live.rules[First(refs)].playlist
  BY DEF Right
<1>5. CASE synced
  <2>1. refs = hits
    BY <1>3, <1>5
  <2>2. match(live.rules, now) = IF hits = {} THEN "" ELSE live.rules[First(hits)].playlist
    BY DEF match
  <2> HIDE DEF live, hits, refs
  <2>3. live = Live(cfg, fleet)
    BY DEF live
  <2> QED BY <1>4, <1>5, <2>1, <2>2, <2>3 DEF defaultPlaylist
<1>6. CASE ~synced
  <2>1. refs = {}
    BY <1>6
  <2> QED BY <1>4, <1>6, <2>1 DEF defaultPlaylist
<1>7. synced \in BOOLEAN
  BY DEF TypeOK
<1> QED BY <1>5, <1>6, <1>7

\* So does the answer of the reference.
LEMMA RightTyped ==
    ASSUME ScheduleAssumption, TypeOK
    PROVE  Right \in Names
<1>1. Live(cfg, fleet).rules \in Seq(Rules) /\ defaultPlaylist(cfg, fleet) \in Names
  BY LiveTyped DEF TypeOK, defaultPlaylist
<1>2. match(Live(cfg, fleet).rules, now) \in Names
  BY <1>1, MatchTyped
<1> QED BY <1>1, <1>2, MatchIsRight

-----------------------------------------------------------------------------
(***************************************************************************)
(* The inductive invariant.  An evaluation belongs to a caller that still  *)
(* waits.  When no other caller waits, nothing has changed since it read,  *)
(* the clock aside: whoever changes something waits.                       *)
(***************************************************************************)
Fresh ==
    eval.pc # "idle" =>
        /\ eval.by \in due
        /\ due = {eval.by} =>
            /\ eval.pc \in {"clock", "default", "match"} => eval.cfg = cfg
            /\ eval.pc \in {"default", "match"} =>
                    eval.synced = synced /\ (moved \/ eval.now = now)
            /\ eval.pc = "match" => eval.name = defaultPlaylist(cfg, fleet)
            /\ eval.pc = "publish" => moved \/ eval.name = Right

Inv == TypeOK /\ Fresh /\ ActiveIsRight /\ NewestIsHeard

\* The screen needs no invariant: it is a question about one moment.
LEMMA ScreenFollows ==
    ASSUME ScheduleAssumption, TypeOK
    PROVE  ScreenIsRight
<1>1. HasTimes(screenRule) => screenRule \in Windows
  BY DEF screenRule, TypeOK, ScheduleAssumption, PlanSet
<1>2. now \in Time
  BY DEF TypeOK
<1>3. HasTimes(screenRule) => (inWindow(screenRule, now) <=> Covers(screenRule, now))
  BY <1>1, <1>2, WindowIsReference
<1> QED BY <1>3, Zenon DEF ScreenIsRight, ScreenShouldBeOn, ScreenOffCovers

\* The invariant holds at the start.
LEMMA InitInv ==
    ASSUME ScheduleAssumption, Init
    PROVE  Inv
<1>1. Right \in Names
  <2>1. cfg \in Plans /\ fleet \in FleetPlans \cup {NoFleet}
    BY DEF Init
  <2> DEFINE live == Live(cfg, fleet)
             refs == {i \in DOMAIN live.rules : synced /\ Covers(live.rules[i].win, now)}
  <2>2. live.rules \in Seq(Rules) /\ live.default \in Names
    BY <2>1, LiveTyped
  <2>3. refs \in SUBSET Nat /\ \A i \in refs : live.rules[i].playlist \in Names
    BY <2>2, RuleTyped, Zenon
  <2>4. refs # {} => First(refs) \in refs
    BY <2>3, FirstInSet
  <2> QED BY <2>2, <2>3, <2>4, Zenon DEF Right
<1>2. TypeOK
  <2>1. eval \in Evaluations
    BY Zenon DEF Init, Evaluations
  <2>2. count \in 0..MaxSchedule
    <3>1. MaxSchedule \in Nat /\ count = 0
      BY Zenon DEF Init, ScheduleAssumption
    <3> QED BY <3>1
  <2>3. now \in Time
    BY DEF Init, ScheduleAssumption
  <2> QED BY <1>1, <2>1, <2>2, <2>3 DEF Init, TypeOK
<1> QED BY <1>2 DEF Inv, Init, Fresh, NoEval, ActiveIsRight, NewestIsHeard

\* A change of the plan, of the clock or of its sync state, and the ticker.
LEMMA ChangeTyped ==
    ASSUME ScheduleAssumption, TypeOK,
           \/ \E f \in FleetPlans : SetFleetRules(f)
           \/ \E c \in {"sync", "unpair"} : ClearFleetRules(c)
           \/ \E c \in Plans : applyChanges(c)
           \/ watchClock \/ Tick \/ Minute \/ ClockStep
    PROVE  TypeOK'
<1>1. /\ cfg' \in Plans /\ fleet' \in FleetPlans \cup {NoFleet}
      /\ due' \subseteq Callers /\ synced' \in BOOLEAN /\ moved' \in BOOLEAN
  BY DEF TypeOK, SetFleetRules, ClearFleetRules, applyChanges, watchClock, Tick, Minute,
         ClockStep, Joins, Callers, plan, clock
<1>2. count' \in 0..MaxSchedule
  <2>1. MaxSchedule \in Nat /\ count \in 0..MaxSchedule
    BY Zenon DEF ScheduleAssumption, TypeOK
  <2>2. count' = count \/ (count < MaxSchedule /\ count' = count + 1)
    BY Zenon DEF SetFleetRules, ClearFleetRules, applyChanges, watchClock, Tick, Minute,
                 ClockStep, Counted
  <2> QED BY <2>1, <2>2
<1>3. now' \in Time
  <2>1. CASE Minute
    <3>1. now.day \in 0..6 /\ now.minute \in 0..(DayLen - 1) /\ DayLen \in Nat \ {0}
      BY DEF TypeOK, Time, Weekdays, Minutes, ScheduleAssumption
    <3>2. (now.day + 1) % 7 \in 0..6
      BY <3>1
    <3>3. (now.minute + 1) % DayLen \in 0..(DayLen - 1)
      BY <3>1
    <3> QED BY <2>1, <3>1, <3>2, <3>3 DEF Minute, Time, Weekdays, Minutes
  <2>2. CASE ClockStep
    BY <2>2 DEF ClockStep, ScheduleAssumption
  <2>3. CASE ~Minute /\ ~ClockStep
    BY <2>3 DEF TypeOK, SetFleetRules, ClearFleetRules, applyChanges, watchClock, Tick, clock
  <2> QED BY <2>1, <2>2, <2>3
<1>4. UNCHANGED <<active, eval, chan, sub, told, playing>>
  BY DEF SetFleetRules, ClearFleetRules, applyChanges, watchClock, Tick, Minute, ClockStep,
         reader
<1> QED BY <1>1, <1>2, <1>3, <1>4 DEF TypeOK

\* Whoever changes something joins the callers that wait, so it leaves no
\* evaluation alone with what it read.
LEMMA ChangeInv ==
    ASSUME ScheduleAssumption, Inv,
           \/ \E f \in FleetPlans : SetFleetRules(f)
           \/ \E c \in {"sync", "unpair"} : ClearFleetRules(c)
           \/ \E c \in Plans : applyChanges(c)
           \/ watchClock \/ Tick \/ Minute \/ ClockStep
    PROVE  Inv'
<1>1. TypeOK'
  BY ChangeTyped DEF Inv
<1>2. UNCHANGED <<active, eval, chan, sub, told, playing>>
  BY DEF SetFleetRules, ClearFleetRules, applyChanges, watchClock, Tick, Minute, ClockStep,
         reader
<1>3. NewestIsHeard'
  BY <1>2 DEF Inv, NewestIsHeard
<1>4. CASE Minute \/ ClockStep
  <2>1. UNCHANGED <<cfg, fleet, synced, due>> /\ moved'
    BY <1>4 DEF Minute, ClockStep, plan
  <2> QED BY <1>1, <1>2, <1>3, <2>1 DEF Inv, Fresh, ActiveIsRight, defaultPlaylist, Live
<1>5. CASE ~Minute /\ ~ClockStep
  <2>1. PICK c \in Callers : Joins(c)
    BY <1>5 DEF SetFleetRules, ClearFleetRules, applyChanges, watchClock, Tick, Callers
  <2>2. due' # {} /\ (eval.pc # "idle" => eval.by \in due' /\ due' # {eval.by})
    BY <2>1 DEF Joins, Inv, Fresh
  <2> QED BY <1>1, <1>2, <1>3, <2>2 DEF Inv, Fresh, ActiveIsRight
<1> QED BY <1>4, <1>5

\* What evalMatch does to the evaluation, whatever it finds.
LEMMA MatchStep ==
    ASSUME evalMatch
    PROVE  /\ eval.pc = "match" /\ eval'.pc = "publish" /\ eval'.by = eval.by
           /\ UNCHANGED <<active, due, chan, told, moved>>
<1>1. eval.pc = "match" /\ UNCHANGED <<active, due, chan, told, moved>>
  BY Zenon DEF evalMatch, reader
<1>2. \E x : eval' = [pc |-> "publish", by |-> eval.by, name |-> x]
  BY Zenon DEF evalMatch
<1> QED BY <1>1, <1>2

\* The five steps of an evaluation have its types.
LEMMA EvalTyped ==
    ASSUME ScheduleAssumption, TypeOK, Evaluate
    PROVE  TypeOK'
<1>1. UNCHANGED <<cfg, fleet, now, synced, sub, playing, count>>
  BY DEF Evaluate, evalConfig, evalClock, evalDefault, evalMatch, evalPublish, plan, clock,
         reader
<1>2. CASE \E c \in Callers : evalConfig(c)
  <2>1. eval' \in Evaluations /\ UNCHANGED <<active, due, chan, told, moved>>
    BY <1>2 DEF evalConfig, TypeOK, Evaluations, reader
  <2> QED BY <1>1, <2>1 DEF TypeOK
<1>3. CASE evalClock
  <2>1. eval.by \in Callers /\ eval.cfg \in Plans
    BY <1>3 DEF evalClock, TypeOK, Evaluations, NoEval
  <2>2. eval' \in Evaluations
    BY <1>3, <2>1 DEF evalClock, TypeOK, Evaluations
  <2> QED BY <1>1, <1>3, <2>2 DEF TypeOK, evalClock, reader
<1>4. CASE evalDefault
  <2>1. /\ eval.by \in Callers /\ eval.cfg \in Plans /\ eval.now \in Time
        /\ eval.synced \in BOOLEAN
    BY <1>4 DEF evalDefault, TypeOK, Evaluations, NoEval
  <2>2. defaultPlaylist(eval.cfg, fleet) \in Names
    BY <2>1, LiveTyped DEF TypeOK, defaultPlaylist
  <2>3. eval' \in Evaluations
    BY <1>4, <2>1, <2>2 DEF evalDefault, Evaluations
  <2> QED BY <1>1, <1>4, <2>3 DEF TypeOK, evalDefault, reader
<1>5. CASE evalMatch
  <2>1. eval.by \in Callers /\ eval.cfg \in Plans /\ eval.name \in Names
    <3>1. eval \in [pc : {"match"}, by : Callers, cfg : Plans, now : Time,
                   synced : BOOLEAN, name : Names]
      BY <1>5, MatchStep DEF TypeOK, Evaluations, NoEval
    <3> QED BY <3>1
  <2>2. match(Live(eval.cfg, fleet).rules, eval.now) \in Names
    BY <2>1, LiveTyped, MatchTyped DEF TypeOK
  <2>3. eval' \in Evaluations
    BY <1>5, <2>1, <2>2 DEF evalMatch, Evaluations
  <2> QED BY <1>1, <1>5, <2>3 DEF TypeOK, evalMatch, reader
<1>6. CASE evalPublish
  <2>1. eval.name \in Names
    BY <1>6 DEF evalPublish, TypeOK, Evaluations, NoEval
  <2>2. eval' \in Evaluations
    BY <1>6, Zenon DEF evalPublish, Evaluations
  <2> QED BY <1>1, <1>6, <2>1, <2>2 DEF TypeOK, evalPublish, Send
<1> QED BY <1>2, <1>3, <1>4, <1>5, <1>6 DEF Evaluate

\* The steps of an evaluation.
LEMMA EvalInv ==
    ASSUME ScheduleAssumption, Inv, Evaluate
    PROVE  Inv'
<1>1. TypeOK /\ TypeOK'
  BY EvalTyped DEF Inv
<1>2. UNCHANGED <<cfg, fleet, now, synced, sub, playing>>
  BY DEF Evaluate, evalConfig, evalClock, evalDefault, evalMatch, evalPublish, plan, clock,
         reader
<1>3. Right' = Right /\ defaultPlaylist(cfg, fleet)' = defaultPlaylist(cfg, fleet)
  BY <1>2 DEF Right, defaultPlaylist, Live
<1>4. CASE ~evalPublish
  <2>0. eval.pc # "idle" => eval.by \in due
    BY DEF Inv, Fresh
  <2>1. UNCHANGED <<active, due, chan, told>> /\ (eval'.pc # "idle" => eval'.by \in due)
    BY <1>4, <2>0, MatchStep DEF Evaluate, evalConfig, evalClock, evalDefault, reader
  <2>2. eval'.pc # "idle" /\ (moved' = moved \/ due # {})
    BY <1>4, <2>0, MatchStep DEF Evaluate, evalConfig, evalClock, evalDefault
  <2>3. ActiveIsRight' /\ NewestIsHeard'
    BY <1>2, <1>3, <2>1, <2>2 DEF Inv, ActiveIsRight, NewestIsHeard
  <2>4. Fresh'
    <3>1. CASE \E c \in Callers : evalConfig(c)
      BY <1>2, <2>1, <3>1 DEF evalConfig, Fresh
    <3>2. CASE evalClock
      BY <1>2, <2>1, <3>2 DEF evalClock, Inv, Fresh
    <3>3. CASE evalDefault
      BY <1>2, <1>3, <2>1, <3>3 DEF evalDefault, Inv, Fresh
    <3>4. CASE evalMatch
      <4>1. due = {eval.by} /\ ~moved => eval'.name = Right
        BY <1>1, <3>4, MatchIsRight DEF evalMatch, Inv, Fresh
      <4> QED BY <1>2, <1>3, <2>1, <3>4, <4>1 DEF evalMatch, Fresh
    <3> QED BY <1>4, <3>1, <3>2, <3>3, <3>4 DEF Evaluate
  <2> QED BY <1>1, <2>3, <2>4 DEF Inv
<1>5. CASE evalPublish
  <2>1. Fresh'
    BY <1>5 DEF evalPublish, NoEval, Fresh
  <2>2. ActiveIsRight'
    BY <1>3, <1>5 DEF evalPublish, Inv, Fresh, ActiveIsRight
  <2>3. NewestIsHeard'
    <3>1. told \in BOOLEAN /\ told' \in BOOLEAN /\ (told => told')
      BY <1>1, <1>5 DEF TypeOK, evalPublish
    <3> QED BY <1>2, <1>5, <3>1 DEF evalPublish, Send, Inv, NewestIsHeard
  <2> QED BY <1>1, <2>1, <2>2, <2>3 DEF Inv
<1> QED BY <1>4, <1>5

\* The subscriber and the player.
LEMMA HearInv ==
    ASSUME Inv, Hear
    PROVE  Inv'
<1>1. UNCHANGED <<cfg, fleet, now, synced, active, due, eval, moved, count>>
  BY DEF Hear, watchSchedule, scheduleChanged, playerManifest, plan, clock
<1>2. TypeOK'
  BY <1>1 DEF Inv, TypeOK, Hear, watchSchedule, scheduleChanged, playerManifest
<1>3. NewestIsHeard'
  BY <1>1 DEF Inv, TypeOK, NewestIsHeard, Hear, watchSchedule, scheduleChanged, playerManifest
<1>4. Right' = Right /\ defaultPlaylist(cfg, fleet)' = defaultPlaylist(cfg, fleet)
  BY <1>1 DEF Right, defaultPlaylist, Live
<1> QED BY <1>1, <1>2, <1>3, <1>4 DEF Inv, Fresh, ActiveIsRight

\* Evaluate, Subscribe and ScreenShouldBeOn, for all plans, any length of a day
\* and any number of changes: when the callers have returned the active name is
\* the right one, the player hears of the newest name, and the screen follows
\* its windows.
THEOREM ScheduleSafe ==
    ASSUME ScheduleAssumption
    PROVE  Spec => []ScheduleIsRight
<1>1. Init => Inv
  BY InitInv
<1>2. Inv /\ [Next]_vars => Inv'
  <2> SUFFICES ASSUME Inv, [Next]_vars PROVE Inv'
    OBVIOUS
  <2>1. CASE Evaluate
    BY <2>1, EvalInv
  <2>2. CASE Hear
    BY <2>2, HearInv
  <2>3. CASE UNCHANGED vars
    BY <2>3 DEF Inv, TypeOK, Fresh, ActiveIsRight, NewestIsHeard, Right, defaultPlaylist, Live,
                vars, plan, clock, reader
  <2>4. CASE Next /\ ~Evaluate /\ ~Hear
    BY <2>4, ChangeInv, Zenon DEF Next, Hear
  <2> QED BY <2>1, <2>2, <2>3, <2>4
<1>3. Inv => ScheduleIsRight
  BY ScreenFollows DEF Inv, ScheduleIsRight
<1> QED BY <1>1, <1>2, <1>3, PTL DEF Spec
=============================================================================
