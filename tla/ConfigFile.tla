----------------------------- MODULE ConfigFile -----------------------------
(***************************************************************************)
(* portapixel.toml on the card, its shadow copy in the state directory     *)
(* (internal/config/load.go) and the configuration that the daemon runs    *)
(* (cmd/portapixeld/run.go): the settings page, the pairing, the rename    *)
(* command of the fleet and the rename of a playlist write it, a person    *)
(* edits it by hand, and watchConfig reads it again.                       *)
(*                                                                         *)
(* cfgWriteMu keeps the operations of the daemon apart; the person takes   *)
(* no lock.  A configuration is three fields: the name of the device, the  *)
(* default playlist (a field that the fleet server manages) and the server *)
(* that the device is paired with.  The only value that breaks a rule is   *)
(* the name Bad.                                                           *)
(***************************************************************************)
EXTENDS Integers

CONSTANTS
    Names,        \* the names of the device that pass Validate
    Factory,      \* the default of device.name
    Bad,          \* a name that does not pass
    Lists,        \* the playlists
    FirstList,    \* the default of playback.default_playlist
    CfgEvents,    \* the events that can happen
    MaxCfg        \* bound: how many of the events happen

Configs == [name : Names, def : Lists, srv : BOOLEAN]
Default == [name |-> Factory, def |-> FirstList, srv |-> FALSE]

\* What a hand edit can leave: a good file, one with a key that the device does
\* not know, one with a value that breaks a rule, or one that is not TOML.
Contents ==
    [is : {"good", "unknown"}, cfg : Configs]
        \cup [is : {"faulty"}, cfg : [name : {Bad}, def : Lists, srv : BOOLEAN]]
        \cup [is : {"broken"}, cfg : {Default}]

\* What a read can find.
Reads ==
    [is : {"good", "unknown"}, cfg : Configs]
        \cup [is : {"faulty", "broken"}, cfg : [name : Names \cup {Bad}, def : Lists, srv : BOOLEAN]]

\* The modification times: 0 of the first file, -Last - 1 (the zero time) of a file
\* that is not there.
Last == 2 * MaxCfg
NoFile == -Last - 1

Good(f) == f.is \in {"good", "unknown"}

VARIABLES
    file, stamp,  \* portapixel.toml and its modification time, NoFile without it
    shadow,       \* portapixel.toml.lkg; "broken" before there is one
    run,          \* the configuration that runs (daemon.cfg)
    known,        \* daemon.cfgModified
    fromShadow,   \* daemon.fromShadow
    code,         \* daemon.cfgCode, "none" without a warning
    paired,       \* sync.Managed
    watch,        \* the time that watchConfig read, before it has the lock
    ticks,        \* how many times were given out
    op,           \* what the holder of cfgWriteMu does
    raced,        \* history: the file is an edit that came while the lock was held, or
                  \* that left the time which the daemon knows
    lastGood,     \* history: the last good file that the daemon read or wrote
    events

daemon == <<run, known, fromShadow, code>>
vars == <<file, stamp, shadow, daemon, paired, watch, ticks, op, raced, lastGood, events>>

Codes == {"none", "repaired", "badEdit", "managed", "unknown"}
Free == [pc |-> "free", kind |-> "none", next |-> Default, read |-> file, at |-> stamp]

Init ==
    /\ file = [is |-> "good", cfg |-> Default] /\ stamp = 0
    /\ shadow = file
    /\ run = Default /\ known = stamp /\ fromShadow = FALSE /\ code = "none"
    /\ paired = FALSE
    /\ watch = stamp /\ ticks = 0
    /\ op = [pc |-> "free", kind |-> "none", next |-> Default, read |-> file, at |-> stamp]
    /\ raced = FALSE /\ lastGood = Default
    /\ events = 0

TypeOK ==
    /\ file \in Contents /\ shadow \in Contents
    /\ {stamp, known, watch} \subseteq NoFile..Last
    /\ run \in Configs /\ lastGood \in Configs
    /\ {fromShadow, paired, raced} \subseteq BOOLEAN
    /\ code \in Codes
    /\ op \in [pc : {"free", "stat", "read", "adopt", "clean", "save", "mirror", "adopted"},
              kind : {"none", "page", "server", "name", "rename", "reload"}, next : Configs,
              read : Reads, at : NoFile..Last]
    /\ events \in 0..MaxCfg

Event(e) == e \in CfgEvents /\ events < MaxCfg /\ events' = events + 1

\* Modification times do not come back.  A copy from a laptop can be older than
\* the file that it replaces.
NewStamp(older) ==
    /\ ticks' = ticks + 1
    /\ stamp' \in {ticks'} \cup (IF older THEN {-ticks'} ELSE {})

-----------------------------------------------------------------------------
(***************************************************************************)
(* Load, at the start of the daemon.                                       *)
(***************************************************************************)
\* Repair: a value that breaks a rule takes its default.
Repair(c) == IF c.name = Bad THEN [c EXCEPT !.name = Factory] ELSE c

\* A file that parses is used, repaired where it must be; else the shadow copy;
\* else the defaults.  Only a file that breaks no rule goes in the shadow.
Load ==
    /\ Event("restart")
    /\ run' = IF file.is # "broken" /\ stamp # NoFile THEN Repair(file.cfg) ELSE Repair(shadow.cfg)
    /\ shadow' = IF Good(file) /\ stamp # NoFile THEN file ELSE shadow
    /\ lastGood' = IF Good(file) /\ stamp # NoFile THEN file.cfg ELSE lastGood
    /\ fromShadow' = ((file.is = "broken" \/ stamp = NoFile) /\ Good(shadow))
    /\ code' = IF stamp = NoFile \/ ~Good(file) THEN "repaired"
               ELSE IF file.is = "unknown" THEN "unknown" ELSE "none"
    /\ known' = stamp /\ watch' = stamp /\ op' = Free
    /\ UNCHANGED <<file, stamp, ticks, paired, raced>>

-----------------------------------------------------------------------------
(***************************************************************************)
(* The operations.  Each takes cfgWriteMu and keeps it to its end.         *)
(***************************************************************************)
Take(kind, pc, next) ==
    /\ op.pc = "free"
    /\ op' = [Free EXCEPT !.pc = pc, !.kind = kind, !.next = next]

\* PUT /api/config: writeConfigLocked compares what came with what runs, and the
\* fields of the fleet server and of the pairing stay while the device is paired.
saveConfig(c) ==
    /\ Event("save")
    /\ paired => c.def = run.def /\ c.srv = run.srv
    /\ Take("page", "save", c)
    /\ UNCHANGED <<file, stamp, ticks, shadow, daemon, paired, watch, raced, lastGood>>

\* saveServer, from Pair and Unpair.
saveServer ==
    /\ Event("server")
    /\ Take("server", "save", [run EXCEPT !.srv = ~@])
    /\ UNCHANGED <<file, stamp, ticks, shadow, daemon, paired, watch, raced, lastGood>>

\* saveName and playlistRenamed ask for a clean configuration first.
saveName(n) ==
    /\ Event("name")
    /\ Take("name", "stat", [Default EXCEPT !.name = n])
    /\ UNCHANGED <<file, stamp, ticks, shadow, daemon, paired, watch, raced, lastGood>>

playlistRenamed(l) ==
    /\ Event("rename")
    /\ Take("rename", "stat", [Default EXCEPT !.def = l])
    /\ UNCHANGED <<file, stamp, ticks, shadow, daemon, paired, watch, raced, lastGood>>

\* A mutant: only a newer file is a hand edit.
UnreadNewer(t) == t > known

\* A hand edit shows by another modification time, older or newer.
Unread(t) == t # known

\* watchConfig reads the time first and takes the lock after that.
watchConfig ==
    /\ watch # stamp /\ watch' = stamp
    /\ UNCHANGED <<file, stamp, ticks, shadow, daemon, paired, op, raced, lastGood, events>>

reloadConfig ==
    /\ Unread(watch)
    /\ op.pc = "free"
    /\ op' = [Free EXCEPT !.pc = "read", !.kind = "reload", !.at = watch]
    /\ UNCHANGED <<file, stamp, ticks, shadow, daemon, paired, watch, raced, lastGood, events>>

\* A mutant: the edit that nobody read yet is not looked for.
LookFirstNever == FALSE

LookFirst == Unread(stamp)

\* cleanConfigLocked: an edit that the daemon did not read yet is read now.
cleanStat ==
    /\ op.pc = "stat"
    /\ op' = [op EXCEPT !.at = stamp, !.pc = IF LookFirst THEN "read" ELSE "clean"]
    /\ UNCHANGED <<file, stamp, ticks, shadow, daemon, paired, watch, raced, lastGood, events>>

\* reloadConfigLocked notes the time that it was given, and reads.
reloadRead ==
    /\ op.pc = "read"
    /\ known' = op.at
    /\ op' = [op EXCEPT !.read = [file EXCEPT !.is = IF stamp = NoFile THEN "broken" ELSE @],
                        !.pc = "adopt"]
    /\ UNCHANGED <<file, stamp, ticks, shadow, run, fromShadow, code, paired, watch, raced, lastGood, events>>

\* keepManaged: what the fleet server owns keeps the value that runs.
keepManaged(c) == IF paired THEN [c EXCEPT !.def = run.def, !.srv = run.srv] ELSE c

AfterReload == IF op.kind = "reload" THEN Free ELSE [op EXCEPT !.pc = "clean"]

\* A file with a fault changes nothing but the warning.  A good one is adopted,
\* and adopt takes the time that the file has now.
reloadAdopt ==
    /\ op.pc = "adopt"
    /\ IF Good(op.read)
       THEN /\ run' = keepManaged(op.read.cfg)
            /\ code' = IF run' # op.read.cfg THEN "managed"
                       ELSE IF op.read.is = "unknown" THEN "unknown" ELSE "none"
            /\ fromShadow' = FALSE /\ known' = stamp
            /\ lastGood' = op.read.cfg
       ELSE code' = "badEdit" /\ UNCHANGED <<run, fromShadow, known, lastGood>>
    /\ op' = AfterReload
    /\ UNCHANGED <<file, stamp, ticks, shadow, paired, watch, raced, events>>

\* clean: the daemon runs the file as the person wrote it.
Clean == ~fromShadow /\ code \in {"none", "unknown"}

\* saveName and playlistRenamed change one field of what runs.  A paired device
\* refuses a change of a managed field in saveName; playlistRenamed saves itself.
cleanGo ==
    /\ op.pc = "clean"
    /\ LET c == IF op.kind = "name" THEN [run EXCEPT !.name = op.next.name]
                ELSE [run EXCEPT !.def = op.next.def]
       IN  op' = IF Clean /\ c # run THEN [op EXCEPT !.pc = "save", !.next = c] ELSE Free
    /\ UNCHANGED <<file, stamp, ticks, shadow, daemon, paired, watch, raced, lastGood, events>>

\* config.Save: the whole file by a rename, then the shadow copy, whose failure
\* nobody hears of.
Save ==
    /\ op.pc = "save"
    /\ \/ /\ NewStamp(FALSE)
          /\ file' = [is |-> "good", cfg |-> op.next]
          /\ raced' = FALSE /\ lastGood' = op.next
          /\ op' = [op EXCEPT !.pc = "mirror"]
          /\ UNCHANGED events
       \/ /\ Event("full")
          /\ op' = Free /\ UNCHANGED <<file, stamp, ticks, raced, lastGood>>
    /\ UNCHANGED <<shadow, daemon, paired, watch>>

mirror ==
    /\ op.pc = "mirror"
    /\ \/ shadow' = [is |-> "good", cfg |-> op.next] /\ UNCHANGED events
       \/ Event("full") /\ UNCHANGED shadow
    /\ op' = [op EXCEPT !.pc = "adopted"]
    /\ UNCHANGED <<file, stamp, ticks, daemon, paired, watch, raced, lastGood>>

\* adopt: what was saved runs, and the time of the file is the one that it has
\* now.
adopt ==
    /\ op.pc = "adopted"
    /\ run' = op.next /\ known' = stamp /\ fromShadow' = FALSE /\ code' = "none"
    /\ op' = Free
    /\ UNCHANGED <<file, stamp, ticks, shadow, paired, watch, raced, lastGood, events>>

-----------------------------------------------------------------------------
\* A person writes the file or takes it away.  A file that is not there has one time
\* for ever, so the daemon does not see that one was removed a second time.
Person ==
    /\ Event("person")
    /\ \/ NewStamp(TRUE) /\ file' \in {f \in Contents : f.cfg.srv = file.cfg.srv}
       \/ stamp # NoFile /\ stamp' = NoFile /\ UNCHANGED <<file, ticks>>
    /\ raced' = (op.pc # "free" \/ stamp' = known)
    /\ UNCHANGED <<shadow, daemon, paired, watch, op, lastGood>>

Pairing ==
    /\ Event("pair") /\ paired' = ~paired
    /\ UNCHANGED <<file, stamp, ticks, shadow, daemon, watch, op, raced, lastGood>>

Steps ==
    \/ watchConfig \/ reloadConfig \/ cleanStat \/ reloadRead \/ reloadAdopt
    \/ cleanGo \/ Save \/ mirror \/ adopt

Next ==
    \/ Steps
    \/ \E n \in Names, l \in Lists : saveConfig([run EXCEPT !.name = n, !.def = l])
    \/ saveServer
    \/ \E n \in Names : saveName(n)
    \/ \E l \in Lists : playlistRenamed(l)
    \/ Load \/ Person \/ Pairing

Spec == Init /\ [][Next]_vars

\* The ticker of watchConfig fires for ever and nobody keeps cfgWriteMu.
Fairness == WF_vars(Steps)

-----------------------------------------------------------------------------
(***************************************************************************)
(* Properties.                                                             *)
(***************************************************************************)
\* "A save that no person asked for in this moment must not write" over values of
\* the person: when a rename writes the file, the file was what runs.  An edit
\* that came while the lock was held is excused, and so is a file that was removed
\* again, whose time says nothing new.
AutoSaveKeepsEdits ==
    op.kind \in {"name", "rename"} /\ op.pc = "save" /\ file' # file /\ ~raced
        => stamp # NoFile /\ Good(file) /\ file.cfg = run

\* The inductive invariant behind it.  What the daemon knows of the file is true while
\* it counts as clean: the time is that of the file, and the file is what runs.
KnownIsTrue ==
    known = stamp /\ Clean /\ ~raced /\ op.pc \notin {"adopt", "mirror", "adopted"}
        => stamp # NoFile /\ Good(file) /\ file.cfg = run

\* The operation that has the lock knows the file: it read it, looked at its time, or
\* wrote it.
OpIsTrue ==
    /\ op.pc = "adopt" /\ ~raced
            => op.read = [file EXCEPT !.is = IF stamp = NoFile THEN "broken" ELSE @]
    /\ op.kind \in {"name", "rename"} /\ op.pc \in {"clean", "save"}
            => (op.pc = "save" => Clean) /\ (Clean /\ ~raced => known = stamp)
    /\ op.pc \in {"mirror", "adopted"} /\ ~raced
            => stamp # NoFile /\ file = [is |-> "good", cfg |-> op.next]

\* The operations that an event began can still write the file, one time each; the
\* times that were given out do not come back.
Writers == {"page", "server", "name", "rename"}
Owes == op.kind \in Writers /\ op.pc \notin {"mirror", "adopted"}
TimesAreOld ==
    /\ ticks \in Nat /\ ticks <= events /\ (Owes => ticks < events)
    /\ {stamp, known, watch, op.at} \subseteq {NoFile} \cup (-ticks)..ticks
    /\ op.pc = "free" <=> op.kind = "none"
    /\ op.kind \notin Writers => op.pc \in {"free", "read", "adopt"}

ConfigInv == TypeOK /\ KnownIsTrue /\ OpIsTrue /\ TimesAreOld

\* watchConfig: a person "must not have to restart anything".  In the end a good
\* file runs.  The fields of the fleet server are left aside, and so is an edit
\* that came while the lock was held.
FileRuns == stamp # NoFile /\ Good(file) /\ ~raced => run.name = file.cfg.name

EditIsTaken == <>[]FileRuns

\* docs/settings.md: "the shadow copy always holds the last file that parsed and
\* validated cleanly", in every state in which no operation is under way.
ShadowIsLastGood == op.pc = "free" => shadow.cfg = lastGood

\* The same as EditIsTaken, with the edits that came while the lock was held.
EveryEditIsTaken ==
    <>[](stamp # NoFile /\ Good(file) => run.name = file.cfg.name)

\* CONTEXT.md: "no code writes the config to the media root when Load reports
\* FromShadow, FromDefault or Repaired", without the page, which asks.
NoWriteOverAFault ==
    [][op.kind # "page" /\ op.pc = "save" /\ file' # file /\ ~raced => Clean]_vars
=============================================================================
