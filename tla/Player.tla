------------------------------- MODULE Player -------------------------------
(***************************************************************************)
(* The player of a device: internal/device/player, supervisor.go and       *)
(* watchdog.go, and mpv as far as the supervisor sees it.                  *)
(*                                                                         *)
(* One goroutine owns mpv.  It talks to it through a socket: requests go   *)
(* out in order, answers and events come back in order, and mpv runs on    *)
(* meanwhile.  So the supervisor always acts on news about a list that mpv *)
(* may no longer have.  The code numbers its lists (gen); here a message   *)
(* carries "now", TRUE while it is about the list of this moment.          *)
(*                                                                         *)
(* Every pass of the loop is one action: a message, a command, a change    *)
(* flag, or one rule of step().  A timer is an action that is enabled      *)
(* while the timer runs.                                                   *)
(***************************************************************************)
EXTENDS Naturals, Sequences, FiniteSets, SequencesExt

CONSTANTS
    Lists,       \* the playlists of the library
    NoList,      \* no playlist: the schedule names nothing that can play
    Content,     \* the files of each playlist, in order
    Killers,     \* the files that end mpv while it opens them
    Broken,      \* the files that mpv cannot play
    RestartsBeforeReboot,  \* the reboot rung of the ladder (the default is 4)
    QueueSize,   \* the command queue of the supervisor (the code says 8)
    MaxInFlight, \* bound: how many messages are in the socket when mpv says more
    Events,      \* which of the events below the environment uses
    MaxChanges   \* bound: how many of them happen in one behaviour

Files == UNION {{Content[l][k] : k \in DOMAIN Content[l]} : l \in Lists}
NoFile == 0

ASSUME PlayerAssumption ==
    /\ NoList \notin Lists
    /\ \A l \in Lists : Content[l] \in Seq(Nat \ {NoFile}) /\ Len(Content[l]) > 0
    /\ Killers \subseteq Files
    /\ Broken \subseteq Files
    /\ RestartsBeforeReboot \in Nat \ {0}
    /\ QueueSize \in Nat \ {0}
    /\ MaxInFlight \in Nat \ {0}
    /\ Events \subseteq {"want", "restart", "screen", "display", "unplug",
                         "glitch", "freeze", "die", "nightly", "draw"}
    /\ MaxChanges \in Nat

VARIABLES
    \* The world around the supervisor.
    want,        \* what Options.Manifest names now
    plugged,     \* a display is connected
    cmds,        \* the command queue
    playlistDue, displayDue,  \* the change flags
    \* mpv.
    mpv,         \* the process: see NoMpv
    toMpv,       \* the requests in the socket
    events,      \* the answers and events that the loop has not read
    \* The supervisor.
    ipc,         \* the socket is open
    list,        \* the list that it gave to mpv: see NoLoaded
    cur,         \* the index of the item on the screen, or 0
    resumeFrom,  \* where the next load of the same playlist starts
    crashed,     \* the files that ended mpv
    everUp, expectExit, shownSinceLaunch,
    backoff,     \* the launch backoff runs
    lastDisplay, \* the answer of the last probe
    suspended,   \* the screen is off
    grace,       \* the nightly restart waits for an item boundary
    failed,      \* no item of the playlist could play; the retry waits
    drawDue,     \* a draw of the fallback screen failed
    restarts,    \* the counted restarts of the ladder's window
    \* History and bounds.
    reached,     \* the indices of this list that mpv started
    blamed,      \* how often the exit rule named each file, up to 2, since
                 \* want changed or the fallback screen came
    faults,      \* how often mpv failed with a display connected, up to MaxCount
    rebooted,    \* the supervisor asked for a reboot
    changes      \* how many bounded events happened

worldVars == <<want, plugged, cmds, playlistDue, displayDue>>
mpvVars == <<mpv, toMpv, events>>
listVars == <<list, cur, resumeFrom, crashed, reached>>
launchVars == <<everUp, expectExit, shownSinceLaunch, backoff>>
modeVars == <<lastDisplay, suspended, grace, failed, drawDue>>
countVars == <<restarts, rebooted>>
historyVars == <<blamed, faults>>
vars == <<worldVars, mpvVars, ipc, listVars, launchVars, modeVars, countVars,
          historyVars, changes>>

NoMpv == [up |-> FALSE, sock |-> FALSE, frozen |-> FALSE, now |-> FALSE,
          name |-> NoList, order |-> <<>>, pos |-> 0, phase |-> "none", fails |-> 0]
NoLoaded == [kind |-> "none", name |-> NoList, order |-> <<>>, tried |-> FALSE,
             opened |-> 0, openShown |-> FALSE]
NoBlame == [f \in Files |-> 0]
NoResume == [name |-> NoList, index |-> 0]
MaxCount == RestartsBeforeReboot
Indices == UNION {DOMAIN Content[l] : l \in Lists}

\* mpv, the list that the supervisor gave to it, and the messages in the socket.
Names == Lists \cup {NoList}
Mpvs == [up : BOOLEAN, sock : BOOLEAN, frozen : BOOLEAN, now : BOOLEAN, name : Names,
         order : Seq(Nat), pos : Nat, phase : {"none", "idle", "start", "open", "show"},
         fails : Nat]
Loaded == [kind : {"none", "fallback", "playlist"}, name : Names, order : Seq(Nat),
           tried : BOOLEAN, opened : Nat, openShown : BOOLEAN]
Requests == [op : {"load", "pos"}, now : BOOLEAN, name : Names, order : Seq(Nat)]
Messages == [t : {"start", "shown", "pos", "eof", "idle"}, now : BOOLEAN, k : Nat]

(***************************************************************************)
(* Types.                                                                  *)
(***************************************************************************)
TypeOK ==
    /\ want \in Lists \cup {NoList}
    /\ plugged \in BOOLEAN
    /\ cmds \in Seq({"restart", "suspend", "resume"}) /\ Len(cmds) <= QueueSize
    /\ playlistDue \in BOOLEAN /\ displayDue \in BOOLEAN
    /\ mpv \in Mpvs /\ (~mpv.up => mpv = NoMpv)
    /\ mpv.phase \notin {"none", "idle"} => mpv.pos \in DOMAIN mpv.order
    /\ toMpv \in Seq(Requests) /\ events \in Seq(Messages)
    /\ ipc \in BOOLEAN
    /\ list \in Loaded
    /\ list.kind = "playlist" => list.name \in Lists /\ list.order # <<>>
    /\ cur \in Indices \cup {0}
    /\ resumeFrom \in [name : Lists \cup {NoList}, index : Indices \cup {0}]
    /\ crashed \subseteq Files
    /\ everUp \in BOOLEAN /\ expectExit \in BOOLEAN /\ shownSinceLaunch \in BOOLEAN
    /\ backoff \in BOOLEAN /\ lastDisplay \in BOOLEAN /\ suspended \in BOOLEAN
    /\ grace \in BOOLEAN /\ failed \in BOOLEAN /\ drawDue \in BOOLEAN
    /\ restarts \in 0..(RestartsBeforeReboot - 1) /\ rebooted \in BOOLEAN
    /\ reached \subseteq Nat
    /\ blamed \in [Files -> 0..2]
    /\ faults \in 0..MaxCount
    /\ changes \in 0..MaxChanges

(***************************************************************************)
(* New, and the daemon before its first pass.                              *)
(***************************************************************************)
Init ==
    /\ want \in Lists \cup {NoList}
    /\ plugged = TRUE /\ cmds = <<>> /\ playlistDue = FALSE /\ displayDue = FALSE
    /\ mpv = NoMpv /\ toMpv = <<>> /\ events = <<>> /\ ipc = FALSE
    /\ list = NoLoaded /\ cur = 0 /\ resumeFrom = NoResume /\ crashed = {}
    /\ everUp = FALSE /\ expectExit = FALSE /\ shownSinceLaunch = FALSE
    /\ backoff = FALSE /\ lastDisplay = FALSE /\ suspended = FALSE
    /\ grace = FALSE /\ failed = FALSE /\ drawDue = FALSE
    /\ restarts = 0 /\ rebooted = FALSE
    /\ reached = {} /\ blamed = NoBlame /\ faults = 0 /\ changes = 0

Change(kind) ==
    /\ kind \in Events
    /\ changes < MaxChanges
    /\ changes' = changes + 1

-----------------------------------------------------------------------------
(***************************************************************************)
(* mpv.                                                                    *)
(***************************************************************************)
MpvRuns == mpv.up /\ ~mpv.frozen
MpvIdle == mpv.phase \in {"none", "idle"}
MpvFile == IF mpv.name = NoList THEN NoFile ELSE Content[mpv.name][mpv.order[mpv.pos]]
NextPos == (mpv.pos % Len(mpv.order)) + 1
Room == Len(toMpv) + Len(events) < MaxInFlight
Say(t, k) == events' = Append(events, [t |-> t, now |-> mpv.now, k |-> k])
OnlyMpv == UNCHANGED <<worldVars, ipc, list, cur, resumeFrom, crashed, launchVars,
                       modeVars, countVars>>
Faulty == faults' = IF faults < MaxCount THEN faults + 1 ELSE faults

\* mpv goes to an entry of its list.
MoveTo(m) ==
    /\ mpv' = m
    /\ reached' = IF m.now /\ m.name # NoList THEN reached \cup {m.order[m.pos]} ELSE reached

\* mpv makes its socket about one second after its start.
MpvReady ==
    /\ MpvRuns /\ ~mpv.sock
    /\ mpv' = [mpv EXCEPT !.sock = TRUE, !.phase = "idle"]
    /\ OnlyMpv /\ UNCHANGED <<toMpv, events, reached, historyVars, changes>>

\* mpv reads one request: a new list, or the question for its position.
MpvTake ==
    /\ MpvRuns /\ toMpv # <<>>
    /\ toMpv' = Tail(toMpv)
    /\ LET r == Head(toMpv) IN
       IF r.op = "load"
         THEN /\ MoveTo([mpv EXCEPT !.now = r.now, !.name = r.name, !.order = r.order,
                           !.pos = 1, !.phase = "start", !.fails = 0])
              /\ UNCHANGED events
         ELSE /\ events' = Append(events, [t |-> "pos", now |-> r.now,
                             k |-> IF MpvIdle THEN 0 ELSE mpv.pos])
              /\ UNCHANGED <<mpv, reached>>
    /\ OnlyMpv /\ UNCHANGED <<historyVars, changes>>

\* mpv starts a file.
MpvStartFile ==
    /\ MpvRuns /\ mpv.phase = "start" /\ Room
    /\ Say("start", mpv.order[mpv.pos])
    /\ mpv' = [mpv EXCEPT !.phase = "open"]
    /\ OnlyMpv /\ UNCHANGED <<toMpv, reached, historyVars, changes>>

\* The file shows its first frame.
MpvShow ==
    /\ MpvRuns /\ mpv.phase = "open" /\ Room
    /\ MpvFile \notin Killers \cup Broken
    /\ Say("shown", 0)
    /\ mpv' = [mpv EXCEPT !.phase = "show", !.fails = 0]
    /\ OnlyMpv /\ UNCHANGED <<toMpv, reached, historyVars, changes>>

\* The file cannot play.  mpv goes on, and stops when every file failed.
MpvFail ==
    /\ MpvRuns /\ mpv.phase = "open" /\ Room
    /\ MpvFile \in Broken
    /\ IF mpv.fails + 1 >= Len(mpv.order)
         THEN /\ Say("idle", 0)
              /\ mpv' = [mpv EXCEPT !.phase = "idle"] /\ UNCHANGED reached
         ELSE /\ MoveTo([mpv EXCEPT !.phase = "start", !.pos = NextPos, !.fails = @ + 1])
              /\ UNCHANGED events
    /\ OnlyMpv /\ UNCHANGED <<toMpv, historyVars, changes>>

\* The file ends mpv while it opens.
MpvKilled ==
    /\ MpvRuns /\ mpv.phase = "open"
    /\ MpvFile \in Killers
    /\ mpv' = NoMpv /\ toMpv' = <<>>
    /\ Faulty
    /\ OnlyMpv /\ UNCHANGED <<events, reached, blamed, changes>>

\* The item ends and the next one starts.  One item alone never ends.
MpvNext ==
    /\ MpvRuns /\ mpv.phase = "show" /\ Len(mpv.order) > 1 /\ Room
    /\ Say("eof", 0)
    /\ MoveTo([mpv EXCEPT !.phase = "start", !.pos = NextPos])
    /\ OnlyMpv /\ UNCHANGED <<toMpv, historyVars, changes>>

\* mpv answers no more, or its picture stands still.
MpvFreeze ==
    /\ MpvRuns /\ Change("freeze")
    /\ mpv' = [mpv EXCEPT !.frozen = TRUE]
    /\ Faulty
    /\ OnlyMpv /\ UNCHANGED <<toMpv, events, reached, blamed>>

\* mpv ends on its own.  With no display connected that is no fault.
MpvDie ==
    /\ mpv.up
    /\ \/ plugged /\ Change("die") /\ Faulty
       \/ ~plugged /\ UNCHANGED <<changes, faults>>
    /\ mpv' = NoMpv /\ toMpv' = <<>>
    /\ OnlyMpv /\ UNCHANGED <<events, reached, blamed>>

MpvPlays == MpvReady \/ MpvStartFile \/ MpvShow \/ MpvFail \/ MpvKilled

-----------------------------------------------------------------------------
(***************************************************************************)
(* The lists.                                                              *)
(***************************************************************************)
Old(msgs) == [i \in DOMAIN msgs |-> [msgs[i] EXCEPT !.now = FALSE]]
LoadRequest(name, order) == [op |-> "load", now |-> TRUE, name |-> name, order |-> order]
PosRequest == [op |-> "pos", now |-> TRUE, name |-> NoList, order |-> <<>>]

\* A new generation: what is under way is about the old list.  heard is what mpv
\* said before it reads the request.
newList(kind, name, order, heard) ==
    /\ list' = [NoLoaded EXCEPT !.kind = kind, !.name = name, !.order = order]
    /\ cur' = 0
    /\ reached' = {}
    /\ mpv' = [mpv EXCEPT !.now = FALSE]
    /\ toMpv' = Append(Old(toMpv), LoadRequest(name, order))
    /\ events' = Old(heard)

\* Mutant of drawFallback: a draw that fails is not tried again.
drawFallbackOnce(heard) ==
  /\ blamed' = NoBlame
  /\ \/ newList("fallback", NoList, <<1>>, heard) /\ UNCHANGED changes
     \/ /\ Change("draw")
        /\ events' = heard
        /\ UNCHANGED <<list, cur, reached, mpv, toMpv>>
  /\ drawDue' = FALSE

\* The fallback screen: drawn and given to mpv, or the draw fails and the list
\* stays as it was.
drawFallback(heard) ==
  /\ blamed' = NoBlame
  /\ \/ /\ newList("fallback", NoList, <<1>>, heard)
        /\ drawDue' = FALSE /\ UNCHANGED changes
     \/ /\ Change("draw")
        /\ drawDue' = TRUE
        /\ events' = heard
        /\ UNCHANGED <<list, cur, reached, mpv, toMpv>>

showFallback(heard) == drawFallback(heard)

\* The k-th lowest number of a set.
Nth(S, k) == CHOOSE j \in S : Cardinality({i \in S : i <= j}) = k

\* Mutant of Rotation: the files that ended mpv come back.
RotationOfAll(name, start, out) ==
    [j \in 1..Len(Content[name]) |-> ((start + j - 2) % Len(Content[name])) + 1]

\* The entries of a playlist from start on, without the files that ended mpv: the
\* k-th of the list is the k-th step of the loop whose file stays.
Rotation(name, start, out) ==
    LET n == Len(Content[name])
        idx(j) == ((start + j - 2) % n) + 1
        kept == {j \in 1..n : Content[name][idx(j)] \notin out}
    IN  [k \in 1..Cardinality(kept) |-> idx(Nth(kept, k))]

loadManifest(heard) ==
    /\ failed' = FALSE
    /\ resumeFrom' = NoResume
    /\ IF want = NoList
         THEN showFallback(heard) /\ UNCHANGED crashed
         ELSE LET same == resumeFrom.name = want
                  out == IF same THEN crashed ELSE {}
                  order == Rotation(want, IF same THEN resumeFrom.index ELSE 1, out)
              IN  /\ crashed' = out
                  /\ IF order = <<>>
                       THEN showFallback(heard)
                       ELSE /\ newList("playlist", want, order, heard)
                            /\ drawDue' = FALSE /\ UNCHANGED <<blamed, changes>>

\* Mutant of clearList: the grace outlives its mpv.
clearListOnly == list' = NoLoaded /\ cur' = 0 /\ reached' = {} /\ UNCHANGED grace

clearList == list' = NoLoaded /\ cur' = 0 /\ grace' = FALSE /\ reached' = {}
dropIPC == ipc' = FALSE /\ toMpv' = <<>> /\ events' = <<>>
stopPlayer == expectExit' = TRUE /\ dropIPC /\ mpv' = NoMpv /\ clearList

\* Where the next load of the same playlist starts.
ResumePoint(l, at) ==
    CASE l.kind = "none" -> resumeFrom
      [] l.kind = "fallback" -> NoResume
      [] OTHER ->
         LET on == IF at = "next" /\ l.opened # 0 THEN l.opened
                   ELSE IF cur = 0 THEN l.order[1] ELSE cur
         IN  [name |-> l.name,
              index |-> IF at = "next" THEN (on % Len(Content[l.name])) + 1 ELSE on]

\* The ladder: at the limit the supervisor asks for a reboot and counts anew.
RebootDue == restarts + 1 >= RestartsBeforeReboot

\* Mutant of countRestart: the window is not cleared after the reboot.
countRestartOn ==
    /\ restarts' = restarts + 1
    /\ rebooted' = (rebooted \/ RebootDue)

countRestart ==
    /\ restarts' = IF RebootDue THEN 0 ELSE restarts + 1
    /\ rebooted' = (rebooted \/ RebootDue)

\* Mutant of restart: every restart is a step on the ladder.
restartCounted(counted, at) ==
    IF suspended
      THEN /\ grace' = FALSE
           /\ UNCHANGED <<mpvVars, ipc, list, cur, reached, resumeFrom, expectExit,
                          backoff, countVars>>
      ELSE /\ resumeFrom' = ResumePoint(list, at)
           /\ stopPlayer
           /\ backoff' = FALSE
           /\ countRestart

\* A restart stops mpv and lets the next pass start it.  While the screen is off
\* there is no mpv, and the resume is the restart.
restart(counted, at) ==
    IF suspended
      THEN /\ grace' = FALSE
           /\ UNCHANGED <<mpvVars, ipc, list, cur, reached, resumeFrom, expectExit,
                          backoff, countVars>>
      ELSE /\ resumeFrom' = ResumePoint(list, at)
           /\ stopPlayer
           /\ backoff' = FALSE
           /\ IF counted THEN countRestart ELSE UNCHANGED countVars

-----------------------------------------------------------------------------
(***************************************************************************)
(* step: one pass of the loop, each of its rules an action.                *)
(***************************************************************************)
\* What the timer of the loop does not touch.
OnlyStep == UNCHANGED <<worldVars, suspended, faults>>
\* Mutant of Passing: the pass does not ask if the screen is off.
PassingAlways == lastDisplay

\* The screen is on and the last look found a display.
Passing == ~suspended /\ lastDisplay
Talking == Passing /\ mpv.up /\ ipc

\* Start mpv; a start that fails waits for the backoff.
launch ==
    \/ /\ mpv' = [NoMpv EXCEPT !.up = TRUE]
       /\ everUp' = TRUE /\ expectExit' = FALSE /\ shownSinceLaunch' = FALSE
       /\ UNCHANGED <<backoff, changes>>
    \/ /\ Change("die")
       /\ mpv' = NoMpv
       /\ expectExit' = (expectExit \/ everUp) /\ backoff' = TRUE
       /\ UNCHANGED <<everUp, shownSinceLaunch>>

LaunchOrWait ==
    IF backoff THEN UNCHANGED <<mpv, launchVars, changes>> ELSE launch

\* The list after the news that a file started, or showed its first frame.
Opened(l, e) ==
    CASE l.kind = "none" -> l
      [] e.t = "start" /\ e.now /\ l.kind = "playlist" ->
           [l EXCEPT !.tried = TRUE, !.opened = e.k, !.openShown = FALSE]
      [] e.t = "start" -> [l EXCEPT !.tried = TRUE]
      [] e.t = "shown" -> [l EXCEPT !.openShown = TRUE]
      [] OTHER -> l

\* What the socket still holds after mpv ended, read in order: the last file of this
\* list that it opened, and if that showed a frame.
drainOpens ==
    LET heard == IF ipc THEN DOMAIN events ELSE {}
        starts == {i \in heard : events[i].t = "start"}
        own == {i \in starts : events[i].now /\ list.kind = "playlist"}
        last == IF own = {} THEN 0 ELSE Max(own)
    IN  IF list.kind = "none" THEN list
        ELSE [list EXCEPT !.tried = @ \/ starts # {},
                          !.opened = IF last = 0 THEN @ ELSE events[last].k,
                          !.openShown = \/ last = 0 /\ @
                                        \/ \E i \in heard : i > last /\ events[i].t = "shown"]

\* The file that ended mpv: started, and no frame.  The next lists leave it out.
markCrashed(l) ==
    IF l.kind = "playlist" /\ l.opened # 0 /\ ~l.openShown
      THEN {Content[l.name][l.opened]} ELSE {}
Blame(out) ==
    /\ crashed' = crashed \cup out
    /\ blamed' = [f \in Files |-> IF f \in out /\ blamed[f] < 2 THEN blamed[f] + 1
                                  ELSE blamed[f]]

\* mpv ended on its own, and a fresh look finds the display: a fault.
handleExit ==
    /\ Passing /\ plugged
    /\ everUp /\ ~expectExit /\ ~mpv.up
    /\ Blame(markCrashed(drainOpens))
    /\ resumeFrom' = ResumePoint(drainOpens, "next")
    /\ dropIPC /\ clearList
    /\ countRestart
    /\ IF ~shownSinceLaunch \/ RebootDue
         THEN /\ expectExit' = TRUE
              /\ backoff' = (backoff \/ ~shownSinceLaunch)
              /\ UNCHANGED <<mpv, everUp, shownSinceLaunch, changes>>
         ELSE launch
    /\ UNCHANGED <<worldVars, suspended, faults, lastDisplay, failed, drawDue>>

\* mpv ended as the supervisor asked, or never ran: a new one starts.
Start ==
    /\ Passing /\ ~mpv.up
    /\ expectExit \/ ~everUp
    /\ ~backoff
    /\ launch
    /\ OnlyStep
    /\ UNCHANGED <<blamed, toMpv, events, ipc, listVars, modeVars, countVars>>

\* The launch backoff ends.
BackoffOver ==
    /\ backoff
    /\ backoff' = FALSE
    /\ OnlyStep
    /\ UNCHANGED <<blamed, mpvVars, ipc, listVars, everUp, expectExit, shownSinceLaunch,
                   lastDisplay, grace, failed, drawDue, countVars, changes>>

\* The probe finds no display: a wait, and no fault.
DisplayGone ==
    /\ Passing /\ ~plugged
    /\ lastDisplay' = FALSE
    /\ stopPlayer
    /\ OnlyStep
    /\ UNCHANGED <<blamed, resumeFrom, crashed, everUp, shownSinceLaunch, backoff, failed,
                   drawDue, countVars, changes>>

\* The probe finds a display again, and the same pass starts mpv.
DisplayFound ==
    /\ ~suspended /\ ~lastDisplay /\ plugged
    /\ lastDisplay' = TRUE
    /\ LaunchOrWait
    /\ OnlyStep
    /\ UNCHANGED <<blamed, toMpv, events, ipc, listVars, grace, failed, drawDue, countVars>>

\* The socket is there: the list goes out.  mpv has no file and says so first.
connect ==
    /\ Passing /\ MpvRuns /\ mpv.sock /\ ~ipc
    /\ ipc' = TRUE
    /\ loadManifest(<<[t |-> "idle", now |-> FALSE, k |-> 0]>>)
    /\ OnlyStep
    /\ UNCHANGED <<launchVars, lastDisplay, grace, countVars>>

\* mpv gave no socket, no answer or no new picture in the heartbeat time.
checkWatchdog ==
    /\ Passing /\ mpv.frozen
    /\ restart(TRUE, "next")
    /\ OnlyStep
    /\ UNCHANGED <<blamed, crashed, everUp, shownSinceLaunch, lastDisplay, failed, drawDue, changes>>

\* The question for the position.
poll ==
    /\ Talking /\ Room
    /\ \A i \in DOMAIN toMpv : toMpv[i].op # "pos"
    /\ \A i \in DOMAIN events : events[i].t # "pos"
    /\ toMpv' = Append(toMpv, PosRequest)
    /\ OnlyStep
    /\ UNCHANGED <<blamed, mpv, events, ipc, listVars, launchVars, lastDisplay, grace, failed,
                   drawDue, countVars, changes>>

\* A failed playlist is tried again.
RetryPlaylist ==
    /\ Talking /\ list.kind = "fallback" /\ failed
    /\ loadManifest(events)
    /\ OnlyStep
    /\ UNCHANGED <<ipc, launchVars, lastDisplay, grace, countVars>>

\* A draw that failed is tried again, and the picture follows the clock once mpv
\* shows it (a minute is far longer than mpv needs).
Redraw ==
    /\ Talking
    /\ drawDue \/ (list.kind = "fallback" /\ mpv.now /\ mpv.phase = "show")
    /\ drawFallback(events)
    /\ OnlyStep
    /\ UNCHANGED <<ipc, resumeFrom, crashed, launchVars, lastDisplay, grace, failed,
                   countVars>>

\* The time of the nightly restart: at once, or at the next item boundary.
checkNightly ==
    /\ Talking /\ ~grace /\ Change("nightly")
    /\ IF list.kind # "playlist" \/ Len(list.order) = 1
         THEN restart(FALSE, "same")
         ELSE /\ grace' = TRUE
              /\ UNCHANGED <<mpvVars, ipc, list, cur, reached, resumeFrom, expectExit,
                             backoff, countVars>>
    /\ OnlyStep
    /\ UNCHANGED <<blamed, crashed, everUp, shownSinceLaunch, lastDisplay, failed, drawDue>>

GraceOver ==
    /\ Talking /\ grace
    /\ restart(FALSE, "next")
    /\ OnlyStep
    /\ UNCHANGED <<blamed, crashed, everUp, shownSinceLaunch, lastDisplay, failed, drawDue, changes>>

-----------------------------------------------------------------------------
(***************************************************************************)
(* onMessage: what mpv says.                                               *)
(***************************************************************************)
Reads(t) == ipc /\ events # <<>> /\ Head(events).t = t
OnlyMessage == UNCHANGED <<worldVars, lastDisplay, suspended, faults>>
Quiet == UNCHANGED <<mpv, ipc, resumeFrom, crashed, reached, everUp, expectExit, backoff,
                     grace, failed, drawDue, countVars, blamed, changes>>

onStartFile ==
    /\ Reads("start")
    /\ list' = Opened(list, Head(events))
    /\ events' = Tail(events)
    /\ OnlyMessage /\ Quiet /\ UNCHANGED <<toMpv, cur, shownSinceLaunch>>

\* The first frame of a file: ask which one it is.
onPlaybackRestart ==
    /\ Reads("shown")
    /\ shownSinceLaunch' = TRUE
    /\ list' = Opened(list, Head(events))
    /\ toMpv' = Append(toMpv, PosRequest)
    /\ events' = Tail(events)
    /\ OnlyMessage /\ Quiet /\ UNCHANGED cur

\* Mutant of onReply: an answer about an old list counts as well.
onReplyOfAny ==
    /\ Reads("pos")
    /\ LET e == Head(events) IN
       cur' = IF list.kind = "playlist" /\ e.k \in DOMAIN list.order
              THEN list.order[e.k] ELSE cur
    /\ events' = Tail(events)
    /\ OnlyMessage /\ Quiet /\ UNCHANGED <<toMpv, list, shownSinceLaunch>>

\* The answer about the position counts for the list that it is about.  An mpv
\* with no file has no position, and its answer is an error.
onReply ==
    /\ Reads("pos")
    /\ LET e == Head(events) IN
       cur' = IF e.now /\ e.k # 0 /\ list.kind = "playlist" /\ e.k \in DOMAIN list.order
              THEN list.order[e.k] ELSE cur
    /\ events' = Tail(events)
    /\ OnlyMessage /\ Quiet /\ UNCHANGED <<toMpv, list, shownSinceLaunch>>

\* An item boundary is what the nightly restart waits for.
onEndFile ==
    /\ Reads("eof")
    /\ IF grace
         THEN restart(FALSE, "next")
         ELSE /\ events' = Tail(events)
              /\ UNCHANGED <<mpv, toMpv, ipc, list, cur, reached, resumeFrom, expectExit,
                             backoff, grace, countVars>>
    /\ OnlyMessage
    /\ UNCHANGED <<crashed, everUp, shownSinceLaunch, failed, drawDue, blamed, changes>>

\* mpv has no file.  Before it started one that is not a failure.
onIdle ==
    /\ Reads("idle")
    /\ IF list.kind = "playlist" /\ list.tried
         THEN showFallback(Tail(events)) /\ failed' = TRUE
         ELSE /\ events' = Tail(events)
              /\ UNCHANGED <<mpv, toMpv, list, cur, reached, failed, drawDue, blamed, changes>>
    /\ OnlyMessage
    /\ UNCHANGED <<ipc, resumeFrom, crashed, launchVars, grace, countVars>>

\* mpv closed the socket, and everything in it is read.
SocketClosed ==
    /\ ipc /\ ~mpv.up /\ events = <<>>
    /\ ipc' = FALSE /\ toMpv' = <<>>
    /\ OnlyMessage
    /\ UNCHANGED <<mpv, events, listVars, launchVars, grace, failed, drawDue, countVars,
                   blamed, changes>>

ReadMessage == onStartFile \/ onPlaybackRestart \/ onReply \/ onEndFile \/ onIdle \/ SocketClosed

-----------------------------------------------------------------------------
(***************************************************************************)
(* The commands and the change flags.                                      *)
(***************************************************************************)
\* The restart command, and Suspend and Resume of the power controller.  A full
\* queue drops the command.
Send(c) ==
    /\ Change(IF c = "restart" THEN "restart" ELSE "screen")
    /\ cmds' = IF Len(cmds) < QueueSize THEN Append(cmds, c) ELSE cmds
    /\ UNCHANGED <<want, plugged, playlistDue, displayDue, mpvVars, ipc, listVars,
                   launchVars, modeVars, countVars, historyVars>>

OnlyCommand == UNCHANGED <<want, plugged, playlistDue, displayDue, crashed, failed,
                           drawDue, historyVars>>

TakeRestart ==
    /\ cmds # <<>> /\ Head(cmds) = "restart"
    /\ cmds' = Tail(cmds)
    /\ restart(FALSE, "same")
    /\ OnlyCommand
    /\ UNCHANGED <<everUp, shownSinceLaunch, lastDisplay, suspended, changes>>

\* The screen goes off and mpv ends.
TakeSuspend ==
    /\ cmds # <<>> /\ Head(cmds) = "suspend"
    /\ cmds' = Tail(cmds)
    /\ suspended' = TRUE
    /\ IF suspended
         THEN UNCHANGED <<mpvVars, ipc, list, cur, grace, reached, expectExit>>
         ELSE stopPlayer
    /\ OnlyCommand
    /\ UNCHANGED <<resumeFrom, everUp, shownSinceLaunch, backoff, lastDisplay, countVars,
                   changes>>

\* The screen comes back, and the same pass looks for a display, or believes its
\* last look, and starts mpv.
TakeResume ==
    /\ cmds # <<>> /\ Head(cmds) = "resume"
    /\ cmds' = Tail(cmds)
    /\ suspended' = FALSE
    /\ IF suspended
         THEN \E seen \in {plugged, lastDisplay} :
                /\ lastDisplay' = seen
                /\ IF seen THEN LaunchOrWait ELSE UNCHANGED <<mpv, launchVars, changes>>
         ELSE UNCHANGED <<mpv, launchVars, lastDisplay, changes>>
    /\ OnlyCommand
    /\ UNCHANGED <<toMpv, events, ipc, list, cur, reached, resumeFrom, grace, countVars>>

\* The manifest may be another one.  The same one changes nothing.
playlistChanged ==
    IF ~ipc \/ (want = NoList /\ list.kind = "fallback" /\ ~failed)
      THEN UNCHANGED <<mpvVars, listVars, failed, drawDue, blamed, changes>>
      ELSE IF want # NoList /\ list.kind = "playlist" /\ list.name = want
      THEN /\ drawDue' = (drawDue /\ failed)
           /\ UNCHANGED <<mpvVars, listVars, failed, blamed, changes>>
      ELSE loadManifest(events)

\* A new display setting restarts mpv, and its connect loads the manifest.
takeChanges ==
    /\ playlistDue \/ displayDue
    /\ playlistDue' = FALSE /\ displayDue' = FALSE
    /\ IF displayDue
         THEN restart(FALSE, "same") /\ UNCHANGED <<crashed, failed, drawDue, blamed, changes>>
         ELSE playlistChanged /\ UNCHANGED <<ipc, expectExit, backoff, grace, countVars>>
    /\ UNCHANGED <<want, plugged, cmds, everUp, shownSinceLaunch, lastDisplay, suspended,
                   faults>>

OnlyWorld == UNCHANGED <<cmds, mpvVars, ipc, listVars, launchVars, modeVars, countVars, faults>>

\* The schedule or the library names a playlist, perhaps the same one again.
PlaylistChanged(l) ==
    /\ Change("want")
    /\ want' = l /\ playlistDue' = TRUE
    /\ blamed' = IF l = want THEN blamed ELSE NoBlame
    /\ OnlyWorld /\ UNCHANGED <<plugged, displayDue>>

DisplayChanged ==
    /\ Change("display")
    /\ displayDue' = TRUE
    /\ OnlyWorld /\ UNCHANGED <<want, plugged, playlistDue, blamed>>

\* The cable goes out, and comes back after the supervisor saw it or, with
\* "glitch", at any moment.
Unplug ==
    /\ plugged /\ Change("unplug")
    /\ plugged' = FALSE
    /\ OnlyWorld /\ UNCHANGED <<want, playlistDue, displayDue, blamed>>

Plug ==
    /\ ~plugged /\ (~lastDisplay \/ "glitch" \in Events)
    /\ plugged' = TRUE
    /\ OnlyWorld /\ UNCHANGED <<want, playlistDue, displayDue, blamed, changes>>

\* A counted restart leaves the window of the ladder.
WindowMoves ==
    /\ restarts > 0
    /\ restarts' = restarts - 1
    /\ UNCHANGED <<worldVars, mpvVars, ipc, listVars, launchVars, modeVars, rebooted,
                   historyVars, changes>>

-----------------------------------------------------------------------------
TakeCommand == TakeRestart \/ TakeSuspend \/ TakeResume
Launching == handleExit \/ Start \/ connect
Probing == DisplayGone \/ DisplayFound

Next ==
    \/ MpvPlays \/ MpvTake \/ MpvNext \/ MpvFreeze \/ MpvDie
    \/ Launching \/ Probing \/ BackoffOver \/ checkWatchdog \/ poll
    \/ RetryPlaylist \/ Redraw \/ checkNightly \/ GraceOver
    \/ ReadMessage \/ TakeCommand \/ takeChanges
    \/ \E c \in {"restart", "suspend", "resume"} : Send(c)
    \/ \E l \in Lists \cup {NoList} : PlaylistChanged(l)
    \/ DisplayChanged \/ Unplug \/ Plug \/ WindowMoves

Spec == Init /\ [][Next]_vars

(***************************************************************************)
(* mpv runs, and the loop of the supervisor comes to every rule: the timer *)
(* ticks, and select takes every channel that stays ready.                 *)
(***************************************************************************)
Fairness ==
    /\ WF_vars(MpvPlays) /\ WF_vars(MpvTake)
    /\ WF_vars(Launching) /\ WF_vars(Probing) /\ WF_vars(BackoffOver)
    /\ WF_vars(checkWatchdog) /\ WF_vars(RetryPlaylist) /\ WF_vars(Redraw)
    /\ WF_vars(GraceOver) /\ WF_vars(ReadMessage) /\ WF_vars(TakeCommand)
    /\ WF_vars(takeChanges)

FairSpec == Spec /\ Fairness

-----------------------------------------------------------------------------
(***************************************************************************)
(* Properties.                                                             *)
(***************************************************************************)
\* While the screen is off there is no mpv, no list and no word about an item,
\* whatever commands, changes and timers meet (Suspend, restart, step).
SuspendedIsDark == suspended => ~mpv.up /\ ~ipc /\ list.kind = "none" /\ cur = 0

\* now_playing is never about an item that mpv did not reach since it got this
\* list, though positions are asked for and answered while lists change (onReply).
NowPlayingIsReal == cur # 0 => cur \in reached

\* The nightly grace belongs to the list of the mpv that it waits for (clearList).
GraceHasList == grace => list.kind # "none"

\* The two together are inductive: everything that starts mpv or gives it a list asks
\* for a screen that is on or for a socket that is open.
Quieted == SuspendedIsDark /\ GraceHasList

\* Only faults of mpv reach the reboot rung: no restart of a person, a setting,
\* the night or a missing display does (D44, countRestart).
RebootNeedsFaults == rebooted => faults >= RestartsBeforeReboot

\* While a playlist plays on, the exit rule never meets the same file twice: every
\* restart in between keeps it out of the list (markCrashed, loadManifest).
BlamedOnce == \A f \in Files : blamed[f] <= 1

\* The comment on crashed: the lists leave such a file out until the playlist
\* changes.  A failed playlist, a screen that was off and a lost display break it.
BlameStays == [][want' = want => crashed \subseteq crashed']_vars

\* The comment on onIdle: the fallback screen comes when no file of the list could
\* play.  The last words of the old list break it just after a change of playlist.
FailedIsReal ==
    [][~failed /\ failed' => \A i \in DOMAIN list.order :
                               Content[list.name][list.order[i]] \in Broken]_vars

\* What the schedule names comes to the screen again and again, whatever ends or
\* hangs mpv and whenever the schedule changes.  The fallback screen takes its
\* place only when every file of it ended mpv (mark, playlistChanged, connect).
OnTheScreen ==
    /\ mpv.phase = "show"
    /\ mpv.name = IF want # NoList /\ ToSet(Content[want]) \subseteq crashed
                    THEN NoList ELSE want
FollowsWant == []<>OnTheScreen

-----------------------------------------------------------------------------
(***************************************************************************)
(* The inductive invariants behind them.                                   *)
(***************************************************************************)
\* An mpv, or a socket, is one that the supervisor started and did not end, with a
\* display; a socket that is closed holds nothing, and its mpv has no file.
Wired ==
    /\ ipc \/ mpv.up => everUp /\ ~expectExit /\ lastDisplay
    /\ ~ipc => toMpv = <<>> /\ events = <<>> /\ MpvIdle /\ ~mpv.now
    /\ ~ipc /\ mpv.up => list.kind = "none"
    /\ suspended /\ everUp => expectExit
    /\ ~lastDisplay /\ everUp => expectExit
    /\ expectExit \/ ~everUp => list.kind = "none"

\* What is marked "now" is about the list of this moment: mpv has it, or the request
\* for it is the last one in the socket, and a question for the position follows it.
ListUnderWay(n) == \E j \in DOMAIN toMpv : j < n /\ toMpv[j].op = "load" /\ toMpv[j].now
AboutTheList ==
    /\ list.kind = "playlist" => list.name # NoList
    /\ mpv.now => /\ mpv.name = list.name /\ mpv.order = list.order
                  /\ \A i \in DOMAIN toMpv : toMpv[i].op # "load"
    /\ \A i \in DOMAIN toMpv : toMpv[i].op = "load" /\ toMpv[i].now =>
         /\ toMpv[i].name = list.name /\ toMpv[i].order = list.order
         /\ \A j \in DOMAIN toMpv : toMpv[j].op = "load" => j <= i
    /\ \A i \in DOMAIN toMpv :
         toMpv[i].op # "load" /\ toMpv[i].now /\ mpv.up /\ list.kind = "playlist" =>
            mpv.now \/ ListUnderWay(i)
    /\ ipc /\ mpv.up /\ list.kind = "playlist" => mpv.now \/ ListUnderWay(Len(toMpv) + 1)

\* The entry that mpv is at, and every position under way, was reached.
PositionsAreReal ==
    /\ mpv.now /\ ~MpvIdle /\ mpv.name # NoList => mpv.order[mpv.pos] \in reached
    /\ \A i \in DOMAIN events :
         /\ events[i].t = "pos" /\ events[i].now /\ events[i].k # 0
         /\ list.kind = "playlist"
         => list.order[events[i].k] \in reached

\* What the supervisor knows of its list are entries of it, and a resume point is an
\* entry of its playlist.  No list is empty.
Entries ==
    /\ list.kind = "playlist" =>
         /\ ToSet(list.order) \subseteq DOMAIN Content[list.name]
         /\ list.opened \in ToSet(list.order) \cup {0}
         /\ cur \in ToSet(list.order) \cup {0}
         /\ \A i \in DOMAIN events :
              events[i].t = "start" /\ events[i].now => events[i].k \in ToSet(list.order)
    /\ list.kind # "playlist" => cur = 0
    /\ resumeFrom.name # NoList => resumeFrom.index \in DOMAIN Content[resumeFrom.name]
    /\ \A i \in DOMAIN toMpv : toMpv[i].op = "load" => toMpv[i].order # <<>>

PlayingInv ==
    /\ TypeOK /\ Quieted /\ Wired /\ AboutTheList /\ Entries
    /\ PositionsAreReal /\ NowPlayingIsReal

\* A fault of mpv that the ladder did not count yet.
Owed == IF mpv.frozen \/ (everUp /\ ~expectExit /\ ~mpv.up /\ plugged) THEN 1 ELSE 0

\* Every counted restart is a fault, and one more may be on its way to be counted.
Counted == faults = MaxCount \/ restarts + Owed <= faults

LadderInv == PlayingInv /\ Counted /\ RebootNeedsFaults

\* The screen stays on and the cable in, and no two playlists share a file.
NoDarkness ==
    /\ Events \cap {"screen", "unplug"} = {}
    /\ \A l, m \in Lists : ToSet(Content[l]) \cap ToSet(Content[m]) # {} => l = m

ScreenIsOn == plugged /\ ~suspended /\ \A i \in DOMAIN cmds : cmds[i] = "restart"

\* No file of the list was blamed before; a blamed file of the playlist that is wanted
\* is out of the lists, and the list or the resume point belongs to that playlist.
BlamedAreOut ==
    /\ list.kind = "playlist" => \A i \in ToSet(list.order) : blamed[Content[list.name][i]] = 0
    /\ want # NoList => \A f \in ToSet(Content[want]) : blamed[f] > 0 =>
         /\ f \in crashed
         /\ \/ list.kind = "none" /\ resumeFrom.name = want
            \/ list.kind = "playlist" /\ list.name = want

BlameInv == PlayingInv /\ ScreenIsOn /\ BlamedAreOut /\ BlamedOnce
=============================================================================
