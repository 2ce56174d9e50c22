---------------------------- MODULE PlayerProofs ----------------------------
(***************************************************************************)
(* Proofs about Player, for every library, queue and number of faults:     *)
(* what is dark, what plays, what is blamed and what reaches the reboot.   *)
(***************************************************************************)
EXTENDS Player, FiniteSetTheorems, TLAPS

\* Both hold at the start.
LEMMA InitQuieted == Init => Quieted
BY DEF Init, Quieted, SuspendedIsDark, GraceHasList, NoMpv, NoLoaded

\* A new list, a stop and a held restart keep the properties.
LEMMA StopQuieted ==
    ASSUME stopPlayer
    PROVE  ~mpv'.up /\ ~ipc' /\ list'.kind = "none" /\ cur' = 0 /\ ~grace'
BY DEF stopPlayer, dropIPC, clearList, NoMpv, NoLoaded

\* A restart stops mpv, or is held while the screen is off.
LEMMA RestartQuieted ==
    ASSUME Quieted, NEW c, NEW at, restart(c, at), UNCHANGED suspended
    PROVE  Quieted'
<1>1. CASE suspended
  BY <1>1 DEF restart, Quieted, SuspendedIsDark, GraceHasList, mpvVars
<1>2. CASE ~suspended
  BY <1>2, StopQuieted DEF restart, Quieted, SuspendedIsDark, GraceHasList
<1> QED BY <1>1, <1>2

\* A load gives out a list, or leaves it as it was.
LEMMA LoadQuieted ==
    ASSUME NEW heard, loadManifest(heard) \/ drawFallback(heard)
    PROVE  list'.kind # "none" \/ UNCHANGED list
BY DEF loadManifest, showFallback, drawFallback, newList, NoLoaded

\* mpv's own steps need an mpv.
LEMMA MpvQuieted ==
    ASSUME Quieted, MpvPlays \/ MpvTake \/ MpvNext \/ MpvFreeze \/ MpvDie
    PROVE  Quieted'
<1>1. mpv.up /\ UNCHANGED <<suspended, ipc, list, cur, grace>>
  BY DEF MpvPlays, MpvReady, MpvTake, MpvStartFile, MpvShow, MpvFail, MpvKilled, MpvNext,
         MpvFreeze, MpvDie, MpvRuns, OnlyMpv, modeVars
<1> QED BY <1>1 DEF Quieted, SuspendedIsDark, GraceHasList

\* The passes of the loop.
LEMMA StepQuieted ==
    ASSUME Quieted,
           Launching \/ Probing \/ BackoffOver \/ checkWatchdog \/ poll \/ RetryPlaylist
             \/ Redraw \/ checkNightly \/ GraceOver
    PROVE  Quieted'
<1> USE DEF Quieted, SuspendedIsDark, GraceHasList
<1>1. UNCHANGED suspended
  BY DEF Launching, Probing, handleExit, Start, connect, DisplayGone, DisplayFound,
         BackoffOver, checkWatchdog, poll, RetryPlaylist, Redraw, checkNightly, GraceOver,
         OnlyStep, modeVars
<1>2. CASE handleExit
  BY <1>1, <1>2 DEF handleExit, Passing, clearList, NoLoaded
<1>3. CASE Start \/ BackoffOver \/ poll
  <2>1. UNCHANGED <<ipc, list, cur, grace>>
    BY <1>3 DEF Start, BackoffOver, poll, listVars, modeVars
  <2>2. suspended => UNCHANGED mpv
    BY <1>3 DEF Start, BackoffOver, poll, Talking, Passing, mpvVars
  <2> QED BY <1>1, <2>1, <2>2
<1>4. CASE connect \/ RetryPlaylist \/ Redraw
  <2>1. ~suspended /\ UNCHANGED grace
    BY <1>4 DEF connect, RetryPlaylist, Redraw, Talking, Passing
  <2>2. list'.kind # "none" \/ UNCHANGED list
    BY <1>4, LoadQuieted DEF connect, RetryPlaylist, Redraw
  <2> QED BY <1>1, <2>1, <2>2
<1>5. CASE DisplayGone
  BY <1>1, <1>5, StopQuieted DEF DisplayGone, Passing
<1>6. CASE DisplayFound
  BY <1>1, <1>6 DEF DisplayFound, listVars
<1>7. CASE checkWatchdog \/ GraceOver
  BY <1>1, <1>7, RestartQuieted DEF checkWatchdog, GraceOver
<1>8. CASE checkNightly
  <2>1. CASE list.kind # "playlist" \/ Len(list.order) = 1
    BY <1>1, <1>8, <2>1, RestartQuieted DEF checkNightly
  <2>2. CASE ~(list.kind # "playlist" \/ Len(list.order) = 1)
    BY <1>1, <1>8, <2>2 DEF checkNightly, Talking, Passing
  <2> QED BY <2>1, <2>2
<1> QED BY <1>2, <1>3, <1>4, <1>5, <1>6, <1>7, <1>8 DEF Launching, Probing

\* A message is only read from an open socket, which a dark device has not.
LEMMA MessageQuieted ==
    ASSUME Quieted, ReadMessage
    PROVE  Quieted'
<1> USE DEF Quieted, SuspendedIsDark, GraceHasList
<1>1. ipc /\ UNCHANGED suspended
  BY DEF ReadMessage, onStartFile, onPlaybackRestart, onReply, onEndFile, onIdle,
         SocketClosed, Reads, OnlyMessage
<1>2. ~suspended
  BY <1>1
<1>3. CASE onStartFile \/ onPlaybackRestart
  <2>1. UNCHANGED grace /\ list' = Opened(list, Head(events))
    BY <1>3 DEF onStartFile, onPlaybackRestart, Quiet
  <2>2. list'.kind = list.kind \/ list' = list
    BY <2>1 DEF Opened
  <2> QED BY <1>1, <1>2, <2>1, <2>2
<1>4. CASE onReply \/ SocketClosed
  <2>1. UNCHANGED <<list, grace>>
    BY <1>4 DEF onReply, SocketClosed, Quiet, listVars
  <2> QED BY <1>1, <1>2, <2>1
<1>5. CASE onEndFile
  <2>1. CASE grace
    BY <1>1, <1>5, <2>1, RestartQuieted DEF onEndFile
  <2>2. CASE ~grace
    BY <1>1, <1>2, <1>5, <2>2 DEF onEndFile
  <2> QED BY <2>1, <2>2
<1>6. CASE onIdle
  <2>1. list'.kind # "none" \/ UNCHANGED list
    BY <1>6, LoadQuieted DEF onIdle, showFallback
  <2> QED BY <1>1, <1>2, <1>6, <2>1 DEF onIdle
<1> QED BY <1>3, <1>4, <1>5, <1>6 DEF ReadMessage

\* Commands and change flags.
LEMMA CommandQuieted ==
    ASSUME Quieted, TakeCommand \/ takeChanges
    PROVE  Quieted'
<1> USE DEF Quieted, SuspendedIsDark, GraceHasList
<1>1. CASE TakeRestart
  BY <1>1, RestartQuieted DEF TakeRestart
<1>2. CASE TakeSuspend
  BY <1>2, StopQuieted DEF TakeSuspend, mpvVars
<1>3. CASE TakeResume
  BY <1>3 DEF TakeResume
<1>4. CASE takeChanges /\ displayDue
  BY <1>4, RestartQuieted DEF takeChanges
<1>5. CASE takeChanges /\ ~displayDue
  <2>1. playlistChanged /\ UNCHANGED <<ipc, grace, suspended>>
    BY <1>5 DEF takeChanges
  <2>2. CASE ~ipc
    BY <2>1, <2>2 DEF playlistChanged, mpvVars, listVars
  <2>3. CASE ipc
    <3>1. list'.kind # "none" \/ UNCHANGED list
      BY <2>1, LoadQuieted DEF playlistChanged, listVars
    <3> QED BY <2>1, <2>3, <3>1
  <2> QED BY <2>2, <2>3
<1> QED BY <1>1, <1>2, <1>3, <1>4, <1>5 DEF TakeCommand

\* The world around the supervisor.
LEMMA WorldQuieted ==
    ASSUME Quieted,
           \/ \E c \in {"restart", "suspend", "resume"} : Send(c)
           \/ \E l \in Lists \cup {NoList} : PlaylistChanged(l)
           \/ DisplayChanged \/ Unplug \/ Plug \/ WindowMoves
           \/ UNCHANGED vars
    PROVE  Quieted'
<1>1. UNCHANGED <<mpv, ipc, list, cur, grace, suspended>>
  BY DEF Send, PlaylistChanged, DisplayChanged, Unplug, Plug, WindowMoves, OnlyWorld, vars,
         mpvVars, listVars, modeVars
<1> QED BY <1>1 DEF Quieted, SuspendedIsDark, GraceHasList

\* Both hold in every state.
LEMMA QuietedHolds == Spec => []Quieted
<1>1. Init => Quieted
  BY InitQuieted
<1>2. Quieted /\ [Next]_vars => Quieted'
  BY MpvQuieted, StepQuieted, MessageQuieted, CommandQuieted, WorldQuieted DEF Next
<1> QED BY <1>1, <1>2, PTL DEF Spec

\* For every library, every queue size and any number of faults and changes: while
\* the screen is off nothing starts mpv or loads a list.
THEOREM DarkWhenOff == Spec => []SuspendedIsDark
<1>1. Quieted => SuspendedIsDark
  BY DEF Quieted
<1> QED BY <1>1, QuietedHolds, PTL

\* No nightly grace of checkNightly waits for an item of a list that is gone.
THEOREM GraceKeepsList == Spec => []GraceHasList
<1>1. Quieted => GraceHasList
  BY DEF Quieted
<1> QED BY <1>1, QuietedHolds, PTL

-----------------------------------------------------------------------------
(* Operators.                                                              *)

\* The number of elements up to j is a bijection of S with 1..Cardinality(S).
LEMMA NthIs ==
    ASSUME NEW n \in Nat, NEW S \in SUBSET (1..n), NEW k \in 1..Cardinality(S)
    PROVE  Nth(S, k) \in S /\ Cardinality({i \in S : i <= Nth(S, k)}) = k
<1> DEFINE Upto(j) == {i \in S : i <= j}
           rank == [j \in S |-> Cardinality(Upto(j))]
<1>1. IsFiniteSet(S) /\ Cardinality(S) \in Nat
  <2>1. IsFiniteSet(1..n)
    BY FS_Interval
  <2> QED BY <2>1, FS_Subset, FS_CardinalityType
<1>2. \A j \in S : /\ IsFiniteSet(Upto(j)) /\ Cardinality(Upto(j)) \in 1..Cardinality(S)
  <2> TAKE j \in S
  <2>1. Upto(j) \in SUBSET S /\ j \in Upto(j)
    OBVIOUS
  <2> HIDE DEF Upto
  <2>2. IsFiniteSet(Upto(j)) /\ Cardinality(Upto(j)) <= Cardinality(S)
    BY <1>1, <2>1, FS_Subset
  <2>3. Cardinality(Upto(j)) \in Nat /\ Cardinality(Upto(j)) # 0
    BY <2>1, <2>2, FS_CardinalityType, FS_EmptySet
  <2> QED BY <1>1, <2>2, <2>3
<1>3. \A i, j \in S : Cardinality(Upto(i)) = Cardinality(Upto(j)) => i = j
  <2>1. ASSUME NEW i \in S, NEW j \in S, i < j PROVE Cardinality(Upto(i)) # Cardinality(Upto(j))
    <3>0. j <= j /\ ~(j <= i) /\ \A x \in S : x <= i => x <= j
      BY <2>1
    <3>1. Upto(i) \in SUBSET Upto(j) /\ j \in Upto(j) /\ j \notin Upto(i)
      BY <3>0
    <3> HIDE DEF Upto
    <3>2. Upto(i) # Upto(j)
      BY <3>1
    <3> QED BY <1>2, <3>1, <3>2, FS_Subset
  <2>2. \A i, j \in S : i = j \/ i < j \/ j < i
    OBVIOUS
  <2> HIDE DEF Upto
  <2> QED BY <2>1, <2>2
<1> HIDE DEF Upto
<1>4. rank \in Injection(S, 1..Cardinality(S))
  <2>1. rank \in [S -> 1..Cardinality(S)] /\ \A i, j \in S : rank[i] = rank[j] => i = j
    BY <1>2, <1>3
  <2> QED BY <2>1 DEF Injection, IsInjective
<1>5. IsFiniteSet(1..Cardinality(S)) /\ Cardinality(1..Cardinality(S)) = Cardinality(S)
  BY <1>1, FS_Interval
<1>6. rank \in Surjection(S, 1..Cardinality(S))
  <2> HIDE DEF rank
  <2> QED BY <1>4, <1>5, FS_Injection
<1>7. PICK j \in S : rank[j] = k
  BY <1>6 DEF Surjection
<1>8. \E i \in S : Cardinality(Upto(i)) = k
  BY <1>7
<1> QED BY <1>8 DEF Nth, Upto

\* A set of positions that is not empty has a last one.
LEMMA MaxIs ==
    ASSUME NEW n \in Nat, NEW S \in SUBSET (1..n), S # {}
    PROVE  Max(S) \in S
<1>1. IsFiniteSet(S) /\ Cardinality(S) \in Nat /\ Cardinality(S) # 0
  <2>1. IsFiniteSet(1..n)
    BY FS_Interval
  <2>2. IsFiniteSet(S)
    BY <2>1, FS_Subset
  <2> QED BY <2>2, FS_CardinalityType, FS_EmptySet
<1>2. PICK m \in S : Cardinality({i \in S : i <= m}) = Cardinality(S)
  <2>1. Cardinality(S) \in 1..Cardinality(S)
    BY <1>1
  <2> QED BY <2>1, NthIs
<1>3. {i \in S : i <= m} = S
  <2>1. {i \in S : i <= m} \in SUBSET S
    OBVIOUS
  <2> QED BY <1>1, <1>2, <2>1, FS_Subset
<1>4. \A y \in S : m >= y
  BY <1>3
<1> QED BY <1>4 DEF Max

\* What a rotation gives to mpv: entries of the playlist whose files are not left out.
LEMMA RotationIs ==
    ASSUME NEW l \in Lists, NEW start \in Nat \ {0}, NEW out
    PROVE  /\ Rotation(l, start, out) \in Seq(Nat)
           /\ ToSet(Rotation(l, start, out)) \subseteq DOMAIN Content[l]
           /\ \A i \in ToSet(Rotation(l, start, out)) : Content[l][i] \notin out
<1> DEFINE n == Len(Content[l])
           idx(j) == ((start + j - 2) % n) + 1
           kept == {j \in 1..n : Content[l][idx(j)] \notin out}
<1>1. n \in Nat \ {0} /\ DOMAIN Content[l] = 1..n
  BY PlayerAssumption
<1>2. \A j \in 1..n : idx(j) \in 1..n
  <2>1. \A j \in 1..n : start + j - 2 \in Nat
    BY <1>1
  <2> HIDE DEF n
  <2>2. \A a \in Nat : (a % n) + 1 \in 1..n
    BY <1>1
  <2> QED BY <2>1, <2>2
<1>3. Rotation(l, start, out) = [k \in 1..Cardinality(kept) |-> idx(Nth(kept, k))]
  BY DEF Rotation
<1>4. kept \in SUBSET (1..n) /\ \A j \in kept : Content[l][idx(j)] \notin out
  OBVIOUS
<1> HIDE DEF kept, idx
<1>5. Cardinality(kept) \in Nat
  <2>1. IsFiniteSet(1..n)
    BY <1>1, FS_Interval
  <2> QED BY <1>4, <2>1, FS_Subset, FS_CardinalityType
<1>6. \A k \in 1..Cardinality(kept) : Nth(kept, k) \in kept
  BY <1>1, <1>4, NthIs
<1>7. \A k \in 1..Cardinality(kept) :
         idx(Nth(kept, k)) \in 1..n /\ Content[l][idx(Nth(kept, k))] \notin out
  BY <1>2, <1>4, <1>6
<1>8. DOMAIN Rotation(l, start, out) = 1..Cardinality(kept)
      /\ \A k \in 1..Cardinality(kept) : Rotation(l, start, out)[k] = idx(Nth(kept, k))
  BY <1>3
<1>9. Rotation(l, start, out) \in [1..Cardinality(kept) -> 1..n]
  BY <1>3, <1>7
<1>10. Rotation(l, start, out) \in Seq(Nat)
  <2>1. Rotation(l, start, out) \in Seq(1..n)
    BY <1>5, <1>9
  <2> QED BY <1>1, <2>1
<1>11. \A i \in ToSet(Rotation(l, start, out)) : i \in 1..n /\ Content[l][i] \notin out
  BY <1>7, <1>8 DEF ToSet
<1> QED BY <1>1, <1>10, <1>11

-----------------------------------------------------------------------------
(* mpv, the socket and the list.                                           *)

\* The part of PlayingInv that is about mpv, the messages and the list.
Core ==
    /\ mpv \in Mpvs /\ (~mpv.up => mpv = NoMpv)
    /\ mpv.phase \notin {"none", "idle"} => mpv.pos \in DOMAIN mpv.order
    /\ toMpv \in Seq(Requests) /\ events \in Seq(Messages)
    /\ list \in Loaded
    /\ list.kind = "playlist" => list.name \in Lists /\ list.order # <<>>
    /\ reached \subseteq Nat
    /\ ~ipc => toMpv = <<>> /\ events = <<>> /\ MpvIdle /\ ~mpv.now
    /\ ~ipc /\ mpv.up => list.kind = "none"
    /\ AboutTheList
    /\ list.kind = "playlist" =>
         /\ ToSet(list.order) \subseteq DOMAIN Content[list.name]
         /\ list.opened \in ToSet(list.order) \cup {0}
         /\ cur \in ToSet(list.order) \cup {0}
         /\ \A i \in DOMAIN events :
              events[i].t = "start" /\ events[i].now => events[i].k \in ToSet(list.order)
    /\ list.kind # "playlist" => cur = 0
    /\ \A i \in DOMAIN toMpv : toMpv[i].op = "load" => toMpv[i].order # <<>>
    /\ PositionsAreReal /\ NowPlayingIsReal

coreVars == <<mpv, toMpv, events, ipc, list, cur, reached>>

\* What the core does not mention may change.
LEMMA CoreSame == ASSUME Core, UNCHANGED coreVars PROVE Core'
BY DEF Core, coreVars, AboutTheList, PositionsAreReal, NowPlayingIsReal, ListUnderWay, MpvIdle

Fresh == [NoMpv EXCEPT !.up = TRUE]

\* No mpv, and an mpv that was just started.
LEMMA FreshIs ==
    /\ NoMpv \in Mpvs /\ ~NoMpv.up /\ NoMpv.phase = "none" /\ ~NoMpv.now
    /\ Fresh \in Mpvs /\ Fresh.up /\ Fresh.phase = "none" /\ ~Fresh.now /\ ~Fresh.frozen
<1>1. NoMpv \in Mpvs
  BY DEF NoMpv, Mpvs, Names
<1>2. Fresh \in Mpvs /\ Fresh.up = TRUE /\ Fresh.phase = NoMpv.phase /\ Fresh.now = NoMpv.now
      /\ Fresh.frozen = NoMpv.frozen
  BY <1>1 DEF Fresh, Mpvs
<1>3. ~NoMpv.up /\ NoMpv.phase = "none" /\ ~NoMpv.now /\ ~NoMpv.frozen
  BY DEF NoMpv
<1> QED BY <1>1, <1>2, <1>3

\* No list is given out, and the socket is closed.
LEMMA CoreCleared ==
    ASSUME ~ipc', toMpv' = <<>>, events' = <<>>, mpv' \in {NoMpv, Fresh}, list' = NoLoaded,
           cur' = 0, reached' = {}
    PROVE  Core'
<1>1. list' \in Loaded /\ list'.kind = "none"
  BY DEF NoLoaded, Loaded, Names
<1>2. mpv' \in Mpvs /\ mpv'.phase = "none" /\ ~mpv'.now /\ (~mpv'.up => mpv' = NoMpv)
  BY FreshIs
<1>3. toMpv' \in Seq(Requests) /\ events' \in Seq(Messages) /\ DOMAIN toMpv' = {} /\ DOMAIN events' = {}
  OBVIOUS
<1> QED BY <1>1, <1>2, <1>3 DEF Core, AboutTheList, PositionsAreReal, NowPlayingIsReal, MpvIdle

\* mpv starts, or does not, where no list is given out.
LEMMA CoreLaunch ==
    ASSUME Core, ~ipc, list.kind = "none", mpv' \in {NoMpv, Fresh},
           UNCHANGED <<toMpv, events, ipc, list, cur, reached>>
    PROVE  Core'
<1>2. mpv' \in Mpvs /\ mpv'.phase = "none" /\ ~mpv'.now /\ (~mpv'.up => mpv' = NoMpv)
  BY FreshIs
<1>3. toMpv' = <<>> /\ events' = <<>> /\ DOMAIN toMpv' = {} /\ DOMAIN events' = {}
  BY DEF Core
<1> QED BY <1>2, <1>3 DEF Core, AboutTheList, PositionsAreReal, NowPlayingIsReal, MpvIdle

\* The messages of an old list.
LEMMA OldRequests ==
    ASSUME NEW s \in Seq(Requests)
    PROVE  /\ Old(s) \in Seq(Requests) /\ DOMAIN Old(s) = DOMAIN s /\ Len(Old(s)) = Len(s)
           /\ \A i \in DOMAIN s : /\ Old(s)[i].now = FALSE /\ Old(s)[i].op = s[i].op
                                  /\ Old(s)[i].order = s[i].order
<1>1. Len(s) \in Nat /\ DOMAIN s = 1..Len(s) /\ \A i \in DOMAIN s : s[i] \in Requests
  OBVIOUS
<1>2. \A i \in 1..Len(s) : /\ [s[i] EXCEPT !.now = FALSE] \in Requests
                           /\ [s[i] EXCEPT !.now = FALSE].now = FALSE
                           /\ [s[i] EXCEPT !.now = FALSE].op = s[i].op
                           /\ [s[i] EXCEPT !.now = FALSE].order = s[i].order
  BY <1>1 DEF Requests
<1>3. Old(s) = [i \in 1..Len(s) |-> [s[i] EXCEPT !.now = FALSE]]
  BY <1>1 DEF Old
<1>4. Old(s) \in [1..Len(s) -> Requests]
  BY <1>2, <1>3
<1>5. Old(s) \in Seq(Requests) /\ Len(Old(s)) = Len(s)
  BY <1>1, <1>4
<1> QED BY <1>1, <1>2, <1>3, <1>5, ZenonT(60)

\* The news of an old list.
LEMMA OldMessages ==
    ASSUME NEW s \in Seq(Messages)
    PROVE  /\ Old(s) \in Seq(Messages) /\ DOMAIN Old(s) = DOMAIN s
           /\ \A i \in DOMAIN s : Old(s)[i].now = FALSE
<1>1. Len(s) \in Nat /\ DOMAIN s = 1..Len(s) /\ \A i \in DOMAIN s : s[i] \in Messages
  OBVIOUS
<1>2. \A i \in 1..Len(s) : /\ [s[i] EXCEPT !.now = FALSE] \in Messages
                           /\ [s[i] EXCEPT !.now = FALSE].now = FALSE
  BY <1>1 DEF Messages
<1>3. Old(s) = [i \in 1..Len(s) |-> [s[i] EXCEPT !.now = FALSE]]
  BY <1>1 DEF Old
<1>4. Old(s) \in [1..Len(s) -> Messages]
  BY <1>2, <1>3
<1>5. Old(s) \in Seq(Messages)
  BY <1>1, <1>4
<1> QED BY <1>1, <1>2, <1>3, <1>5

\* A new list: the request for it is the last in the socket, and nothing else is "now".
LEMMA CoreNew ==
    ASSUME Core, ipc', NEW heard \in Seq(Messages), NEW kind \in {"fallback", "playlist"},
           NEW name \in Names, NEW order \in Seq(Nat), order # <<>>,
           kind = "playlist" => name \in Lists /\ ToSet(order) \subseteq DOMAIN Content[name],
           newList(kind, name, order, heard)
    PROVE  Core' /\ list'.kind = kind /\ list'.name = name /\ list'.order = order
<1>0. /\ mpv \in Mpvs /\ toMpv \in Seq(Requests) /\ Len(toMpv) \in Nat
      /\ mpv.phase \notin {"none", "idle"} => mpv.pos \in DOMAIN mpv.order
      /\ \A i \in DOMAIN toMpv : toMpv[i].op = "load" => toMpv[i].order # <<>>
  BY DEF Core
<1>1. /\ list' \in Loaded /\ list'.kind = kind /\ list'.name = name /\ list'.order = order
      /\ list'.opened = 0
  <2>1. NoLoaded \in Loaded /\ NoLoaded.opened = 0
    BY DEF NoLoaded, Loaded, Names
  <2>2. list' = [NoLoaded EXCEPT !.kind = kind, !.name = name, !.order = order]
    BY DEF newList
  <2> QED BY <2>1, <2>2 DEF Loaded
<1>2. /\ mpv' \in Mpvs /\ mpv'.now = FALSE /\ mpv'.up = mpv.up /\ mpv'.phase = mpv.phase
      /\ mpv'.pos = mpv.pos /\ mpv'.order = mpv.order /\ (~mpv'.up => mpv' = NoMpv)
  <2>1. mpv' = [mpv EXCEPT !.now = FALSE]
    BY DEF newList
  <2>2. ~mpv.up => [mpv EXCEPT !.now = FALSE] = NoMpv
    <3>1. ~mpv.up => mpv = NoMpv
      BY DEF Core
    <3>2. [NoMpv EXCEPT !.now = FALSE] = NoMpv
      <4>1. NoMpv \in Mpvs /\ NoMpv.now = FALSE
        BY FreshIs DEF Mpvs
      <4>2. \A m \in Mpvs : m.now = FALSE => [m EXCEPT !.now = FALSE] = m
        BY DEF Mpvs
      <4> QED BY <4>1, <4>2
    <3> QED BY <3>1, <3>2
  <2> QED BY <1>0, <2>1, <2>2 DEF Mpvs
<1>3. cur' = 0 /\ reached' = {} /\ events' = Old(heard) /\ events' \in Seq(Messages)
      /\ \A i \in DOMAIN events' : events'[i].now = FALSE
  BY OldMessages DEF newList
<1>4. PICK r \in Requests : /\ r.op = "load" /\ r.name = name /\ r.order = order /\ r.now = TRUE
                            /\ toMpv' = Append(Old(toMpv), r)
  <2>1. LoadRequest(name, order) \in Requests
    BY DEF LoadRequest, Requests
  <2> QED BY <2>1 DEF LoadRequest, newList
<1>5. PICK old \in Seq(Requests) :
        /\ old = Old(toMpv) /\ DOMAIN old = DOMAIN toMpv /\ Len(old) = Len(toMpv)
        /\ \A i \in DOMAIN old : old[i].now = FALSE /\ (old[i].op = "load" => old[i].order # <<>>)
  <2>1. /\ Old(toMpv) \in Seq(Requests) /\ DOMAIN Old(toMpv) = DOMAIN toMpv
        /\ Len(Old(toMpv)) = Len(toMpv)
        /\ \A i \in DOMAIN toMpv : /\ Old(toMpv)[i].now = FALSE
                                   /\ Old(toMpv)[i].op = toMpv[i].op
                                   /\ Old(toMpv)[i].order = toMpv[i].order
    BY <1>0, OldRequests
  <2>2. PICK old \in Seq(Requests) : old = Old(toMpv)
    BY <2>1
  <2>3. /\ DOMAIN old = DOMAIN toMpv /\ Len(old) = Len(toMpv)
        /\ \A i \in DOMAIN toMpv : /\ old[i].now = FALSE /\ old[i].op = toMpv[i].op
                                   /\ old[i].order = toMpv[i].order
    BY <2>1, <2>2
  <2>4. \A i \in DOMAIN old : old[i].now = FALSE /\ (old[i].op = "load" => old[i].order # <<>>)
    BY <1>0, <2>3
  <2> QED BY <2>2, <2>3, <2>4
<1>6. /\ toMpv' \in Seq(Requests) /\ Len(toMpv') = Len(old) + 1
      /\ DOMAIN toMpv' = 1..(Len(old) + 1) /\ toMpv'[Len(old) + 1] = r
      /\ \A i \in 1..Len(old) : toMpv'[i] = old[i]
      /\ DOMAIN old = 1..Len(old) /\ Len(old) \in Nat
  BY <1>4, <1>5
<1>7. \A i \in DOMAIN toMpv' : \/ i = Len(old) + 1 /\ toMpv'[i] = r
                               \/ i \in DOMAIN old /\ toMpv'[i] = old[i]
  BY <1>6
<1>8. /\ \A i \in DOMAIN toMpv' : toMpv'[i].op = "load" => toMpv'[i].order # <<>>
      /\ \A i \in DOMAIN toMpv' : toMpv'[i].now => i = Len(old) + 1 /\ toMpv'[i] = r
  BY <1>4, <1>5, <1>7
<1>9. \A j \in DOMAIN toMpv' : j <= Len(old) + 1
  BY <1>6
<1>10. ListUnderWay(Len(toMpv) + 1)'
  <2>1. Len(old) + 1 \in DOMAIN toMpv' /\ Len(old) + 1 < Len(toMpv') + 1
    BY <1>6
  <2> QED BY <1>4, <1>6, <2>1 DEF ListUnderWay
<1>11. AboutTheList'
  BY <1>1, <1>2, <1>4, <1>8, <1>9, <1>10, PlayerAssumption DEF AboutTheList
<1>12. PositionsAreReal' /\ NowPlayingIsReal'
  BY <1>2, <1>3 DEF PositionsAreReal, NowPlayingIsReal
<1>13. reached' \subseteq Nat
  BY <1>3
<1> QED BY <1>0, <1>1, <1>2, <1>3, <1>6, <1>8, <1>11, <1>12, <1>13 DEF Core

\* The loop asks for the position, or reads a message.
LEMMA CoreRead ==
    ASSUME Core, ipc, UNCHANGED <<ipc, mpv, reached>>,
           toMpv' = toMpv \/ toMpv' = Append(toMpv, PosRequest),
           events' = events \/ (events # <<>> /\ events' = Tail(events)),
           list' \in Loaded, list'.kind = list.kind, list'.name = list.name,
           list'.order = list.order,
           list.kind = "playlist" => list'.opened \in ToSet(list.order) \cup {0},
           \/ cur' = cur
           \/ list.kind = "playlist" /\ cur' \in reached /\ cur' \in ToSet(list.order)
    PROVE  Core'
<1>0. /\ mpv \in Mpvs /\ toMpv \in Seq(Requests) /\ events \in Seq(Messages) /\ Len(toMpv) \in Nat
      /\ \A i \in DOMAIN toMpv : toMpv[i].op = "load" => toMpv[i].order # <<>>
      /\ AboutTheList /\ PositionsAreReal /\ NowPlayingIsReal
  BY DEF Core
<1>1. PosRequest \in Requests /\ PosRequest.op # "load"
  BY DEF PosRequest, Requests, Names
<1>2. /\ events' \in Seq(Messages)
      /\ \A i \in DOMAIN events' : \E j \in DOMAIN events : events'[i] = events[j]
  <2>1. CASE events' = events
    BY <1>0, <2>1
  <2>2. CASE events # <<>> /\ events' = Tail(events)
    <3>1. Tail(events) \in Seq(Messages)
          /\ \A i \in DOMAIN Tail(events) : i + 1 \in DOMAIN events /\ Tail(events)[i] = events[i + 1]
      BY <1>0, <2>2
    <3> QED BY <2>2, <3>1
  <2> QED BY <2>1, <2>2
<1>3. /\ toMpv' \in Seq(Requests) /\ Len(toMpv') \in Nat /\ Len(toMpv) <= Len(toMpv')
      /\ \A i \in DOMAIN toMpv : i \in DOMAIN toMpv' /\ toMpv'[i] = toMpv[i]
      /\ \A i \in DOMAIN toMpv' : \/ i \in DOMAIN toMpv /\ toMpv'[i] = toMpv[i]
                                  \/ i = Len(toMpv) + 1 /\ toMpv'[i] = PosRequest
  <2>1. CASE toMpv' = toMpv
    BY <1>0, <2>1
  <2>2. CASE toMpv' = Append(toMpv, PosRequest)
    <3> HIDE DEF PosRequest
    <3>1. PICK r \in Requests : r = PosRequest
      BY <1>1
    <3>2. /\ Append(toMpv, r) \in Seq(Requests) /\ Len(Append(toMpv, r)) = Len(toMpv) + 1
          /\ \A i \in 1..Len(toMpv) : Append(toMpv, r)[i] = toMpv[i]
          /\ Append(toMpv, r)[Len(toMpv) + 1] = r
          /\ DOMAIN Append(toMpv, r) = 1..(Len(toMpv) + 1) /\ DOMAIN toMpv = 1..Len(toMpv)
      BY <1>0
    <3>3. \A i \in 1..(Len(toMpv) + 1) : i \in 1..Len(toMpv) \/ i = Len(toMpv) + 1
      BY <1>0
    <3>4. Len(toMpv) <= Len(toMpv) + 1 /\ 1..Len(toMpv) \subseteq 1..(Len(toMpv) + 1)
          /\ Len(toMpv) + 1 \in Nat
      BY <1>0
    <3> QED BY <2>2, <3>1, <3>2, <3>3, <3>4
  <2> QED BY <2>1, <2>2
<1>4. \A n : ListUnderWay(n) => ListUnderWay(n)'
  BY <1>3 DEF ListUnderWay
<1>5. ListUnderWay(Len(toMpv) + 1) => ListUnderWay(Len(toMpv) + 1)'
  <2> SUFFICES ASSUME ListUnderWay(Len(toMpv) + 1) PROVE ListUnderWay(Len(toMpv) + 1)'
    OBVIOUS
  <2>1. PICK j \in DOMAIN toMpv : j < Len(toMpv) + 1 /\ toMpv[j].op = "load" /\ toMpv[j].now
    BY DEF ListUnderWay
  <2>2. j \in DOMAIN toMpv' /\ toMpv'[j] = toMpv[j] /\ j < Len(toMpv') + 1
    BY <1>0, <1>3, <2>1
  <2> QED BY <2>1, <2>2 DEF ListUnderWay
<1>6. AboutTheList'
  <2>1. ASSUME NEW i \in DOMAIN toMpv', toMpv'[i].op = "load"
        PROVE  i \in DOMAIN toMpv /\ toMpv'[i] = toMpv[i]
    BY <1>1, <1>3, <2>1
  <2>2. mpv.now => /\ mpv.name = list'.name /\ mpv.order = list'.order
                   /\ \A i \in DOMAIN toMpv' : toMpv'[i].op # "load"
    BY <1>0, <2>1 DEF AboutTheList
  <2>3. \A i \in DOMAIN toMpv' : toMpv'[i].op = "load" /\ toMpv'[i].now =>
          /\ toMpv'[i].name = list'.name /\ toMpv'[i].order = list'.order
          /\ \A j \in DOMAIN toMpv' : toMpv'[j].op = "load" => j <= i
    BY <1>0, <2>1 DEF AboutTheList
  <2>4. ASSUME NEW i \in DOMAIN toMpv', toMpv'[i].op # "load", toMpv'[i].now, mpv.up,
               list.kind = "playlist"
        PROVE  mpv.now \/ ListUnderWay(i)'
    <3>1. CASE i \in DOMAIN toMpv /\ toMpv'[i] = toMpv[i]
      BY <1>0, <1>4, <2>4, <3>1 DEF AboutTheList
    <3>2. CASE i = Len(toMpv) + 1
      <4>1. mpv.now \/ ListUnderWay(i)
        BY <1>0, <2>4, <3>2 DEF AboutTheList
      <4> QED BY <1>4, <4>1
    <3> QED BY <1>3, <3>1, <3>2
  <2>5. mpv.up /\ list.kind = "playlist" => mpv.now \/ ListUnderWay(Len(toMpv) + 1)'
    BY <1>0, <1>5 DEF AboutTheList
  <2>6. list'.kind = "playlist" => list'.name # NoList
    BY <1>0 DEF AboutTheList
  <2> QED BY <2>2, <2>3, <2>4, <2>5, <2>6 DEF AboutTheList
<1>7. PositionsAreReal' /\ NowPlayingIsReal'
  BY <1>0, <1>2 DEF PositionsAreReal, NowPlayingIsReal, MpvIdle
<1>8. \A i \in DOMAIN toMpv' : toMpv'[i].op = "load" => toMpv'[i].order # <<>>
  BY <1>0, <1>1, <1>3
<1>9. list.kind = "playlist" =>
         /\ cur' \in ToSet(list.order) \cup {0}
         /\ \A i \in DOMAIN events' :
              events'[i].t = "start" /\ events'[i].now => events'[i].k \in ToSet(list.order)
  BY <1>2 DEF Core
<1>10. list.kind # "playlist" => cur' = 0
  BY DEF Core
<1> QED BY <1>2, <1>3, <1>6, <1>7, <1>8, <1>9, <1>10 DEF Core, MpvIdle

\* mpv goes on in the list that it has, and may say something that is no position.
LEMMA CoreSays ==
    ASSUME Core, mpv.up, UNCHANGED <<toMpv, ipc, list, cur>>,
           mpv' \in Mpvs, mpv'.up, mpv'.now = mpv.now, mpv'.name = mpv.name,
           mpv'.order = mpv.order,
           mpv'.phase \notin {"none", "idle"} => mpv'.pos \in DOMAIN mpv.order,
           reached' \subseteq Nat, reached \subseteq reached',
           mpv.now /\ mpv'.phase \notin {"none", "idle"} /\ mpv.name # NoList =>
             mpv.order[mpv'.pos] \in reached',
           ~ipc => events' = events /\ mpv'.phase \in {"none", "idle"},
           \/ events' = events
           \/ \E e \in Messages :
                /\ events' = Append(events, e) /\ e.t # "pos"
                /\ e.t = "start" /\ e.now /\ list.kind = "playlist" => e.k \in ToSet(list.order)
    PROVE  Core'
<1>0. /\ events \in Seq(Messages) /\ AboutTheList /\ PositionsAreReal /\ NowPlayingIsReal
      /\ list \in Loaded /\ toMpv \in Seq(Requests)
  BY DEF Core
<1>1. /\ events' \in Seq(Messages)
      /\ \A i \in DOMAIN events' :
           \/ i \in DOMAIN events /\ events'[i] = events[i]
           \/ /\ events'[i].t # "pos"
              /\ events'[i].t = "start" /\ events'[i].now /\ list.kind = "playlist" =>
                   events'[i].k \in ToSet(list.order)
  <2>1. CASE events' = events
    BY <1>0, <2>1
  <2>2. CASE events' # events
    <3>1. PICK e \in Messages :
            /\ events' = Append(events, e) /\ e.t # "pos"
            /\ e.t = "start" /\ e.now /\ list.kind = "playlist" => e.k \in ToSet(list.order)
      BY <2>2
    <3>2. /\ Len(events) \in Nat /\ events' \in Seq(Messages)
          /\ DOMAIN events' = 1..(Len(events) + 1) /\ DOMAIN events = 1..Len(events)
          /\ events'[Len(events) + 1] = e
          /\ \A i \in 1..Len(events) : events'[i] = events[i]
      BY <1>0, <3>1
    <3>3. \A i \in DOMAIN events' : i \in 1..Len(events) \/ i = Len(events) + 1
      BY <3>2
    <3> QED BY <3>1, <3>2, <3>3, ZenonT(60)
  <2> QED BY <2>1, <2>2
<1>2. AboutTheList'
  <2>1. \A n : ListUnderWay(n) => ListUnderWay(n)'
    BY DEF ListUnderWay
  <2>2. ListUnderWay(Len(toMpv) + 1) => ListUnderWay(Len(toMpv) + 1)'
    BY DEF ListUnderWay
  <2> QED BY <1>0, <2>1, <2>2 DEF AboutTheList
<1>3. PositionsAreReal'
  <2>1. mpv'.now /\ ~MpvIdle' /\ mpv'.name # NoList => mpv'.order[mpv'.pos] \in reached'
    BY DEF MpvIdle
  <2>2. ASSUME NEW i \in DOMAIN events', events'[i].t = "pos", events'[i].now, events'[i].k # 0,
               list'.kind = "playlist"
        PROVE  list'.order[events'[i].k] \in reached'
    <3>1. i \in DOMAIN events /\ events'[i] = events[i]
      BY <1>1, <2>2
    <3> QED BY <1>0, <2>2, <3>1 DEF PositionsAreReal
  <2> QED BY <2>1, <2>2 DEF PositionsAreReal
<1>4. NowPlayingIsReal'
  BY <1>0 DEF NowPlayingIsReal
<1>5. list'.kind = "playlist" =>
         /\ ToSet(list'.order) \subseteq DOMAIN Content[list'.name]
         /\ list'.opened \in ToSet(list'.order) \cup {0}
         /\ cur' \in ToSet(list'.order) \cup {0}
         /\ \A i \in DOMAIN events' :
              events'[i].t = "start" /\ events'[i].now => events'[i].k \in ToSet(list'.order)
  BY <1>1 DEF Core
<1>6. /\ list'.kind = "playlist" => list'.name \in Lists /\ list'.order # <<>>
      /\ list'.kind # "playlist" => cur' = 0
      /\ \A i \in DOMAIN toMpv' : toMpv'[i].op = "load" => toMpv'[i].order # <<>>
      /\ ~ipc' => toMpv' = <<>> /\ events' = <<>> /\ MpvIdle' /\ ~mpv'.now
      /\ ~ipc' /\ mpv'.up => list'.kind = "none"
  BY DEF Core, MpvIdle
<1> QED BY <1>0, <1>1, <1>2, <1>3, <1>4, <1>5, <1>6 DEF Core

\* mpv ends, or its socket closes once everything in it is read.
LEMMA CoreDead ==
    ASSUME Core, mpv' = NoMpv, toMpv' = <<>>, UNCHANGED <<events, list, cur, reached>>,
           ipc' = ipc \/ (~ipc' /\ events = <<>>)
    PROVE  Core'
<1>1. NoMpv \in Mpvs /\ ~NoMpv.up /\ NoMpv.phase = "none" /\ ~NoMpv.now
  BY FreshIs
<1>2. toMpv' \in Seq(Requests) /\ DOMAIN toMpv' = {}
  OBVIOUS
<1>3. AboutTheList'
  BY <1>1, <1>2 DEF AboutTheList, Core
<1>4. PositionsAreReal' /\ NowPlayingIsReal'
  BY <1>1 DEF PositionsAreReal, NowPlayingIsReal, Core
<1>5. ~ipc' => events' = <<>>
  BY DEF Core
<1> QED BY <1>1, <1>2, <1>3, <1>4, <1>5 DEF Core, MpvIdle

\* The first request of the socket, and those that stay behind it.
LEMMA TailIs ==
    ASSUME NEW S, NEW s \in Seq(S), s # <<>>
    PROVE  /\ Head(s) \in S /\ Head(s) = s[1] /\ 1 \in DOMAIN s /\ Len(s) \in Nat
           /\ Tail(s) \in Seq(S) /\ Len(Tail(s)) = Len(s) - 1
           /\ \A i \in DOMAIN Tail(s) : /\ i \in Nat \ {0} /\ i + 1 \in DOMAIN s
                                        /\ Tail(s)[i] = s[i + 1]
           /\ \A i \in DOMAIN s : i = 1 \/ (i \in Nat /\ i - 1 \in DOMAIN Tail(s)
                                            /\ Tail(s)[i - 1] = s[i])
OBVIOUS

\* mpv reads a request for a list.
LEMMA CoreTakesList ==
    ASSUME Core, MpvTake, Head(toMpv).op = "load"
    PROVE  Core'
<1> DEFINE r == Head(toMpv)
           m == [mpv EXCEPT !.now = r.now, !.name = r.name, !.order = r.order,
                            !.pos = 1, !.phase = "start", !.fails = 0]
<1>0. /\ mpv \in Mpvs /\ toMpv \in Seq(Requests) /\ events \in Seq(Messages) /\ reached \subseteq Nat
      /\ AboutTheList /\ PositionsAreReal /\ NowPlayingIsReal /\ toMpv # <<>> /\ mpv.up
      /\ \A i \in DOMAIN toMpv : toMpv[i].op = "load" => toMpv[i].order # <<>>
      /\ UNCHANGED <<ipc, list, cur, events>> /\ ipc /\ toMpv' = Tail(toMpv)
  BY DEF Core, MpvTake, MpvRuns, OnlyMpv, MoveTo
<1>1. /\ r \in Requests /\ r = toMpv[1] /\ 1 \in DOMAIN toMpv /\ Len(toMpv) \in Nat
      /\ toMpv' \in Seq(Requests) /\ Len(toMpv') = Len(toMpv) - 1
      /\ \A i \in DOMAIN toMpv' : i \in Nat \ {0} /\ i + 1 \in DOMAIN toMpv /\ toMpv'[i] = toMpv[i + 1]
      /\ \A i \in DOMAIN toMpv : i = 1 \/ (i \in Nat /\ i - 1 \in DOMAIN toMpv' /\ toMpv'[i - 1] = toMpv[i])
  BY <1>0, TailIs
<1>2. mpv' = m /\ reached' = IF m.now /\ m.name # NoList THEN reached \cup {m.order[m.pos]} ELSE reached
  BY DEF MpvTake, MoveTo
<1>3. /\ m \in Mpvs /\ m.up = mpv.up /\ m.now = r.now /\ m.name = r.name /\ m.order = r.order
      /\ m.pos = 1 /\ m.phase = "start"
  <2> HIDE DEF r
  <2>1. r.now \in BOOLEAN /\ r.name \in Names /\ r.order \in Seq(Nat)
    BY <1>1 DEF Requests
  <2>2. 1 \in Nat /\ 0 \in Nat
    OBVIOUS
  <2> QED BY <1>0, <2>1, <2>2 DEF Mpvs
<1>4. r.order \in Seq(Nat) /\ r.order # <<>> /\ r.op = "load" /\ toMpv[1].op = "load"
  <2> HIDE DEF r
  <2>1. r.order \in Seq(Nat)
    BY <1>1 DEF Requests
  <2>2. toMpv[1].op = "load" /\ toMpv[1].order # <<>>
    <3>1. toMpv[1].op = "load"
      BY <1>1 DEF r
    <3> QED BY <1>0, <1>1, <3>1
  <2> QED BY <1>1, <2>1, <2>2
<1>5. 1 \in DOMAIN r.order /\ r.order[1] \in Nat
  <2> HIDE DEF r
  <2> QED BY <1>4
<1> HIDE DEF r, m
<1>6. reached \subseteq reached' /\ reached' \subseteq Nat
  BY <1>0, <1>2, <1>3, <1>5
<1>7. ~mpv.now
  BY <1>0, <1>1, <1>4 DEF AboutTheList
<1>8. /\ r.now => r.name = list.name /\ r.order = list.order
      /\ r.now => \A i \in DOMAIN toMpv' : toMpv'[i].op # "load"
  <2>1. ASSUME r.now
        PROVE  /\ r.name = list.name /\ r.order = list.order
               /\ \A j \in DOMAIN toMpv : toMpv[j].op = "load" => j <= 1
    BY <1>0, <1>1, <1>4, <2>1 DEF AboutTheList
  <2>2. ASSUME r.now, NEW i \in DOMAIN toMpv' PROVE toMpv'[i].op # "load"
    <3>1. i \in Nat \ {0} /\ i + 1 \in DOMAIN toMpv /\ toMpv'[i] = toMpv[i + 1] /\ ~(i + 1 <= 1)
      BY <1>1
    <3> QED BY <2>1, <2>2, <3>1
  <2> QED BY <2>1, <2>2
<1>9. ASSUME NEW n \in Nat, ListUnderWay(n + 1), ~r.now PROVE ListUnderWay(n)'
  <2>1. PICK j \in DOMAIN toMpv : j < n + 1 /\ toMpv[j].op = "load" /\ toMpv[j].now
    BY <1>9 DEF ListUnderWay
  <2>2. j # 1
    BY <1>1, <1>9, <2>1
  <2>3. j \in Nat /\ j - 1 \in DOMAIN toMpv' /\ toMpv'[j - 1] = toMpv[j]
    BY <1>1, <2>2
  <2>4. j - 1 < n
    BY <2>1, <2>3
  <2> QED BY <2>1, <2>3, <2>4 DEF ListUnderWay
<1>10. AboutTheList'
  <2>1. mpv'.now = r.now /\ mpv'.name = r.name /\ mpv'.order = r.order
    BY <1>2, <1>3
  <2>2. mpv'.now => /\ mpv'.name = list'.name /\ mpv'.order = list'.order
                    /\ \A i \in DOMAIN toMpv' : toMpv'[i].op # "load"
    BY <1>0, <1>8, <2>1
  <2>3. ASSUME NEW i \in DOMAIN toMpv', toMpv'[i].op = "load", toMpv'[i].now
        PROVE  /\ toMpv'[i].name = list'.name /\ toMpv'[i].order = list'.order
               /\ \A j \in DOMAIN toMpv' : toMpv'[j].op = "load" => j <= i
    <3>1. i \in Nat \ {0} /\ i + 1 \in DOMAIN toMpv /\ toMpv'[i] = toMpv[i + 1]
      BY <1>1
    <3>2. /\ toMpv[i + 1].name = list.name /\ toMpv[i + 1].order = list.order
          /\ \A j \in DOMAIN toMpv : toMpv[j].op = "load" => j <= i + 1
      BY <1>0, <2>3, <3>1 DEF AboutTheList
    <3>3. ASSUME NEW j \in DOMAIN toMpv', toMpv'[j].op = "load" PROVE j <= i
      <4>1. j \in Nat \ {0} /\ j + 1 \in DOMAIN toMpv /\ toMpv'[j] = toMpv[j + 1]
        BY <1>1
      <4>2. j + 1 <= i + 1
        BY <3>2, <3>3, <4>1
      <4> QED BY <3>1, <4>1, <4>2
    <3> QED BY <1>0, <3>1, <3>2, <3>3
  <2>4. ASSUME NEW i \in DOMAIN toMpv', toMpv'[i].op # "load", toMpv'[i].now, list'.kind = "playlist"
        PROVE  mpv'.now \/ ListUnderWay(i)'
    <3>1. i \in Nat /\ i + 1 \in DOMAIN toMpv /\ toMpv'[i] = toMpv[i + 1]
      BY <1>1
    <3>2. ListUnderWay(i + 1)
      BY <1>0, <1>7, <2>4, <3>1 DEF AboutTheList
    <3> QED BY <1>9, <2>1, <3>1, <3>2
  <2>5. list'.kind = "playlist" => mpv'.now \/ ListUnderWay(Len(toMpv) + 1)'
    <3> SUFFICES ASSUME list.kind = "playlist", ~r.now PROVE ListUnderWay(Len(toMpv) + 1)'
      BY <1>0, <2>1
    <3>1. ListUnderWay(Len(toMpv) + 1)
      BY <1>0, <1>7 DEF AboutTheList
    <3>2. PICK n \in Nat : n = Len(toMpv)
      BY <1>1
    <3>3. Len(toMpv') + 1 = n
      BY <1>1, <3>2
    <3>4. \E j \in DOMAIN toMpv' : j < n /\ toMpv'[j].op = "load" /\ toMpv'[j].now
      BY <1>9, <3>1, <3>2 DEF ListUnderWay
    <3> QED BY <3>3, <3>4 DEF ListUnderWay
  <2>6. list'.kind = "playlist" => list'.name # NoList
    BY <1>0 DEF AboutTheList
  <2> QED BY <2>2, <2>3, <2>4, <2>5, <2>6 DEF AboutTheList
<1>11. PositionsAreReal'
  <2>1. mpv'.now /\ mpv'.name # NoList => mpv'.order[mpv'.pos] \in reached'
    BY <1>2, <1>3
  <2> QED BY <1>0, <1>6, <2>1 DEF PositionsAreReal
<1>12. NowPlayingIsReal'
  BY <1>0, <1>6 DEF NowPlayingIsReal
<1>13. \A i \in DOMAIN toMpv' : toMpv'[i].op = "load" => toMpv'[i].order # <<>>
  BY <1>0, <1>1
<1>14. mpv' \in Mpvs /\ mpv'.up /\ mpv'.pos \in DOMAIN mpv'.order /\ ipc'
  BY <1>0, <1>2, <1>3, <1>5
<1>15. events' \in Seq(Messages) /\ toMpv' \in Seq(Requests) /\ list' = list /\ cur' = cur /\ events' = events
  BY <1>0, <1>1
<1> QED BY <1>6, <1>10, <1>11, <1>12, <1>13, <1>14, <1>15 DEF Core

\* mpv answers a question for its position.
LEMMA CoreTakesPos ==
    ASSUME Core, MpvTake, Head(toMpv).op # "load"
    PROVE  Core'
<1> DEFINE r == Head(toMpv)
           k == IF MpvIdle THEN 0 ELSE mpv.pos
           e == [t |-> "pos", now |-> r.now, k |-> k]
<1>0. /\ mpv \in Mpvs /\ toMpv \in Seq(Requests) /\ events \in Seq(Messages)
      /\ AboutTheList /\ PositionsAreReal /\ NowPlayingIsReal /\ toMpv # <<>> /\ mpv.up
      /\ \A i \in DOMAIN toMpv : toMpv[i].op = "load" => toMpv[i].order # <<>>
      /\ UNCHANGED <<ipc, list, cur, mpv, reached>> /\ ipc /\ toMpv' = Tail(toMpv)
      /\ events' = Append(events, e)
  BY DEF Core, MpvTake, MpvRuns, OnlyMpv
<1>1. /\ r \in Requests /\ r = toMpv[1] /\ 1 \in DOMAIN toMpv /\ Len(toMpv) \in Nat
      /\ toMpv' \in Seq(Requests) /\ Len(toMpv') = Len(toMpv) - 1
      /\ \A i \in DOMAIN toMpv' : i \in Nat \ {0} /\ i + 1 \in DOMAIN toMpv /\ toMpv'[i] = toMpv[i + 1]
      /\ \A i \in DOMAIN toMpv : i = 1 \/ (i \in Nat /\ i - 1 \in DOMAIN toMpv' /\ toMpv'[i - 1] = toMpv[i])
  BY <1>0, TailIs
<1>2. k \in Nat /\ (k # 0 => ~MpvIdle /\ k = mpv.pos)
  BY <1>0 DEF Mpvs
<1>3. r.op # "load"
  OBVIOUS
<1> HIDE DEF r, k
<1>4. e \in Messages /\ e.t = "pos" /\ e.now = r.now /\ e.k = k
  <2>1. r.now \in BOOLEAN
    BY <1>1 DEF Requests
  <2> QED BY <1>2, <2>1 DEF Messages
<1> HIDE DEF e
<1>5. /\ events' \in Seq(Messages)
      /\ \A i \in DOMAIN events' : (i \in DOMAIN events /\ events'[i] = events[i]) \/ events'[i] = e
  <2>1. /\ Len(events) \in Nat /\ events' \in Seq(Messages)
        /\ DOMAIN events' = 1..(Len(events) + 1) /\ DOMAIN events = 1..Len(events)
        /\ events'[Len(events) + 1] = e /\ \A i \in 1..Len(events) : events'[i] = events[i]
    BY <1>0, <1>4
  <2>2. \A i \in DOMAIN events' : i \in 1..Len(events) \/ i = Len(events) + 1
    BY <2>1
  <2> QED BY <2>1, <2>2
<1>6. r.now /\ list.kind = "playlist" => mpv.now
  <2> SUFFICES ASSUME r.now, list.kind = "playlist" PROVE mpv.now
    OBVIOUS
  <2>1. mpv.now \/ ListUnderWay(1)
    BY <1>0, <1>1, <1>3 DEF AboutTheList
  <2>2. ~ListUnderWay(1)
    <3>1. \A j \in DOMAIN toMpv : ~(j < 1)
      BY <1>0
    <3> QED BY <3>1 DEF ListUnderWay
  <2> QED BY <2>1, <2>2
<1>7. PositionsAreReal'
  <2>1. mpv'.now /\ ~MpvIdle' /\ mpv'.name # NoList => mpv'.order[mpv'.pos] \in reached'
    BY <1>0 DEF PositionsAreReal, MpvIdle
  <2>2. ASSUME NEW i \in DOMAIN events', events'[i].t = "pos", events'[i].now, events'[i].k # 0,
               list'.kind = "playlist"
        PROVE  list'.order[events'[i].k] \in reached'
    <3>1. CASE i \in DOMAIN events /\ events'[i] = events[i]
      BY <1>0, <2>2, <3>1 DEF PositionsAreReal
    <3>2. CASE events'[i] = e
      <4>1. r.now /\ list.kind = "playlist" /\ k # 0
        BY <1>0, <1>4, <2>2, <3>2
      <4>2. mpv.now /\ ~MpvIdle /\ k = mpv.pos
        BY <1>2, <1>6, <4>1
      <4>3. mpv.name = list.name /\ mpv.order = list.order /\ mpv.name # NoList
        BY <1>0, <4>1, <4>2 DEF AboutTheList
      <4>4. mpv.order[mpv.pos] \in reached
        BY <1>0, <4>2, <4>3 DEF PositionsAreReal
      <4> QED BY <1>0, <1>4, <3>2, <4>2, <4>3, <4>4
    <3> QED BY <1>5, <3>1, <3>2
  <2> QED BY <2>1, <2>2 DEF PositionsAreReal
<1>9. ASSUME NEW n \in Nat, ListUnderWay(n + 1) PROVE ListUnderWay(n)'
  <2>1. PICK j \in DOMAIN toMpv : j < n + 1 /\ toMpv[j].op = "load" /\ toMpv[j].now
    BY <1>9 DEF ListUnderWay
  <2>2. j # 1
    BY <1>1, <1>3, <2>1
  <2>3. j \in Nat /\ j - 1 \in DOMAIN toMpv' /\ toMpv'[j - 1] = toMpv[j]
    BY <1>1, <2>2
  <2>4. j - 1 < n
    BY <2>1, <2>3
  <2> QED BY <2>1, <2>3, <2>4 DEF ListUnderWay
<1>10. AboutTheList'
  <2>2. mpv'.now => /\ mpv'.name = list'.name /\ mpv'.order = list'.order
                    /\ \A i \in DOMAIN toMpv' : toMpv'[i].op # "load"
    BY <1>0, <1>1 DEF AboutTheList
  <2>3. ASSUME NEW i \in DOMAIN toMpv', toMpv'[i].op = "load", toMpv'[i].now
        PROVE  /\ toMpv'[i].name = list'.name /\ toMpv'[i].order = list'.order
               /\ \A j \in DOMAIN toMpv' : toMpv'[j].op = "load" => j <= i
    <3>1. i \in Nat \ {0} /\ i + 1 \in DOMAIN toMpv /\ toMpv'[i] = toMpv[i + 1]
      BY <1>1
    <3>2. /\ toMpv[i + 1].name = list.name /\ toMpv[i + 1].order = list.order
          /\ \A j \in DOMAIN toMpv : toMpv[j].op = "load" => j <= i + 1
      BY <1>0, <2>3, <3>1 DEF AboutTheList
    <3>3. ASSUME NEW j \in DOMAIN toMpv', toMpv'[j].op = "load" PROVE j <= i
      <4>1. j \in Nat \ {0} /\ j + 1 \in DOMAIN toMpv /\ toMpv'[j] = toMpv[j + 1]
        BY <1>1
      <4>2. j + 1 <= i + 1
        BY <3>2, <3>3, <4>1
      <4> QED BY <3>1, <4>1, <4>2
    <3> QED BY <1>0, <3>1, <3>2, <3>3
  <2>4. ASSUME NEW i \in DOMAIN toMpv', toMpv'[i].op # "load", toMpv'[i].now, list'.kind = "playlist"
        PROVE  mpv'.now \/ ListUnderWay(i)'
    <3>1. i \in Nat /\ i + 1 \in DOMAIN toMpv /\ toMpv'[i] = toMpv[i + 1]
      BY <1>1
    <3>2. mpv.now \/ ListUnderWay(i + 1)
      BY <1>0, <2>4, <3>1 DEF AboutTheList
    <3> QED BY <1>0, <1>9, <3>1, <3>2
  <2>5. list'.kind = "playlist" => mpv'.now \/ ListUnderWay(Len(toMpv) + 1)'
    <3> SUFFICES ASSUME list.kind = "playlist", ~mpv.now PROVE ListUnderWay(Len(toMpv) + 1)'
      BY <1>0
    <3>1. ListUnderWay(Len(toMpv) + 1)
      BY <1>0 DEF AboutTheList
    <3>2. PICK n \in Nat : n = Len(toMpv)
      BY <1>1
    <3>3. Len(toMpv') + 1 = n
      BY <1>1, <3>2
    <3>4. \E j \in DOMAIN toMpv' : j < n /\ toMpv'[j].op = "load" /\ toMpv'[j].now
      BY <1>9, <3>1, <3>2 DEF ListUnderWay
    <3> QED BY <3>3, <3>4 DEF ListUnderWay
  <2>6. list'.kind = "playlist" => list'.name # NoList
    BY <1>0 DEF AboutTheList
  <2> QED BY <2>2, <2>3, <2>4, <2>5, <2>6 DEF AboutTheList
<1>12. NowPlayingIsReal'
  BY <1>0 DEF NowPlayingIsReal
<1>13. \A i \in DOMAIN toMpv' : toMpv'[i].op = "load" => toMpv'[i].order # <<>>
  BY <1>0, <1>1
<1>14. list'.kind = "playlist" => \A i \in DOMAIN events' :
           events'[i].t = "start" /\ events'[i].now => events'[i].k \in ToSet(list'.order)
  <2>1. e.t # "start"
    BY <1>4
  <2>2. list.kind = "playlist" => \A i \in DOMAIN events :
           events[i].t = "start" /\ events[i].now => events[i].k \in ToSet(list.order)
    BY DEF Core
  <2> QED BY <1>0, <1>5, <2>1, <2>2
<1>15. toMpv' \in Seq(Requests) /\ list' = list /\ cur' = cur /\ mpv' = mpv /\ reached' = reached /\ ipc'
  BY <1>0, <1>1
<1> QED BY <1>5, <1>7, <1>10, <1>12, <1>13, <1>14, <1>15 DEF Core

\* mpv's own steps keep the core.
LEMMA CoreMpv ==
    ASSUME Core, MpvPlays \/ MpvTake \/ MpvNext \/ MpvFreeze \/ MpvDie
    PROVE  Core'
<1>0. /\ mpv \in Mpvs /\ mpv.up /\ UNCHANGED <<ipc, list, cur>> /\ reached \subseteq Nat
      /\ mpv.phase \notin {"none", "idle"} => mpv.pos \in DOMAIN mpv.order
      /\ AboutTheList /\ PositionsAreReal
      /\ mpv.order \in Seq(Nat) /\ mpv.now \in BOOLEAN /\ mpv.pos \in Nat /\ mpv.fails \in Nat
      /\ \A i \in DOMAIN mpv.order : mpv.order[i] \in Nat
  BY SMTT(30) DEF Core, MpvPlays, MpvReady, MpvTake, MpvStartFile, MpvShow, MpvFail, MpvKilled, MpvNext,
         MpvFreeze, MpvDie, MpvRuns, OnlyMpv, Mpvs
<1>1. CASE MpvKilled \/ MpvDie
  <2>1. mpv' = NoMpv /\ toMpv' = <<>> /\ UNCHANGED <<events, reached>>
    BY <1>1 DEF MpvKilled, MpvDie
  <2> QED BY <1>0, <2>1, CoreDead
<1>2. CASE MpvTake
  BY <1>2, CoreTakesList, CoreTakesPos
<1>3. CASE MpvReady \/ MpvFreeze
  <2>1. UNCHANGED <<toMpv, events, reached>>
    BY <1>3 DEF MpvReady, MpvFreeze
  <2>2. \/ mpv' = [mpv EXCEPT !.sock = TRUE, !.phase = "idle"]
        \/ mpv' = [mpv EXCEPT !.frozen = TRUE]
    BY <1>3 DEF MpvReady, MpvFreeze
  <2>3. /\ mpv' \in Mpvs /\ mpv'.up = mpv.up /\ mpv'.now = mpv.now /\ mpv'.name = mpv.name
        /\ mpv'.order = mpv.order /\ mpv'.pos = mpv.pos
        /\ mpv'.phase = mpv.phase \/ mpv'.phase = "idle"
    BY <1>0, <2>2 DEF Mpvs
  <2>4. mpv.now /\ mpv'.phase \notin {"none", "idle"} /\ mpv.name # NoList =>
             mpv.order[mpv'.pos] \in reached'
    BY <1>0, <2>1, <2>3 DEF PositionsAreReal, MpvIdle
  <2>5. ~ipc => events' = events /\ mpv'.phase \in {"none", "idle"}
    BY <2>1, <2>3 DEF Core, MpvIdle
  <2> QED BY <1>0, <2>1, <2>3, <2>4, <2>5, CoreSays
<1>4. CASE MpvStartFile
  <2> DEFINE e == [t |-> "start", now |-> mpv.now, k |-> mpv.order[mpv.pos]]
  <2>1. /\ UNCHANGED <<toMpv, reached>> /\ events' = Append(events, e)
        /\ mpv' = [mpv EXCEPT !.phase = "open"] /\ mpv.phase = "start"
    BY <1>4 DEF MpvStartFile, Say
  <2>2. /\ mpv' \in Mpvs /\ mpv'.up = mpv.up /\ mpv'.now = mpv.now /\ mpv'.name = mpv.name
        /\ mpv'.order = mpv.order /\ mpv'.pos = mpv.pos
    BY <1>0, <2>1 DEF Mpvs
  <2>3. mpv.pos \in DOMAIN mpv.order /\ mpv.order[mpv.pos] \in Nat
    BY <1>0, <2>1
  <2>4. e \in Messages /\ e.t = "start" /\ e.now = mpv.now /\ e.k = mpv.order[mpv.pos]
    BY <1>0, <2>3 DEF Messages
  <2> HIDE DEF e
  <2>5. e.now => e.k \in ToSet(list.order)
    BY <1>0, <2>3, <2>4 DEF AboutTheList, ToSet
  <2>6. mpv.now /\ mpv.name # NoList => mpv.order[mpv'.pos] \in reached'
    BY <1>0, <2>1, <2>2 DEF PositionsAreReal, MpvIdle
  <2>7. ipc
    BY <2>1 DEF Core, MpvIdle
  <2>8. e.t # "pos"
    BY <2>4
  <2> QED BY <1>0, <2>1, <2>2, <2>3, <2>4, <2>5, <2>6, <2>7, <2>8, CoreSays
<1>5. CASE MpvShow
  <2> DEFINE e == [t |-> "shown", now |-> mpv.now, k |-> 0]
  <2>1. /\ UNCHANGED <<toMpv, reached>> /\ events' = Append(events, e)
        /\ mpv' = [mpv EXCEPT !.phase = "show", !.fails = 0] /\ mpv.phase = "open"
    BY <1>5 DEF MpvShow, Say
  <2>2. /\ mpv' \in Mpvs /\ mpv'.up = mpv.up /\ mpv'.now = mpv.now /\ mpv'.name = mpv.name
        /\ mpv'.order = mpv.order /\ mpv'.pos = mpv.pos
    BY <1>0, <2>1 DEF Mpvs
  <2>4. e \in Messages /\ e.t = "shown"
    BY <1>0 DEF Messages
  <2> HIDE DEF e
  <2>6. mpv.now /\ mpv.name # NoList => mpv.order[mpv'.pos] \in reached'
    BY <1>0, <2>1, <2>2 DEF PositionsAreReal, MpvIdle
  <2>7. ipc
    BY <2>1 DEF Core, MpvIdle
  <2>8. e.t # "pos" /\ e.t # "start" /\ mpv.pos \in DOMAIN mpv.order
    BY <1>0, <2>1, <2>4
  <2> QED BY <1>0, <2>1, <2>2, <2>4, <2>6, <2>7, <2>8, CoreSays
<1>6. CASE MpvFail \/ MpvNext
  <2>0. mpv.phase \notin {"none", "idle"} /\ UNCHANGED toMpv /\ ipc
    <3>1. mpv.phase \notin {"none", "idle"} /\ UNCHANGED toMpv
      BY <1>6 DEF MpvFail, MpvNext
    <3> QED BY <3>1 DEF Core, MpvIdle
  <2>1. NextPos \in DOMAIN mpv.order /\ NextPos \in Nat
    <3>1. Len(mpv.order) \in Nat \ {0} /\ DOMAIN mpv.order = 1..Len(mpv.order)
      BY <1>0, <2>0
    <3>2. PICK n \in Nat \ {0} : n = Len(mpv.order)
      BY <3>1
    <3>3. \A a \in Nat : (a % n) + 1 \in 1..n /\ (a % n) + 1 \in Nat
      OBVIOUS
    <3> QED BY <1>0, <3>1, <3>2, <3>3 DEF NextPos
  <2>2. CASE events' = events \/ \E e \in Messages : e.t \notin {"pos", "start"} /\ events' = Append(events, e)
    <3>1. CASE mpv' = [mpv EXCEPT !.phase = "idle"] /\ UNCHANGED reached
      <4>1. /\ mpv' \in Mpvs /\ mpv'.up = mpv.up /\ mpv'.now = mpv.now /\ mpv'.name = mpv.name
            /\ mpv'.order = mpv.order /\ mpv'.phase = "idle"
        BY <1>0, <3>1 DEF Mpvs
      <4> QED BY <1>0, <2>0, <2>2, <3>1, <4>1, CoreSays
    <3>2. CASE \E f \in Nat : MoveTo([mpv EXCEPT !.phase = "start", !.pos = NextPos, !.fails = f])
      <4>1. PICK f \in Nat : MoveTo([mpv EXCEPT !.phase = "start", !.pos = NextPos, !.fails = f])
        BY <3>2
      <4> DEFINE m == [mpv EXCEPT !.phase = "start", !.pos = NextPos, !.fails = f]
      <4>2. mpv' = m /\ reached' = IF m.now /\ m.name # NoList THEN reached \cup {m.order[m.pos]} ELSE reached
        BY <4>1 DEF MoveTo
      <4>3. /\ m \in Mpvs /\ m.up = mpv.up /\ m.now = mpv.now /\ m.name = mpv.name
            /\ m.order = mpv.order /\ m.phase = "start" /\ m.pos = NextPos
        BY <1>0, <2>1 DEF Mpvs
      <4> HIDE DEF m
      <4>4. reached \subseteq reached' /\ reached' \subseteq Nat
        BY <1>0, <2>1, <4>2, <4>3
      <4>5. mpv.now /\ mpv.name # NoList => mpv.order[mpv'.pos] \in reached'
        BY <4>2, <4>3
      <4>6. /\ mpv' \in Mpvs /\ mpv'.up /\ mpv'.now = mpv.now /\ mpv'.name = mpv.name
            /\ mpv'.order = mpv.order /\ mpv'.pos \in DOMAIN mpv.order
        BY <1>0, <2>1, <4>2, <4>3
      <4> QED BY <1>0, <2>0, <2>2, <4>4, <4>5, <4>6, CoreSays
    <3>3. CASE MpvFail
      <4>1. mpv.fails + 1 \in Nat /\ [mpv EXCEPT !.phase = "start", !.pos = NextPos, !.fails = @ + 1]
               = [mpv EXCEPT !.phase = "start", !.pos = NextPos, !.fails = mpv.fails + 1]
        BY <1>0
      <4> QED BY <3>1, <3>2, <3>3, <4>1 DEF MpvFail
    <3>4. CASE MpvNext
      <4>1. [mpv EXCEPT !.phase = "start", !.pos = NextPos]
               = [mpv EXCEPT !.phase = "start", !.pos = NextPos, !.fails = mpv.fails]
        BY <1>0 DEF Mpvs
      <4> QED BY <1>0, <3>2, <3>4, <4>1 DEF MpvNext
    <3> QED BY <1>6, <3>3, <3>4
  <2>3. events' = events \/ \E e \in Messages : e.t \notin {"pos", "start"} /\ events' = Append(events, e)
    <3> DEFINE e(t) == [t |-> t, now |-> mpv.now, k |-> 0]
    <3>1. \A t \in {"idle", "eof"} : e(t) \in Messages /\ e(t).t = t
      BY <1>0 DEF Messages
    <3>2. events' = events \/ \E t \in {"idle", "eof"} : events' = Append(events, e(t))
      BY <1>6 DEF MpvFail, MpvNext, Say
    <3> HIDE DEF e
    <3> QED BY <3>1, <3>2
  <2> QED BY <2>2, <2>3
<1> QED BY <1>1, <1>2, <1>3, <1>4, <1>5, <1>6 DEF MpvPlays

\* The playlist, or the fallback screen, goes to an mpv that is connected or connects
\* now.  A draw that fails leaves the list as it was.
LEMMA CoreLoad ==
    ASSUME Core, ipc', want \in Names, crashed \subseteq Files,
           resumeFrom.name # NoList => resumeFrom.index \in DOMAIN Content[resumeFrom.name],
           NEW heard, loadManifest(heard) \/ drawFallback(heard),
           \/ ipc /\ heard = events
           \/ ipc /\ events # <<>> /\ heard = Tail(events)
           \/ ~ipc /\ mpv.up /\ heard \in Seq(Messages)
    PROVE  Core'
<1>0. /\ events \in Seq(Messages) /\ toMpv \in Seq(Requests) /\ list \in Loaded
      /\ AboutTheList /\ PositionsAreReal /\ NowPlayingIsReal
  BY DEF Core
<1>1. heard \in Seq(Messages)
  BY <1>0
<1>2. ASSUME events' = heard, UNCHANGED <<list, cur, reached, mpv, toMpv>>
      PROVE  Core'
  <2>1. CASE ipc
    <3>1. list.kind = "playlist" => list.opened \in ToSet(list.order) \cup {0}
      BY DEF Core
    <3>2. UNCHANGED <<ipc, mpv, reached>>
      BY <1>2, <2>1 DEF Core
    <3> QED BY <1>0, <1>2, <2>1, <3>1, <3>2, CoreRead
  <2>2. CASE ~ipc
    <3>1. list.kind = "none" /\ toMpv = <<>> /\ MpvIdle /\ ~mpv.now /\ DOMAIN toMpv = {}
      BY <2>2 DEF Core
    <3>2. AboutTheList'
      BY <1>2, <3>1 DEF AboutTheList
    <3>3. PositionsAreReal' /\ NowPlayingIsReal'
      BY <1>0, <1>2, <3>1 DEF PositionsAreReal, NowPlayingIsReal
    <3>4. events' \in Seq(Messages) /\ ipc'
      BY <1>1, <1>2
    <3> QED BY <1>2, <3>1, <3>2, <3>3, <3>4 DEF Core
  <2> QED BY <2>1, <2>2
<1>3. ASSUME drawFallback(heard) PROVE Core'
  <2>1. CASE newList("fallback", NoList, <<1>>, heard)
    <3>1. <<1>> \in Seq(Nat) /\ <<1>> # <<>> /\ NoList \in Names
      BY DEF Names
    <3>2. PICK one \in Seq(Nat) : one = <<1>>
      BY <3>1
    <3>3. PICK kind \in {"fallback", "playlist"} : kind = "fallback"
      OBVIOUS
    <3>4. newList(kind, NoList, one, heard)
      BY <2>1, <3>2, <3>3
    <3>5. one # <<>> /\ kind # "playlist"
      BY <3>1, <3>2, <3>3
    <3> QED BY <1>1, <3>1, <3>4, <3>5, CoreNew
  <2>2. CASE events' = heard /\ UNCHANGED <<list, cur, reached, mpv, toMpv>>
    BY <1>2, <2>2
  <2> QED BY <1>3, <2>1, <2>2 DEF drawFallback
<1>4. ASSUME loadManifest(heard), want # NoList PROVE Core'
  <2> DEFINE same == resumeFrom.name = want
             out == IF same THEN crashed ELSE {}
             start == IF same THEN resumeFrom.index ELSE 1
  <2>1. want \in Lists
    BY <1>4 DEF Names
  <2>2. start \in Nat \ {0}
    <3>1. DOMAIN Content[want] \subseteq Nat \ {0}
      BY <2>1, PlayerAssumption
    <3> QED BY <1>4, <3>1
  <2>3. \/ Rotation(want, start, out) = <<>> /\ drawFallback(heard)
        \/ /\ Rotation(want, start, out) # <<>>
           /\ newList("playlist", want, Rotation(want, start, out), heard)
    BY <1>4 DEF loadManifest, showFallback
  <2> HIDE DEF start, out, same
  <2>4. CASE drawFallback(heard)
    BY <1>3, <2>4
  <2>5. CASE /\ Rotation(want, start, out) # <<>>
             /\ newList("playlist", want, Rotation(want, start, out), heard)
    <3>1. /\ Rotation(want, start, out) \in Seq(Nat)
          /\ ToSet(Rotation(want, start, out)) \subseteq DOMAIN Content[want]
      BY <2>1, <2>2, RotationIs
    <3>2. PICK order \in Seq(Nat) : order = Rotation(want, start, out)
      BY <3>1
    <3>3. PICK kind \in {"fallback", "playlist"} : kind = "playlist"
      OBVIOUS
    <3>4. newList(kind, want, order, heard) /\ order # <<>>
          /\ ToSet(order) \subseteq DOMAIN Content[want]
      BY <2>5, <3>1, <3>2, <3>3
    <3> QED BY <1>1, <2>1, <3>2, <3>3, <3>4, CoreNew
  <2> QED BY <2>3, <2>4, <2>5
<1> QED BY <1>3, <1>4 DEF loadManifest, showFallback

-----------------------------------------------------------------------------
(* What the supervisor keeps.                                              *)

\* Reading what the socket holds changes the last opened file and no more.
LEMMA DrainIs ==
    ASSUME Core
    PROVE  /\ drainOpens \in Loaded /\ drainOpens.kind = list.kind
           /\ drainOpens.name = list.name /\ drainOpens.order = list.order
           /\ list.kind = "playlist" => drainOpens.opened \in ToSet(list.order) \cup {0}
<1> DEFINE heard == IF ipc THEN DOMAIN events ELSE {}
           starts == {i \in heard : events[i].t = "start"}
           own == {i \in starts : events[i].now /\ list.kind = "playlist"}
           last == IF own = {} THEN 0 ELSE Max(own)
           opened == IF last = 0 THEN list.opened ELSE events[last].k
           shown == \/ last = 0 /\ list.openShown
                    \/ \E i \in heard : i > last /\ events[i].t = "shown"
           tried == list.tried \/ starts # {}
<1>0. /\ list \in Loaded /\ events \in Seq(Messages) /\ Len(events) \in Nat
      /\ list.opened \in Nat /\ list.openShown \in BOOLEAN /\ list.tried \in BOOLEAN
      /\ list.kind = "playlist" => list.opened \in ToSet(list.order) \cup {0}
      /\ list.kind = "playlist" => \A i \in DOMAIN events :
              events[i].t = "start" /\ events[i].now => events[i].k \in ToSet(list.order)
  BY DEF Core, Loaded
<1>1. own \in SUBSET (1..Len(events))
  BY <1>0
<1>2. last # 0 => last \in own
  <2> HIDE DEF own
  <2> QED BY <1>0, <1>1, MaxIs
<1>3. opened \in Nat /\ (list.kind = "playlist" => opened \in ToSet(list.order) \cup {0})
  <2>1. CASE last = 0
    BY <1>0, <2>1
  <2>2. CASE last # 0
    <3>1. last \in DOMAIN events /\ events[last].t = "start" /\ events[last].now /\ list.kind = "playlist"
      BY <1>2, <2>2
    <3> HIDE DEF last
    <3>2. events[last] \in Messages
      BY <1>0, <3>1
    <3>3. events[last].k \in Nat
      BY <3>2 DEF Messages
    <3> QED BY <1>0, <2>2, <3>1, <3>3
  <2> QED BY <2>1, <2>2
<1>4. shown \in BOOLEAN /\ tried \in BOOLEAN
  BY <1>0
<1>5. drainOpens = IF list.kind = "none" THEN list
                   ELSE [list EXCEPT !.tried = tried, !.opened = opened, !.openShown = shown]
  BY DEF drainOpens
<1> HIDE DEF opened, shown, tried
<1> QED BY <1>0, <1>3, <1>4, <1>5 DEF Loaded

\* A resume point is an entry of its playlist.
ResumeOK(r) ==
    /\ r \in [name : Names, index : Indices \cup {0}]
    /\ r.name # NoList => r.index \in DOMAIN Content[r.name]

\* Where a restart resumes is an entry of the playlist.
LEMMA ResumeIs ==
    ASSUME NEW l \in Loaded, NEW at, ResumeOK(resumeFrom),
           l.kind = "playlist" =>
             /\ l.name \in Lists /\ l.order # <<>>
             /\ ToSet(l.order) \subseteq DOMAIN Content[l.name]
             /\ l.opened \in ToSet(l.order) \cup {0}
             /\ cur \in ToSet(l.order) \cup {0}
    PROVE  /\ ResumeOK(ResumePoint(l, at))
           /\ l.kind = "playlist" => ResumePoint(l, at).name = l.name
<1>1. CASE l.kind = "none"
  BY <1>1 DEF ResumePoint
<1>2. CASE l.kind = "fallback"
  BY <1>2 DEF ResumePoint, ResumeOK, NoResume, Names
<1>3. CASE l.kind = "playlist"
  <2> DEFINE on == IF at = "next" /\ l.opened # 0 THEN l.opened
                   ELSE IF cur = 0 THEN l.order[1] ELSE cur
             index == IF at = "next" THEN (on % Len(Content[l.name])) + 1 ELSE on
  <2>0. PICK n \in Nat \ {0} : n = Len(Content[l.name]) /\ DOMAIN Content[l.name] = 1..n
    BY <1>3, PlayerAssumption
  <2>1. l.order[1] \in ToSet(l.order)
    <3>1. l.order \in Seq(Nat) /\ l.order # <<>>
      BY <1>3 DEF Loaded
    <3>2. 1 \in DOMAIN l.order
      BY <3>1
    <3> QED BY <3>2 DEF ToSet
  <2>2. on \in 1..n
    BY <1>3, <2>0, <2>1
  <2>3. index \in 1..n
    <3> HIDE DEF on
    <3>1. \A a \in 1..n : (a % n) + 1 \in 1..n
      OBVIOUS
    <3> QED BY <2>0, <2>2, <3>1
  <2>4. ResumePoint(l, at) = [name |-> l.name, index |-> index]
    BY <1>3 DEF ResumePoint
  <2> HIDE DEF index
  <2>5. index \in Indices
    BY <1>3, <2>0, <2>3 DEF Indices
  <2> QED BY <1>3, <2>0, <2>3, <2>4, <2>5 DEF ResumeOK, Names
<1> QED BY <1>1, <1>2, <1>3 DEF Loaded

-----------------------------------------------------------------------------
(* The parts of PlayingInv, and that they are all of it.                   *)

Launched ==
    /\ ipc \/ mpv.up => everUp /\ ~expectExit /\ lastDisplay
    /\ suspended /\ everUp => expectExit
    /\ ~lastDisplay /\ everUp => expectExit
    /\ expectExit \/ ~everUp => list.kind = "none"

Flags ==
    /\ plugged \in BOOLEAN /\ playlistDue \in BOOLEAN /\ displayDue \in BOOLEAN
    /\ ipc \in BOOLEAN /\ everUp \in BOOLEAN /\ expectExit \in BOOLEAN
    /\ shownSinceLaunch \in BOOLEAN /\ backoff \in BOOLEAN /\ lastDisplay \in BOOLEAN
    /\ suspended \in BOOLEAN /\ grace \in BOOLEAN /\ failed \in BOOLEAN /\ drawDue \in BOOLEAN
    /\ rebooted \in BOOLEAN

Bounded ==
    /\ cmds \in Seq({"restart", "suspend", "resume"}) /\ Len(cmds) <= QueueSize
    /\ restarts \in 0..(RestartsBeforeReboot - 1) /\ faults \in 0..MaxCount
    /\ changes \in 0..MaxChanges

Named == want \in Names /\ crashed \subseteq Files /\ blamed \in [Files -> 0..2]

Parts ==
    /\ Core /\ Quieted /\ Launched /\ Flags /\ Bounded /\ Named
    /\ ResumeOK(resumeFrom) /\ reached \subseteq Nat

\* Every item on the screen is an item of some playlist.
LEMMA CurIs == Core => cur \in Indices \cup {0}
<1> SUFFICES ASSUME Core PROVE cur \in Indices \cup {0}
  OBVIOUS
<1>1. CASE list.kind = "playlist"
  <2>1. list.name \in Lists /\ ToSet(list.order) \subseteq DOMAIN Content[list.name]
        /\ cur \in ToSet(list.order) \cup {0}
    BY <1>1 DEF Core
  <2> QED BY <2>1 DEF Indices
<1>2. CASE list.kind # "playlist"
  BY <1>2 DEF Core
<1> QED BY <1>1, <1>2

\* The parts together are PlayingInv.
LEMMA PartsAre == Parts => PlayingInv
<1> SUFFICES ASSUME Parts PROVE PlayingInv
  OBVIOUS
<1>1. TypeOK
  <2>1. cur \in Indices \cup {0}
    BY CurIs DEF Parts
  <2> QED BY <2>1 DEF Parts, Core, Flags, Bounded, Named, ResumeOK, TypeOK, Names
<1>2. Wired
  BY DEF Parts, Core, Launched, Wired
<1>3. Entries
  BY DEF Parts, Core, ResumeOK, Entries
<1> QED BY <1>1, <1>2, <1>3 DEF Parts, Core, PlayingInv

\* The parts hold at the start.
LEMMA PartsInit == Init => Parts
<1> SUFFICES ASSUME Init PROVE Parts
  OBVIOUS
<1>1. Core
  <2>1. NoMpv \in Mpvs /\ ~NoMpv.up /\ NoMpv.phase = "none" /\ ~NoMpv.now
    BY FreshIs
  <2>2. NoLoaded \in Loaded /\ NoLoaded.kind = "none"
    BY DEF NoLoaded, Loaded, Names
  <2>3. mpv = NoMpv /\ list = NoLoaded /\ toMpv = <<>> /\ events = <<>> /\ cur = 0 /\ reached = {}
    BY DEF Init
  <2>4. toMpv \in Seq(Requests) /\ events \in Seq(Messages) /\ DOMAIN toMpv = {} /\ DOMAIN events = {}
    BY <2>3
  <2> QED BY <2>1, <2>2, <2>3, <2>4 DEF Core, AboutTheList, PositionsAreReal, NowPlayingIsReal, MpvIdle
<1>2. Launched
  <2>1. ~NoMpv.up
    BY FreshIs
  <2> QED BY <2>1 DEF Init, Launched, NoLoaded
<1>3. ResumeOK(resumeFrom)
  BY DEF Init, ResumeOK, NoResume, Names
<1>4. Flags
  BY DEF Init, Flags
<1>5. Bounded
  BY PlayerAssumption DEF Init, Bounded, MaxCount
<1>6. Named
  BY DEF Init, Named, Names, NoBlame
<1> QED BY <1>1, <1>2, <1>3, <1>4, <1>5, <1>6, InitQuieted DEF Parts, Core

-----------------------------------------------------------------------------
(* The core is kept by every step.                                         *)

\* A restart clears the list and the socket, or is held.
LEMMA CoreRestart ==
    ASSUME Core, NEW c, NEW at, restart(c, at)
    PROVE  Core'
<1>1. CASE suspended
  BY <1>1, CoreSame DEF restart, mpvVars, coreVars
<1>2. CASE ~suspended
  <2>1. stopPlayer
    BY <1>2 DEF restart
  <2>2. /\ ~ipc' /\ toMpv' = <<>> /\ events' = <<>> /\ mpv' = NoMpv /\ list' = NoLoaded
        /\ cur' = 0 /\ reached' = {}
    BY <2>1 DEF stopPlayer, dropIPC, clearList
  <2> QED BY <2>2, CoreCleared
<1> QED BY <1>1, <1>2

\* A launch makes a fresh mpv, or none.
LEMMA LaunchIs ==
    ASSUME launch
    PROVE  \/ mpv' = Fresh /\ everUp' /\ ~expectExit'
           \/ mpv' = NoMpv /\ everUp' = everUp /\ expectExit' = (expectExit \/ everUp)
BY DEF launch, Fresh

\* Where nothing was started, or it was ended, there is no mpv, no socket and no list.
LEMMA LaunchedNone ==
    ASSUME Core, Quieted, Launched, suspended \/ ~lastDisplay \/ (~mpv.up /\ (expectExit \/ ~everUp))
    PROVE  ~ipc /\ ~mpv.up /\ mpv = NoMpv /\ list.kind = "none" /\ (expectExit \/ ~everUp)
<1>1. ~mpv.up /\ ~ipc /\ (expectExit \/ ~everUp)
  BY DEF Quieted, SuspendedIsDark, Launched
<1> QED BY <1>1 DEF Core, Launched

\* The passes of the loop keep the core.
LEMMA CoreStep ==
    ASSUME Parts,
           Launching \/ Probing \/ BackoffOver \/ checkWatchdog \/ poll \/ RetryPlaylist
             \/ Redraw \/ checkNightly \/ GraceOver
    PROVE  Core'
<1>0. Core /\ Quieted /\ Launched /\ want \in Names /\ crashed \subseteq Files
  BY DEF Parts, Named
<1>r. resumeFrom.name # NoList => resumeFrom.index \in DOMAIN Content[resumeFrom.name]
  BY DEF Parts, ResumeOK
<1>1. CASE handleExit
  <2>1. ~ipc' /\ toMpv' = <<>> /\ events' = <<>> /\ list' = NoLoaded /\ cur' = 0 /\ reached' = {}
    BY <1>1 DEF handleExit, dropIPC, clearList
  <2>2. mpv' \in {NoMpv, Fresh}
    <3>1. mpv = NoMpv
      BY <1>0, <1>1 DEF handleExit, Core
    <3> QED BY <1>1, <3>1, LaunchIs DEF handleExit
  <2> QED BY <2>1, <2>2, CoreCleared
<1>2. CASE Start
  <2>1. ~ipc /\ list.kind = "none"
    BY <1>0, <1>2, LaunchedNone DEF Start
  <2>2. mpv' \in {NoMpv, Fresh} /\ UNCHANGED <<toMpv, events, ipc, list, cur, reached>>
    BY <1>2, LaunchIs DEF Start, listVars
  <2> QED BY <1>0, <2>1, <2>2, CoreLaunch
<1>3. CASE connect
  <2> DEFINE heard == <<[t |-> "idle", now |-> FALSE, k |-> 0]>>
  <2>1. [t |-> "idle", now |-> FALSE, k |-> 0] \in Messages
    BY DEF Messages
  <2>2. heard \in Seq(Messages)
    BY <2>1
  <2>3. ipc' /\ ~ipc /\ mpv.up /\ loadManifest(heard)
    BY <1>3 DEF connect, MpvRuns
  <2> HIDE DEF heard
  <2> QED BY <1>0, <1>r, <2>2, <2>3, CoreLoad
<1>4. CASE DisplayGone
  <2>2. /\ ~ipc' /\ toMpv' = <<>> /\ events' = <<>> /\ mpv' = NoMpv /\ list' = NoLoaded
        /\ cur' = 0 /\ reached' = {}
    BY <1>4 DEF DisplayGone, stopPlayer, dropIPC, clearList
  <2> QED BY <2>2, CoreCleared
<1>5. CASE DisplayFound
  <2>1. ~ipc /\ list.kind = "none" /\ mpv = NoMpv
    BY <1>0, <1>5, LaunchedNone DEF DisplayFound
  <2>2. mpv' \in {NoMpv, Fresh} /\ UNCHANGED <<toMpv, events, ipc, list, cur, reached>>
    BY <1>5, <2>1, LaunchIs DEF DisplayFound, LaunchOrWait, listVars
  <2> QED BY <1>0, <2>1, <2>2, CoreLaunch
<1>6. CASE BackoffOver
  BY <1>0, <1>6, CoreSame DEF BackoffOver, mpvVars, listVars, coreVars
<1>7. CASE checkWatchdog \/ GraceOver
  BY <1>0, <1>7, CoreRestart DEF checkWatchdog, GraceOver
<1>8. CASE poll
  <2>1. ipc /\ UNCHANGED <<ipc, mpv, reached, events, list, cur>> /\ toMpv' = Append(toMpv, PosRequest)
    BY <1>8 DEF poll, Talking, listVars
  <2>2. list \in Loaded /\ (list.kind = "playlist" => list.opened \in ToSet(list.order) \cup {0})
    BY <1>0 DEF Core
  <2> QED BY <1>0, <2>1, <2>2, CoreRead
<1>9. CASE RetryPlaylist \/ Redraw
  <2>1. ipc /\ UNCHANGED ipc /\ (loadManifest(events) \/ drawFallback(events))
    BY <1>9 DEF RetryPlaylist, Redraw, Talking
  <2> QED BY <1>0, <1>r, <2>1, CoreLoad
<1>10. CASE checkNightly
  <2>1. CASE list.kind # "playlist" \/ Len(list.order) = 1
    BY <1>0, <1>10, <2>1, CoreRestart DEF checkNightly
  <2>2. CASE ~(list.kind # "playlist" \/ Len(list.order) = 1)
    BY <1>0, <1>10, <2>2, CoreSame DEF checkNightly, mpvVars, coreVars
  <2> QED BY <2>1, <2>2
<1> QED BY <1>1, <1>2, <1>3, <1>4, <1>5, <1>6, <1>7, <1>8, <1>9, <1>10 DEF Launching, Probing

\* Every message keeps the core.
LEMMA CoreMessage ==
    ASSUME Parts, ReadMessage
    PROVE  Core'
<1>0. /\ Core /\ want \in Names /\ crashed \subseteq Files /\ ipc
      /\ list \in Loaded /\ events \in Seq(Messages)
      /\ list.kind = "playlist" => list.opened \in ToSet(list.order) \cup {0}
  BY DEF Parts, Named, Core, ReadMessage, onStartFile, onPlaybackRestart, onReply, onEndFile,
         onIdle, SocketClosed, Reads
<1>r. resumeFrom.name # NoList => resumeFrom.index \in DOMAIN Content[resumeFrom.name]
  BY DEF Parts, ResumeOK
<1>1. CASE onStartFile \/ onPlaybackRestart
  <2>1. /\ UNCHANGED <<ipc, mpv, reached, cur>> /\ events # <<>> /\ events' = Tail(events)
        /\ toMpv' = toMpv \/ toMpv' = Append(toMpv, PosRequest)
        /\ list' = Opened(list, Head(events))
    BY <1>1 DEF onStartFile, onPlaybackRestart, Quiet, Reads
  <2>2. PICK e \in Messages : e = Head(events) /\ e = events[1] /\ 1 \in DOMAIN events
    BY <1>0, <2>1, TailIs
  <2>3. e.k \in Nat /\ (e.t = "start" /\ e.now /\ list.kind = "playlist" => e.k \in ToSet(list.order))
    BY <1>0, <2>2 DEF Core, Messages
  <2>4. list' = Opened(list, e)
    BY <2>1, <2>2
  <2>5. /\ list' \in Loaded /\ list'.kind = list.kind /\ list'.name = list.name
        /\ list'.order = list.order
        /\ list.kind = "playlist" => list'.opened \in ToSet(list.order) \cup {0}
    BY <1>0, <2>3, <2>4 DEF Opened, Loaded
  <2> QED BY <1>0, <2>1, <2>5, CoreRead
<1>2. CASE onReply
  <2>1. /\ UNCHANGED <<ipc, mpv, reached, list, toMpv>> /\ events # <<>> /\ events' = Tail(events)
    BY <1>2 DEF onReply, Quiet, Reads
  <2>2. PICK e \in Messages : e = Head(events) /\ e = events[1] /\ 1 \in DOMAIN events
    BY <1>0, <2>1, TailIs
  <2>3. /\ e.t = "pos"
        /\ cur' = IF e.now /\ e.k # 0 /\ list.kind = "playlist" /\ e.k \in DOMAIN list.order
                  THEN list.order[e.k] ELSE cur
    BY <1>2, <2>2 DEF onReply, Reads
  <2>4. \/ cur' = cur
        \/ list.kind = "playlist" /\ cur' \in reached /\ cur' \in ToSet(list.order)
    <3>1. e.now /\ e.k # 0 /\ list.kind = "playlist" => list.order[e.k] \in reached
      BY <1>0, <2>2, <2>3 DEF Core, PositionsAreReal
    <3>2. e.k \in DOMAIN list.order => list.order[e.k] \in ToSet(list.order)
      BY DEF ToSet
    <3> QED BY <2>3, <3>1, <3>2
  <2> QED BY <1>0, <2>1, <2>4, CoreRead
<1>3. CASE onEndFile
  <2>1. CASE grace
    BY <1>0, <1>3, <2>1, CoreRestart DEF onEndFile
  <2>2. CASE ~grace
    <3>1. /\ UNCHANGED <<ipc, mpv, reached, list, toMpv, cur>> /\ events # <<>> /\ events' = Tail(events)
      BY <1>3, <2>2 DEF onEndFile, Reads
    <3> QED BY <1>0, <3>1, CoreRead
  <2> QED BY <2>1, <2>2
<1>4. CASE onIdle
  <2>0. ipc' /\ UNCHANGED ipc /\ events # <<>>
    BY <1>0, <1>4 DEF onIdle, Reads
  <2>1. CASE list.kind = "playlist" /\ list.tried
    <3>1. drawFallback(Tail(events))
      BY <1>4, <2>1 DEF onIdle, showFallback
    <3> QED BY <1>0, <1>r, <2>0, <3>1, CoreLoad
  <2>2. CASE ~(list.kind = "playlist" /\ list.tried)
    <3>1. /\ UNCHANGED <<ipc, mpv, reached, list, toMpv, cur>> /\ events # <<>> /\ events' = Tail(events)
      BY <1>4, <2>0, <2>2 DEF onIdle
    <3> QED BY <1>0, <3>1, CoreRead
  <2> QED BY <2>1, <2>2
<1>5. CASE SocketClosed
  <2>1. mpv' = NoMpv /\ toMpv' = <<>> /\ UNCHANGED <<events, list, cur, reached>> /\ ~ipc' /\ events = <<>>
    BY <1>0, <1>5 DEF SocketClosed, listVars, Core
  <2> QED BY <1>0, <2>1, CoreDead
<1> QED BY <1>1, <1>2, <1>3, <1>4, <1>5 DEF ReadMessage

\* Commands and change flags keep the core.
LEMMA CoreCommand ==
    ASSUME Parts, TakeCommand \/ takeChanges
    PROVE  Core'
<1>0. Core /\ Quieted /\ Launched /\ want \in Names /\ crashed \subseteq Files
  BY DEF Parts, Named
<1>r. resumeFrom.name # NoList => resumeFrom.index \in DOMAIN Content[resumeFrom.name]
  BY DEF Parts, ResumeOK
<1>1. CASE TakeRestart
  BY <1>0, <1>1, CoreRestart DEF TakeRestart
<1>2. CASE TakeSuspend
  <2>1. CASE suspended
    BY <1>0, <1>2, <2>1, CoreSame DEF TakeSuspend, mpvVars, coreVars
  <2>2. CASE ~suspended
    <3>2. /\ ~ipc' /\ toMpv' = <<>> /\ events' = <<>> /\ mpv' = NoMpv /\ list' = NoLoaded
          /\ cur' = 0 /\ reached' = {}
      BY <1>2, <2>2 DEF TakeSuspend, stopPlayer, dropIPC, clearList
    <3> QED BY <3>2, CoreCleared
  <2> QED BY <2>1, <2>2
<1>3. CASE TakeResume
  <2>0. UNCHANGED <<toMpv, events, ipc, list, cur, reached>>
    BY <1>3 DEF TakeResume
  <2>1. CASE suspended
    <3>1. ~ipc /\ list.kind = "none" /\ mpv = NoMpv
      BY <1>0, <2>1, LaunchedNone
    <3>2. mpv' \in {NoMpv, Fresh}
      BY <1>3, <2>1, <3>1, LaunchIs DEF TakeResume, LaunchOrWait
    <3> QED BY <1>0, <2>0, <3>1, <3>2, CoreLaunch
  <2>2. CASE ~suspended
    BY <1>0, <1>3, <2>0, <2>2, CoreSame DEF TakeResume, coreVars
  <2> QED BY <2>1, <2>2
<1>4. CASE takeChanges /\ displayDue
  BY <1>0, <1>4, CoreRestart DEF takeChanges
<1>5. CASE takeChanges /\ ~displayDue
  <2>1. playlistChanged /\ UNCHANGED ipc
    BY <1>5 DEF takeChanges
  <2>2. \/ UNCHANGED <<mpvVars, listVars>>
        \/ ipc /\ loadManifest(events)
    BY <2>1 DEF playlistChanged
  <2>3. CASE UNCHANGED <<mpvVars, listVars>>
    BY <1>0, <2>1, <2>3, CoreSame DEF mpvVars, listVars, coreVars
  <2>4. CASE ipc /\ loadManifest(events)
    BY <1>0, <1>r, <2>1, <2>4, CoreLoad
  <2> QED BY <2>2, <2>3, <2>4
<1> QED BY <1>1, <1>2, <1>3, <1>4, <1>5 DEF TakeCommand

\* What the world around the supervisor does touches neither mpv nor the list.
World ==
    \/ \E c \in {"restart", "suspend", "resume"} : Send(c)
    \/ \E l \in Lists \cup {NoList} : PlaylistChanged(l)
    \/ DisplayChanged \/ Unplug \/ Plug \/ WindowMoves

\* The world keeps the core.
LEMMA CoreWorld ==
    ASSUME Core, World \/ UNCHANGED vars
    PROVE  Core'
<1>1. UNCHANGED coreVars
  BY DEF World, Send, PlaylistChanged, DisplayChanged, Unplug, Plug, WindowMoves, OnlyWorld, vars,
         mpvVars, listVars, coreVars
<1> QED BY <1>1, CoreSame

-----------------------------------------------------------------------------
(* An mpv or a socket is one that was started and not ended.               *)

\* A stop is an end that the supervisor asked for.
LEMMA LaunchedStop ==
    ASSUME stopPlayer
    PROVE  Launched'
BY StopQuieted DEF stopPlayer, Launched

\* So is a restart, unless it is held.
LEMMA LaunchedRestart ==
    ASSUME Launched, NEW c, NEW at, restart(c, at), UNCHANGED <<everUp, lastDisplay, suspended>>
    PROVE  Launched'
<1>1. CASE suspended
  BY <1>1 DEF restart, Launched, mpvVars
<1>2. CASE ~suspended
  BY <1>2, LaunchedStop DEF restart
<1> QED BY <1>1, <1>2

\* While the socket is open, nothing but mpv and the list changes.
LEMMA LaunchedOpen ==
    ASSUME Launched, ipc \/ mpv.up, UNCHANGED <<everUp, expectExit, lastDisplay, suspended>>
    PROVE  Launched'
BY DEF Launched

\* A launch leaves an mpv that the supervisor started, or none.
LEMMA LaunchedTry ==
    ASSUME Core, ~ipc', list'.kind = "none", lastDisplay', ~suspended', launch
    PROVE  Launched'
BY LaunchIs, FreshIs DEF Launched

\* Every step keeps it.
LEMMA LaunchedStep ==
    ASSUME Parts, Next \/ UNCHANGED vars
    PROVE  Launched'
<1>0. Core /\ Quieted /\ Launched
  BY DEF Parts
<1>1. CASE MpvPlays \/ MpvTake \/ MpvNext \/ MpvFreeze \/ MpvDie
  <2>1. mpv.up /\ UNCHANGED <<everUp, expectExit, lastDisplay, suspended>>
    BY <1>1 DEF MpvPlays, MpvReady, MpvTake, MpvStartFile, MpvShow, MpvFail, MpvKilled, MpvNext,
           MpvFreeze, MpvDie, MpvRuns, OnlyMpv, modeVars, launchVars
  <2> QED BY <1>0, <2>1, LaunchedOpen
<1>2. CASE handleExit
  <2>1. ~ipc' /\ list'.kind = "none" /\ lastDisplay' /\ ~suspended' /\ ~mpv.up /\ everUp
    BY <1>2 DEF handleExit, dropIPC, clearList, NoLoaded, Passing
  <2>2. CASE launch
    BY <1>0, <2>1, <2>2, LaunchedTry
  <2>3. CASE expectExit' /\ UNCHANGED <<mpv, everUp>>
    BY <2>1, <2>3 DEF Launched
  <2> QED BY <1>2, <2>2, <2>3 DEF handleExit
<1>3. CASE Start
  <2>1. ~ipc /\ list.kind = "none" /\ UNCHANGED <<ipc, list, lastDisplay, suspended>>
        /\ lastDisplay /\ ~suspended /\ launch
    BY <1>0, <1>3, LaunchedNone DEF Start, Passing, listVars, modeVars
  <2> QED BY <1>0, <2>1, LaunchedTry
<1>4. CASE connect \/ poll \/ RetryPlaylist \/ Redraw
  <2>1. mpv.up /\ UNCHANGED <<everUp, expectExit, lastDisplay, suspended>>
    BY <1>4 DEF connect, poll, RetryPlaylist, Redraw, Talking, MpvRuns, OnlyStep, launchVars
  <2> QED BY <1>0, <2>1, LaunchedOpen
<1>5. CASE DisplayGone
  BY <1>5, LaunchedStop DEF DisplayGone
<1>6. CASE DisplayFound
  <2>1. /\ ~ipc /\ list.kind = "none" /\ mpv = NoMpv /\ (expectExit \/ ~everUp)
        /\ UNCHANGED <<ipc, list, suspended>> /\ lastDisplay' /\ ~suspended
    BY <1>0, <1>6, LaunchedNone DEF DisplayFound, listVars, OnlyStep
  <2>2. CASE launch
    BY <1>0, <2>1, <2>2, LaunchedTry
  <2>3. CASE UNCHANGED <<mpv, launchVars>>
    BY <2>1, <2>3, FreshIs DEF Launched, launchVars
  <2> QED BY <1>6, <2>2, <2>3 DEF DisplayFound, LaunchOrWait
<1>7. CASE BackoffOver
  BY <1>0, <1>7 DEF BackoffOver, mpvVars, listVars, OnlyStep, Launched
<1>8. CASE checkWatchdog \/ GraceOver
  BY <1>0, <1>8, LaunchedRestart DEF checkWatchdog, GraceOver, OnlyStep
<1>9. CASE checkNightly
  <2>1. mpv.up /\ UNCHANGED <<everUp, lastDisplay, suspended>>
    BY <1>9 DEF checkNightly, Talking, OnlyStep
  <2>2. (\E c, at : restart(c, at)) \/ UNCHANGED expectExit
    BY <1>9 DEF checkNightly
  <2> QED BY <1>0, <2>1, <2>2, LaunchedRestart, LaunchedOpen
<1>10. CASE ReadMessage
  <2>1. ipc /\ UNCHANGED <<everUp, lastDisplay, suspended>>
    BY <1>10 DEF ReadMessage, onStartFile, onPlaybackRestart, onReply, onEndFile, onIdle,
         SocketClosed, Reads, OnlyMessage, Quiet, launchVars
  <2>2. (\E c, at : restart(c, at)) \/ UNCHANGED expectExit
    BY <1>10 DEF ReadMessage, onStartFile, onPlaybackRestart, onReply, onEndFile, onIdle,
         SocketClosed, Quiet, launchVars
  <2> QED BY <1>0, <2>1, <2>2, LaunchedRestart, LaunchedOpen
<1>11. CASE TakeRestart
  BY <1>0, <1>11, LaunchedRestart DEF TakeRestart
<1>12. CASE TakeSuspend
  <2>1. CASE suspended
    BY <1>0, <1>12, <2>1 DEF TakeSuspend, mpvVars, Launched
  <2>2. CASE ~suspended
    BY <1>12, <2>2, LaunchedStop DEF TakeSuspend
  <2> QED BY <2>1, <2>2
<1>13. CASE TakeResume
  <2>0. UNCHANGED <<ipc, list>> /\ ~suspended'
    BY <1>13 DEF TakeResume
  <2>1. CASE suspended
    <3>1. ~ipc /\ list.kind = "none" /\ mpv = NoMpv /\ (expectExit \/ ~everUp)
      BY <1>0, <2>1, LaunchedNone
    <3>2. CASE lastDisplay' /\ launch
      BY <1>0, <2>0, <3>1, <3>2, LaunchedTry
    <3>3. CASE UNCHANGED <<mpv, launchVars>>
      BY <2>0, <3>1, <3>3, FreshIs DEF Launched, launchVars
    <3>4. PICK seen \in {plugged, lastDisplay} :
            /\ lastDisplay' = seen
            /\ IF seen THEN LaunchOrWait ELSE UNCHANGED <<mpv, launchVars, changes>>
      BY <1>13, <2>1 DEF TakeResume
    <3>5. (lastDisplay' /\ launch) \/ UNCHANGED <<mpv, launchVars>>
      <4>1. CASE seen
        BY <3>4, <4>1, Zenon DEF LaunchOrWait
      <4>2. CASE ~seen
        BY <3>4, <4>2
      <4> QED BY <4>1, <4>2
    <3> QED BY <3>2, <3>3, <3>5
  <2>2. CASE ~suspended
    BY <1>0, <1>13, <2>0, <2>2 DEF TakeResume, Launched, launchVars
  <2> QED BY <2>1, <2>2
<1>14. CASE takeChanges
  <2>0. UNCHANGED <<everUp, lastDisplay, suspended>>
    BY <1>14 DEF takeChanges
  <2>1. CASE displayDue
    BY <1>0, <1>14, <2>0, <2>1, LaunchedRestart DEF takeChanges
  <2>2. CASE ~displayDue
    <3>1. UNCHANGED <<ipc, expectExit>> /\ (ipc \/ UNCHANGED <<mpvVars, listVars>>)
      BY <1>14, <2>2 DEF takeChanges, playlistChanged
    <3>2. CASE ipc
      BY <1>0, <2>0, <3>1, <3>2, LaunchedOpen
    <3>3. CASE UNCHANGED <<mpvVars, listVars>>
      BY <1>0, <2>0, <3>1, <3>3 DEF mpvVars, listVars, Launched
    <3> QED BY <3>1, <3>2, <3>3
  <2> QED BY <2>1, <2>2
<1>15. CASE World \/ UNCHANGED vars
  <2>1. UNCHANGED <<mpv, ipc, list, everUp, expectExit, lastDisplay, suspended>>
    BY <1>15 DEF World, Send, PlaylistChanged, DisplayChanged, Unplug, Plug, WindowMoves, OnlyWorld,
           vars, mpvVars, listVars, launchVars, modeVars
  <2> QED BY <1>0, <2>1 DEF Launched
<1> QED BY <1>1, <1>2, <1>3, <1>4, <1>5, <1>6, <1>7, <1>8, <1>9, <1>10, <1>11, <1>12, <1>13,
           <1>14, <1>15 DEF Next, Launching, Probing, TakeCommand, World

-----------------------------------------------------------------------------
(* The resume point and the names.                                         *)

\* The resume point of the list, before and after the socket is drained.
LEMMA ResumeList ==
    ASSUME Core, ResumeOK(resumeFrom), NEW at
    PROVE  /\ ResumeOK(ResumePoint(list, at)) /\ ResumeOK(ResumePoint(drainOpens, at))
           /\ list.kind = "playlist" => /\ ResumePoint(list, at).name = list.name
                                        /\ ResumePoint(drainOpens, at).name = list.name
<1>1. list \in Loaded /\ drainOpens \in Loaded
  BY DrainIs DEF Core
<1>2. PICK l \in Loaded : l = drainOpens
  BY <1>1
<1>3. /\ l.kind = list.kind /\ l.name = list.name /\ l.order = list.order
      /\ list.kind = "playlist" => l.opened \in ToSet(list.order) \cup {0}
  BY <1>2, DrainIs
<1>4. list.kind = "playlist" =>
        /\ list.name \in Lists /\ list.order # <<>>
        /\ ToSet(list.order) \subseteq DOMAIN Content[list.name]
        /\ list.opened \in ToSet(list.order) \cup {0}
        /\ cur \in ToSet(list.order) \cup {0}
  BY DEF Core
<1>5. ResumeOK(ResumePoint(list, at)) /\ (list.kind = "playlist" => ResumePoint(list, at).name = list.name)
  BY <1>1, <1>4, ResumeIs
<1>6. ResumeOK(ResumePoint(l, at)) /\ (l.kind = "playlist" => ResumePoint(l, at).name = l.name)
  BY <1>3, <1>4, ResumeIs
<1> QED BY <1>2, <1>3, <1>5, <1>6

\* What the resume point becomes in any step.
LEMMA ResumeStep ==
    ASSUME Parts, Next \/ UNCHANGED vars
    PROVE  ResumeOK(resumeFrom)'
<1>0. Core /\ ResumeOK(resumeFrom)
  BY DEF Parts
<1>1. \/ resumeFrom' = resumeFrom
      \/ resumeFrom' = NoResume
      \/ \E at \in {"same", "next"} : \/ resumeFrom' = ResumePoint(list, at)
                                      \/ resumeFrom' = ResumePoint(drainOpens, at)
  <2>1. CASE MpvPlays \/ MpvTake \/ MpvNext \/ MpvFreeze \/ MpvDie
    BY <2>1 DEF MpvPlays, MpvReady, MpvTake, MpvStartFile, MpvShow, MpvFail, MpvKilled, MpvNext,
           MpvFreeze, MpvDie, OnlyMpv
  <2>2. CASE Launching \/ Probing \/ BackoffOver
    BY <2>2 DEF Launching, Probing, handleExit, Start, connect, DisplayGone, DisplayFound,
           BackoffOver, listVars, loadManifest
  <2>3. CASE checkWatchdog \/ GraceOver \/ checkNightly
    BY <2>3 DEF checkWatchdog, GraceOver, checkNightly, restart
  <2>4. CASE poll \/ RetryPlaylist \/ Redraw
    BY <2>4 DEF poll, RetryPlaylist, Redraw, listVars, loadManifest
  <2>5. CASE ReadMessage
    BY <2>5 DEF ReadMessage, onStartFile, onPlaybackRestart, onReply, onEndFile, onIdle,
         SocketClosed, Quiet, listVars, restart
  <2>6. CASE TakeCommand
    BY <2>6 DEF TakeCommand, TakeRestart, TakeSuspend, TakeResume, restart
  <2>7. CASE takeChanges
    BY <2>7 DEF takeChanges, playlistChanged, loadManifest, restart, listVars
  <2>8. CASE World \/ UNCHANGED vars
    BY <2>8 DEF World, Send, PlaylistChanged, DisplayChanged, Unplug, Plug, WindowMoves, OnlyWorld,
           vars, listVars
  <2> QED BY <2>1, <2>2, <2>3, <2>4, <2>5, <2>6, <2>7, <2>8 DEF Next, World
<1>2. ResumeOK(NoResume)
  BY DEF ResumeOK, NoResume, Names
<1>3. ResumeOK(resumeFrom')
  BY <1>0, <1>1, <1>2, ResumeList
<1> QED BY <1>3 DEF ResumeOK

\* Only files of the library are blamed.
LEMMA NamedStep ==
    ASSUME Parts, Next \/ UNCHANGED vars
    PROVE  Named'
<1>0. Core /\ want \in Names /\ crashed \subseteq Files /\ blamed \in [Files -> 0..2]
  BY DEF Parts, Named
<1>1. want' \in Names
  <2>1. want' = want \/ want' \in Lists \cup {NoList}
    BY DEF Next, MpvPlays, MpvReady, MpvTake, MpvStartFile, MpvShow, MpvFail, MpvKilled, MpvNext,
           MpvFreeze, MpvDie, OnlyMpv, worldVars, Launching, Probing, handleExit, Start, connect,
           DisplayGone, DisplayFound, BackoffOver, OnlyStep, checkWatchdog, poll, RetryPlaylist,
           Redraw, checkNightly, GraceOver, ReadMessage, onStartFile, onPlaybackRestart, onReply,
           onEndFile, onIdle, SocketClosed, OnlyMessage, TakeCommand, TakeRestart, TakeSuspend,
           TakeResume, OnlyCommand, takeChanges, Send, PlaylistChanged, DisplayChanged, Unplug,
           Plug, WindowMoves, OnlyWorld, vars
  <2> QED BY <1>0, <2>1 DEF Names
<1>2. NoBlame \in [Files -> 0..2]
  BY DEF NoBlame
<1>3. markCrashed(drainOpens) \subseteq Files
  <2>1. PICK l : l = drainOpens
    OBVIOUS
  <2>2. /\ l.kind = list.kind /\ l.name = list.name /\ l.order = list.order
        /\ list.kind = "playlist" => l.opened \in ToSet(list.order) \cup {0}
    BY <1>0, <2>1, DrainIs
  <2>3. list.kind = "playlist" => /\ list.name \in Lists
                                  /\ ToSet(list.order) \subseteq DOMAIN Content[list.name]
    BY <1>0 DEF Core
  <2>4. markCrashed(l) \subseteq Files
    BY <2>2, <2>3 DEF markCrashed, Files
  <2> QED BY <2>1, <2>4
<1>4. ASSUME handleExit
      PROVE  crashed' \subseteq Files /\ blamed' \in [Files -> 0..2]
  <2>1. PICK out \in SUBSET Files : Blame(out)
    BY <1>3, <1>4 DEF handleExit
  <2>2. crashed' = crashed \cup out
        /\ blamed' = [f \in Files |-> IF f \in out /\ blamed[f] < 2 THEN blamed[f] + 1 ELSE blamed[f]]
    BY <2>1 DEF Blame
  <2>3. \A f \in Files : blamed[f] \in 0..2
    BY <1>0
  <2>4. \A f \in Files : (IF f \in out /\ blamed[f] < 2 THEN blamed[f] + 1 ELSE blamed[f]) \in 0..2
    BY <2>3
  <2> QED BY <1>0, <2>2, <2>4
<1>5. ASSUME NEW heard, loadManifest(heard)
      PROVE  crashed' \in {crashed, {}} /\ blamed' \in {blamed, NoBlame}
  BY <1>5 DEF loadManifest, showFallback, drawFallback
<1>6. handleExit \/ (crashed' \in {crashed, {}} /\ blamed' \in {blamed, NoBlame})
  <2>1. CASE MpvPlays \/ MpvTake \/ MpvNext \/ MpvFreeze \/ MpvDie
    BY <2>1 DEF MpvPlays, MpvReady, MpvTake, MpvStartFile, MpvShow, MpvFail, MpvKilled, MpvNext,
           MpvFreeze, MpvDie, OnlyMpv, historyVars
  <2>2. CASE Launching \/ Probing \/ BackoffOver
    BY <1>5, <2>2 DEF Launching, Probing, Start, connect, DisplayGone, DisplayFound,
           BackoffOver, listVars
  <2>3. CASE checkWatchdog \/ GraceOver \/ checkNightly
    BY <2>3 DEF checkWatchdog, GraceOver, checkNightly
  <2>4. CASE poll \/ RetryPlaylist \/ Redraw
    BY <1>5, <2>4 DEF poll, RetryPlaylist, Redraw, listVars, drawFallback
  <2>5. CASE ReadMessage
    BY <2>5 DEF ReadMessage, onStartFile, onPlaybackRestart, onReply, onEndFile, onIdle,
         SocketClosed, Quiet, listVars, showFallback, drawFallback
  <2>6. CASE TakeCommand
    BY <2>6 DEF TakeCommand, TakeRestart, TakeSuspend, TakeResume, OnlyCommand, historyVars
  <2>7. CASE takeChanges
    BY <1>5, <2>7 DEF takeChanges, playlistChanged, listVars
  <2>8. CASE World \/ UNCHANGED vars
    BY <2>8 DEF World, Send, PlaylistChanged, DisplayChanged, Unplug, Plug, WindowMoves, OnlyWorld,
           vars, listVars, historyVars
  <2> QED BY <2>1, <2>2, <2>3, <2>4, <2>5, <2>6, <2>7, <2>8 DEF Next, World
<1> QED BY <1>0, <1>1, <1>2, <1>4, <1>6 DEF Named

-----------------------------------------------------------------------------
(* The flags and the counters.                                             *)

\* The flags stay flags.
LEMMA FlagsStep ==
    ASSUME Parts, Next \/ UNCHANGED vars
    PROVE  Flags'
<1>0. Flags
  BY DEF Parts
<1>1. CASE MpvPlays \/ MpvTake \/ MpvNext \/ MpvFreeze \/ MpvDie
  BY <1>0, <1>1 DEF MpvPlays, MpvReady, MpvTake, MpvStartFile, MpvShow, MpvFail, MpvKilled, MpvNext,
         MpvFreeze, MpvDie, OnlyMpv, worldVars, launchVars, modeVars, countVars, Flags
<1>l. ASSUME launch
      PROVE  everUp' \in BOOLEAN /\ expectExit' \in BOOLEAN /\ shownSinceLaunch' \in BOOLEAN
             /\ backoff' \in BOOLEAN
  BY <1>0, <1>l DEF launch, Flags
<1>r. ASSUME NEW c, NEW at, restart(c, at)
      PROVE  ipc' \in BOOLEAN /\ expectExit' \in BOOLEAN /\ grace' \in BOOLEAN
             /\ backoff' \in BOOLEAN /\ rebooted' \in BOOLEAN
  BY <1>0, <1>r DEF restart, stopPlayer, dropIPC, clearList, countRestart, countVars, Flags
<1>m. ASSUME NEW heard, loadManifest(heard)
      PROVE  failed' \in BOOLEAN /\ drawDue' \in BOOLEAN
  BY <1>0, <1>m DEF loadManifest, showFallback, drawFallback
<1>2. CASE handleExit
  <2>1. ipc' \in BOOLEAN /\ grace' \in BOOLEAN /\ rebooted' \in BOOLEAN
    BY <1>0, <1>2 DEF handleExit, dropIPC, clearList, countRestart, Flags
  <2>2. everUp' \in BOOLEAN /\ expectExit' \in BOOLEAN /\ shownSinceLaunch' \in BOOLEAN
        /\ backoff' \in BOOLEAN
    BY <1>0, <1>2, <1>l DEF handleExit, Flags
  <2>3. UNCHANGED <<plugged, playlistDue, displayDue, lastDisplay, suspended, failed, drawDue>>
    BY <1>2 DEF handleExit, worldVars
  <2> QED BY <1>0, <2>1, <2>2, <2>3 DEF Flags
<1>3. CASE Start \/ DisplayFound
  <2>1. everUp' \in BOOLEAN /\ expectExit' \in BOOLEAN /\ shownSinceLaunch' \in BOOLEAN
        /\ backoff' \in BOOLEAN
    BY <1>0, <1>3, <1>l DEF Start, DisplayFound, LaunchOrWait, launchVars, Flags
  <2>2. /\ UNCHANGED <<plugged, playlistDue, displayDue, ipc, suspended, grace, failed, drawDue, rebooted>>
        /\ lastDisplay' = lastDisplay \/ lastDisplay' = TRUE
    BY <1>3 DEF Start, DisplayFound, OnlyStep, worldVars, modeVars, countVars
  <2> QED BY <1>0, <2>1, <2>2 DEF Flags
<1>4. CASE connect \/ RetryPlaylist \/ Redraw
  <2>1. failed' \in BOOLEAN /\ drawDue' \in BOOLEAN
    BY <1>0, <1>4, <1>m DEF connect, RetryPlaylist, Redraw, drawFallback, Flags
  <2>2. /\ UNCHANGED <<plugged, playlistDue, displayDue, everUp, expectExit, shownSinceLaunch, backoff,
                       lastDisplay, suspended, grace, rebooted>>
        /\ ipc' = ipc \/ ipc' = TRUE
    BY <1>4 DEF connect, RetryPlaylist, Redraw, OnlyStep, worldVars, countVars, launchVars
  <2> QED BY <1>0, <2>1, <2>2, ZenonT(60) DEF Flags
<1>5. CASE DisplayGone \/ BackoffOver \/ poll
  <2>1. /\ UNCHANGED <<plugged, playlistDue, displayDue, everUp, shownSinceLaunch, suspended, failed,
                       drawDue, rebooted>>
    BY <1>5 DEF DisplayGone, BackoffOver, poll, stopPlayer, OnlyStep, worldVars, countVars, launchVars
  <2>2. ipc' \in BOOLEAN /\ expectExit' \in BOOLEAN /\ grace' \in BOOLEAN
    BY <1>0, <1>5 DEF DisplayGone, BackoffOver, poll, stopPlayer, dropIPC, clearList, launchVars, Flags
  <2>3. backoff' \in BOOLEAN /\ lastDisplay' \in BOOLEAN
    BY <1>0, <1>5 DEF DisplayGone, BackoffOver, poll, launchVars, Flags
  <2> QED BY <1>0, <2>1, <2>2, <2>3 DEF Flags
<1>6. CASE checkWatchdog \/ GraceOver
  BY <1>0, <1>6, <1>r, ZenonT(60) DEF checkWatchdog, GraceOver, OnlyStep, worldVars, Flags
<1>7. CASE checkNightly
  <2>1. ipc' \in BOOLEAN /\ expectExit' \in BOOLEAN /\ grace' \in BOOLEAN
        /\ backoff' \in BOOLEAN /\ rebooted' \in BOOLEAN
    BY <1>0, <1>7, <1>r DEF checkNightly, countVars, Flags
  <2>2. UNCHANGED <<worldVars, suspended, everUp, shownSinceLaunch, lastDisplay, failed, drawDue>>
    BY <1>7 DEF checkNightly, OnlyStep
  <2> QED BY <1>0, <2>1, <2>2 DEF worldVars, Flags
<1>9. CASE onStartFile \/ onPlaybackRestart \/ onReply \/ SocketClosed
  <2>1. /\ UNCHANGED <<plugged, playlistDue, displayDue, everUp, expectExit, backoff,
                       lastDisplay, suspended, grace, failed, drawDue, rebooted>>
    BY <1>9 DEF onStartFile, onPlaybackRestart, onReply, SocketClosed, OnlyMessage, Quiet,
         worldVars, countVars, launchVars
  <2>2. ipc' \in BOOLEAN /\ shownSinceLaunch' \in BOOLEAN
    BY <1>0, <1>9 DEF onStartFile, onPlaybackRestart, onReply, SocketClosed, Quiet, launchVars, Flags
  <2> QED BY <1>0, <2>1, <2>2 DEF Flags
<1>10. CASE onEndFile
  <2>1. ipc' \in BOOLEAN /\ expectExit' \in BOOLEAN /\ grace' \in BOOLEAN
        /\ backoff' \in BOOLEAN /\ rebooted' \in BOOLEAN
    BY <1>0, <1>10, <1>r DEF onEndFile, countVars, Flags
  <2>2. UNCHANGED <<worldVars, suspended, everUp, shownSinceLaunch, lastDisplay, failed, drawDue>>
    BY <1>10 DEF onEndFile, OnlyMessage
  <2> QED BY <1>0, <2>1, <2>2 DEF worldVars, Flags
<1>11. CASE onIdle
  <2>1. failed' \in BOOLEAN /\ drawDue' \in BOOLEAN
    BY <1>0, <1>11 DEF onIdle, showFallback, drawFallback, Flags
  <2> QED BY <1>0, <1>11, <2>1 DEF onIdle, OnlyMessage, worldVars, countVars, launchVars, Flags
<1>12. CASE TakeRestart
  BY <1>0, <1>12, <1>r DEF TakeRestart, OnlyCommand, Flags
<1>13. CASE TakeSuspend
  <2>1. /\ UNCHANGED <<plugged, playlistDue, displayDue, everUp, shownSinceLaunch, backoff,
                       lastDisplay, failed, drawDue, rebooted>>
    BY <1>13 DEF TakeSuspend, OnlyCommand, countVars
  <2>2. ipc' \in BOOLEAN /\ expectExit' \in BOOLEAN /\ grace' \in BOOLEAN /\ suspended' \in BOOLEAN
    BY <1>0, <1>13 DEF TakeSuspend, stopPlayer, dropIPC, clearList, Flags
  <2> QED BY <1>0, <2>1, <2>2 DEF Flags
<1>14. CASE TakeResume
  <2>1. everUp' \in BOOLEAN /\ expectExit' \in BOOLEAN /\ shownSinceLaunch' \in BOOLEAN
        /\ backoff' \in BOOLEAN
    BY <1>0, <1>14, <1>l DEF TakeResume, LaunchOrWait, launchVars, Flags
  <2>2. lastDisplay' \in BOOLEAN /\ suspended' \in BOOLEAN
    BY <1>0, <1>14 DEF TakeResume, Flags
  <2>3. UNCHANGED <<plugged, playlistDue, displayDue, ipc, grace, failed, drawDue, rebooted>>
    BY <1>14 DEF TakeResume, OnlyCommand, countVars
  <2> QED BY <1>0, <2>1, <2>2, <2>3 DEF Flags
<1>15. CASE takeChanges
  <2>1. CASE displayDue
    BY <1>0, <1>15, <1>r, <2>1 DEF takeChanges, Flags
  <2>2. CASE ~displayDue
    <3>1. failed' \in BOOLEAN /\ drawDue' \in BOOLEAN
      BY <1>0, <1>15, <1>m, <2>2 DEF takeChanges, playlistChanged, Flags
    <3>2. /\ UNCHANGED <<plugged, ipc, everUp, expectExit, shownSinceLaunch, backoff, lastDisplay,
                         suspended, grace, rebooted>>
          /\ playlistDue' = FALSE /\ displayDue' = FALSE
      BY <1>15, <2>2 DEF takeChanges, countVars
    <3> QED BY <1>0, <3>1, <3>2 DEF Flags
  <2> QED BY <2>1, <2>2
<1>16. CASE World \/ UNCHANGED vars
  <2>1. UNCHANGED <<ipc, launchVars, modeVars, rebooted>>
    BY <1>16 DEF World, Send, PlaylistChanged, DisplayChanged, Unplug, Plug, WindowMoves, OnlyWorld,
         vars, countVars
  <2>2. plugged' \in BOOLEAN /\ playlistDue' \in BOOLEAN /\ displayDue' \in BOOLEAN
    BY <1>0, <1>16 DEF World, Send, PlaylistChanged, DisplayChanged, Unplug, Plug, WindowMoves,
         OnlyWorld, vars, worldVars, Flags
  <2> QED BY <1>0, <2>1, <2>2 DEF launchVars, modeVars, Flags
<1> QED BY <1>1, <1>2, <1>3, <1>4, <1>5, <1>6, <1>7, <1>9, <1>10, <1>11, <1>12, <1>13,
           <1>14, <1>15, <1>16 DEF Next, Launching, Probing, ReadMessage, TakeCommand, World

\* The counters of any step: one more or one less, within their bounds.
LEMMA BoundedStep ==
    ASSUME Parts, Next \/ UNCHANGED vars
    PROVE  Bounded'
<1>0. Bounded
  BY DEF Parts
<1>1. changes' = changes \/ (changes < MaxChanges /\ changes' = changes + 1)
  <2>1. CASE MpvPlays \/ MpvTake \/ MpvNext \/ MpvFreeze \/ MpvDie
    BY <2>1 DEF MpvPlays, MpvReady, MpvTake, MpvStartFile, MpvShow, MpvFail, MpvKilled, MpvNext,
           MpvFreeze, MpvDie, Change
  <2>2. CASE Launching \/ Probing \/ BackoffOver
    BY <2>2 DEF Launching, Probing, handleExit, Start, connect, DisplayGone, DisplayFound,
           BackoffOver, LaunchOrWait, launch, Change, loadManifest, showFallback, drawFallback
  <2>3. CASE checkWatchdog \/ GraceOver \/ checkNightly
    BY <2>3 DEF checkWatchdog, GraceOver, checkNightly, Change
  <2>4. CASE poll \/ RetryPlaylist \/ Redraw
    BY <2>4 DEF poll, RetryPlaylist, Redraw, loadManifest, showFallback, drawFallback, Change
  <2>5. CASE ReadMessage
    BY <2>5 DEF ReadMessage, onStartFile, onPlaybackRestart, onReply, onEndFile, onIdle,
         SocketClosed, Quiet, showFallback, drawFallback, Change
  <2>6. CASE TakeCommand
    BY <2>6 DEF TakeCommand, TakeRestart, TakeSuspend, TakeResume, LaunchOrWait, launch, Change
  <2>7. CASE takeChanges
    BY <2>7 DEF takeChanges, playlistChanged, loadManifest, showFallback, drawFallback, Change
  <2>8. CASE World \/ UNCHANGED vars
    BY <2>8 DEF World, Send, PlaylistChanged, DisplayChanged, Unplug, Plug, WindowMoves, OnlyWorld,
           vars, Change
  <2> QED BY <2>1, <2>2, <2>3, <2>4, <2>5, <2>6, <2>7, <2>8 DEF Next, World
<1>2. changes' \in 0..MaxChanges
  BY <1>0, <1>1, PlayerAssumption DEF Bounded
<1>3. faults' = faults \/ (faults < MaxCount /\ faults' = faults + 1)
  <2>1. CASE MpvPlays \/ MpvTake \/ MpvNext \/ MpvFreeze \/ MpvDie
    BY <2>1 DEF MpvPlays, MpvReady, MpvTake, MpvStartFile, MpvShow, MpvFail, MpvKilled, MpvNext,
           MpvFreeze, MpvDie, Faulty, historyVars
  <2>2. CASE Launching \/ Probing \/ BackoffOver
    BY <2>2 DEF Launching, Probing, handleExit, Start, connect, DisplayGone, DisplayFound,
           BackoffOver, OnlyStep
  <2>3. CASE checkWatchdog \/ GraceOver \/ checkNightly \/ poll \/ RetryPlaylist \/ Redraw
    BY <2>3 DEF checkWatchdog, GraceOver, checkNightly, poll, RetryPlaylist, Redraw, OnlyStep
  <2>5. CASE ReadMessage
    BY <2>5 DEF ReadMessage, onStartFile, onPlaybackRestart, onReply, onEndFile, onIdle,
         SocketClosed, OnlyMessage
  <2>6. CASE TakeCommand \/ takeChanges
    BY <2>6 DEF TakeCommand, TakeRestart, TakeSuspend, TakeResume, OnlyCommand, historyVars, takeChanges
  <2>8. CASE World \/ UNCHANGED vars
    BY <2>8 DEF World, Send, PlaylistChanged, DisplayChanged, Unplug, Plug, WindowMoves, OnlyWorld,
           vars, historyVars
  <2> QED BY <2>1, <2>2, <2>3, <2>5, <2>6, <2>8 DEF Next, World
<1>4. faults' \in 0..MaxCount
  BY <1>0, <1>3, PlayerAssumption DEF Bounded, MaxCount
<1>5. \/ restarts' = restarts \/ restarts' = 0
      \/ restarts > 0 /\ restarts' = restarts - 1
      \/ ~RebootDue /\ restarts' = restarts + 1
  <2>1. CASE MpvPlays \/ MpvTake \/ MpvNext \/ MpvFreeze \/ MpvDie
    BY <2>1 DEF MpvPlays, MpvReady, MpvTake, MpvStartFile, MpvShow, MpvFail, MpvKilled, MpvNext,
           MpvFreeze, MpvDie, OnlyMpv, countVars
  <2>2. CASE Launching \/ Probing \/ BackoffOver
    BY <2>2 DEF Launching, Probing, handleExit, Start, connect, DisplayGone, DisplayFound,
           BackoffOver, countVars, countRestart
  <2>3. CASE checkWatchdog \/ GraceOver \/ checkNightly \/ poll \/ RetryPlaylist \/ Redraw
    BY <2>3 DEF checkWatchdog, GraceOver, checkNightly, poll, RetryPlaylist, Redraw, countVars,
           restart, countRestart
  <2>5. CASE ReadMessage
    BY <2>5 DEF ReadMessage, onStartFile, onPlaybackRestart, onReply, onEndFile, onIdle,
         SocketClosed, Quiet, restart, countVars
  <2>6. CASE TakeCommand \/ takeChanges
    BY <2>6 DEF TakeCommand, TakeRestart, TakeSuspend, TakeResume, takeChanges, restart, countVars
  <2>8. CASE World \/ UNCHANGED vars
    BY <2>8 DEF World, Send, PlaylistChanged, DisplayChanged, Unplug, Plug, WindowMoves, OnlyWorld,
           vars, countVars
  <2> QED BY <2>1, <2>2, <2>3, <2>5, <2>6, <2>8 DEF Next, World
<1>6. restarts' \in 0..(RestartsBeforeReboot - 1)
  BY <1>0, <1>5, PlayerAssumption DEF Bounded, RebootDue
<1>7. \/ cmds' = cmds
      \/ cmds # <<>> /\ cmds' = Tail(cmds)
      \/ \E c \in {"restart", "suspend", "resume"} : Len(cmds) < QueueSize /\ cmds' = Append(cmds, c)
  <2>1. CASE MpvPlays \/ MpvTake \/ MpvNext \/ MpvFreeze \/ MpvDie
    BY <2>1 DEF MpvPlays, MpvReady, MpvTake, MpvStartFile, MpvShow, MpvFail, MpvKilled, MpvNext,
           MpvFreeze, MpvDie, OnlyMpv, worldVars
  <2>2. CASE Launching \/ Probing \/ BackoffOver
    BY <2>2 DEF Launching, Probing, handleExit, Start, connect, DisplayGone, DisplayFound,
           BackoffOver, OnlyStep, worldVars
  <2>3. CASE checkWatchdog \/ GraceOver \/ checkNightly \/ poll \/ RetryPlaylist \/ Redraw
    BY <2>3 DEF checkWatchdog, GraceOver, checkNightly, poll, RetryPlaylist, Redraw, OnlyStep, worldVars
  <2>5. CASE ReadMessage
    BY <2>5 DEF ReadMessage, onStartFile, onPlaybackRestart, onReply, onEndFile, onIdle,
         SocketClosed, OnlyMessage, worldVars
  <2>6. CASE TakeCommand \/ takeChanges
    BY <2>6 DEF TakeCommand, TakeRestart, TakeSuspend, TakeResume, takeChanges
  <2>7. CASE \E c \in {"restart", "suspend", "resume"} : Send(c)
    BY <2>7 DEF Send
  <2>8. CASE World \/ UNCHANGED vars
    <3>1. CASE ~(\E c \in {"restart", "suspend", "resume"} : Send(c))
      BY <2>8, <3>1 DEF World, PlaylistChanged, DisplayChanged, Unplug, Plug, WindowMoves, OnlyWorld,
           vars, worldVars
    <3> QED BY <2>7, <3>1
  <2> QED BY <2>1, <2>2, <2>3, <2>5, <2>6, <2>8 DEF Next, World
<1>8. cmds' \in Seq({"restart", "suspend", "resume"}) /\ Len(cmds') <= QueueSize
  <2>1. cmds \in Seq({"restart", "suspend", "resume"}) /\ Len(cmds) <= QueueSize /\ Len(cmds) \in Nat
        /\ QueueSize \in Nat
    BY <1>0, PlayerAssumption DEF Bounded
  <2>2. CASE cmds' = cmds
    BY <2>1, <2>2
  <2>3. CASE cmds # <<>> /\ cmds' = Tail(cmds)
    <3>1. cmds' \in Seq({"restart", "suspend", "resume"}) /\ Len(cmds') = Len(cmds) - 1
      BY <2>1, <2>3, TailIs
    <3> QED BY <2>1, <3>1
  <2>4. CASE \E c \in {"restart", "suspend", "resume"} : Len(cmds) < QueueSize /\ cmds' = Append(cmds, c)
    <3>1. PICK c \in {"restart", "suspend", "resume"} : Len(cmds) < QueueSize /\ cmds' = Append(cmds, c)
      BY <2>4
    <3>2. cmds' \in Seq({"restart", "suspend", "resume"}) /\ Len(cmds') = Len(cmds) + 1
      BY <2>1, <3>1
    <3> QED BY <2>1, <3>1, <3>2
  <2> QED BY <1>7, <2>2, <2>3, <2>4
<1> QED BY <1>2, <1>4, <1>6, <1>8 DEF Bounded

-----------------------------------------------------------------------------
(* PlayingInv.                                                             *)

\* Every step keeps the parts.
LEMMA PartsStep == Parts /\ [Next]_vars => Parts'
<1> SUFFICES ASSUME Parts, Next \/ UNCHANGED vars PROVE Parts'
  OBVIOUS
<1>1. Core'
  <2>0. Core
    BY DEF Parts
  <2> QED BY <2>0, CoreMpv, CoreStep, CoreMessage, CoreCommand, CoreWorld DEF Next, World
<1>2. Quieted'
  <2>0. Quieted
    BY DEF Parts
  <2> QED BY <2>0, MpvQuieted, StepQuieted, MessageQuieted, CommandQuieted, WorldQuieted DEF Next
<1>3. reached' \subseteq Nat
  BY <1>1 DEF Core
<1> QED BY <1>1, <1>2, <1>3, LaunchedStep, FlagsStep, BoundedStep, NamedStep, ResumeStep DEF Parts

\* PlayingInv holds in every state.
LEMMA PlayingHolds == Spec => [](Parts /\ PlayingInv)
BY PartsInit, PartsStep, PartsAre, PTL DEF Spec

\* mpv, the socket, the list and the counters keep their shape: an entry that plays is
\* an entry of its list, a resume point one of its playlist, and no queue overflows.
THEOREM PlayerTyped == Spec => []TypeOK
<1>1. PlayingInv => TypeOK
  BY DEF PlayingInv
<1> QED BY <1>1, PlayingHolds, PTL

\* Whatever lists are loaded while positions are asked for and answered, now_playing
\* names an item that mpv reached since it got this list.
THEOREM NowPlayingSafe == Spec => []NowPlayingIsReal
<1>1. PlayingInv => NowPlayingIsReal
  BY DEF PlayingInv
<1> QED BY <1>1, PlayingHolds, PTL

-----------------------------------------------------------------------------
(* The ladder.                                                             *)

\* mpv failed, and no restart was counted for it yet.
Failing == mpv.frozen \/ (everUp /\ ~expectExit /\ ~mpv.up /\ plugged)

\* One fault is owed exactly while mpv is failing.
LEMMA OwedIs ==
    /\ Owed = (IF Failing THEN 1 ELSE 0) /\ Owed \in {0, 1}
    /\ Owed' = (IF Failing' THEN 1 ELSE 0) /\ Owed' \in {0, 1}
BY DEF Owed, Failing

\* A step that adds no failure and counts none.
LEMMA LadderKept ==
    ASSUME Bounded, Counted, RebootNeedsFaults, faults' = faults, rebooted' = rebooted,
           restarts' \in Nat, restarts' <= restarts, Failing' => Failing
    PROVE  Counted' /\ RebootNeedsFaults'
<1>1. /\ restarts \in Nat /\ faults \in Nat /\ MaxCount \in Nat /\ MaxCount' = MaxCount
      /\ Owed \in Nat /\ Owed' \in Nat /\ Owed' <= Owed
  BY OwedIs, PlayerAssumption DEF Bounded, MaxCount
<1>2. faults = MaxCount \/ restarts + Owed <= faults
  BY DEF Counted
<1>3. \A r, s, o, p, f \in Nat : r + o <= f /\ s <= r /\ p <= o => s + p <= f
  OBVIOUS
<1>4. faults' = MaxCount \/ restarts' + Owed' <= faults'
  BY <1>1, <1>2, <1>3
<1>5. Counted'
  BY <1>1, <1>4 DEF Counted
<1> QED BY <1>5 DEF RebootNeedsFaults

\* mpv fails.
LEMMA LadderFails ==
    ASSUME Bounded, Counted, RebootNeedsFaults, Faulty, restarts' = restarts, rebooted' = rebooted
    PROVE  Counted' /\ RebootNeedsFaults'
<1>1. /\ restarts \in Nat /\ faults \in 0..MaxCount /\ MaxCount \in Nat /\ MaxCount' = MaxCount
      /\ RestartsBeforeReboot = MaxCount
      /\ Owed \in Nat /\ Owed' \in Nat /\ Owed' <= 1
  BY OwedIs, PlayerAssumption DEF Bounded, MaxCount
<1>2. faults = MaxCount \/ restarts + Owed <= faults
  BY DEF Counted
<1>3. \A r, o, p, f \in Nat : r + o <= f /\ p <= 1 => r + p <= f + 1
  OBVIOUS
<1>4. faults' = IF faults < MaxCount THEN faults + 1 ELSE faults
  BY DEF Faulty
<1>5. faults' = MaxCount \/ restarts' + Owed' <= faults'
  <2>1. CASE faults = MaxCount
    <3>1. ~(faults < MaxCount)
      BY <1>1, <2>1
    <3>2. faults' = MaxCount
      BY <1>4, <2>1, <3>1
    <3> QED BY <3>2
  <2>2. CASE faults # MaxCount
    <3>1. faults' = faults + 1 /\ faults \in Nat
      BY <1>1, <1>4, <2>2
    <3> QED BY <1>1, <1>2, <1>3, <2>2, <3>1
  <2> QED BY <2>1, <2>2
<1>6. rebooted' => faults' >= RestartsBeforeReboot
  BY <1>1, <1>4 DEF RebootNeedsFaults
<1> QED BY <1>1, <1>5, <1>6 DEF Counted, RebootNeedsFaults

\* The failure is counted.
LEMMA LadderCounts ==
    ASSUME Bounded, Counted, RebootNeedsFaults, UNCHANGED faults, countRestart, Failing, ~Failing'
    PROVE  Counted' /\ RebootNeedsFaults'
<1>1. restarts \in Nat /\ faults \in 0..MaxCount /\ Owed = 1 /\ Owed' = 0 /\ MaxCount \in Nat
      /\ RestartsBeforeReboot = MaxCount
      /\ MaxCount' = MaxCount
  BY OwedIs, PlayerAssumption DEF Bounded, MaxCount
<1>2. faults = MaxCount \/ restarts + 1 <= faults
  BY <1>1 DEF Counted
<1>3. CASE RebootDue
  <2>1. faults >= RestartsBeforeReboot /\ restarts' = 0
    BY <1>1, <1>2, <1>3 DEF countRestart, RebootDue
  <2> QED BY <1>1, <2>1 DEF Counted, RebootNeedsFaults
<1>4. CASE ~RebootDue
  <2>1. restarts' = restarts + 1 /\ (rebooted' => rebooted)
    BY <1>4 DEF countRestart
  <2>2. faults' = MaxCount \/ restarts' + Owed' <= faults'
    BY <1>1, <1>2, <2>1
  <2>3. Counted'
    BY <1>1, <2>2 DEF Counted
  <2> QED BY <2>1, <2>3 DEF RebootNeedsFaults
<1> QED BY <1>3, <1>4

\* An mpv that was stopped, or just started, did not fail.
LEMMA StoppedIs == ASSUME stopPlayer PROVE ~Failing'
<1>1. mpv' = NoMpv /\ expectExit'
  BY DEF stopPlayer
<1> QED BY <1>1 DEF Failing, NoMpv

\* An mpv that was just started did not fail.
LEMMA StartedIs == ASSUME launch PROVE ~Failing'
<1>1. ~NoMpv.frozen /\ Fresh.up /\ ~Fresh.frozen
  BY FreshIs DEF NoMpv
<1>2. CASE mpv' = Fresh
  BY <1>1, <1>2 DEF Failing
<1>3. CASE mpv' = NoMpv /\ everUp' = everUp /\ expectExit' = (expectExit \/ everUp)
  BY <1>1, <1>3 DEF Failing
<1> QED BY <1>2, <1>3, LaunchIs

\* A restart that is not counted leaves the ladder alone.
LEMMA LadderRestart ==
    ASSUME Bounded, Bounded', Counted, RebootNeedsFaults, NEW at, restart(FALSE, at),
           UNCHANGED <<faults, everUp, plugged>>
    PROVE  Counted' /\ RebootNeedsFaults'
<1>1. UNCHANGED <<restarts, rebooted>> /\ restarts \in Nat /\ restarts <= restarts
  BY DEF restart, countVars, Bounded
<1>2. Failing' => Failing
  BY StoppedIs DEF restart, mpvVars, Failing
<1> QED BY <1>1, <1>2, LadderKept

\* A new list leaves mpv as it is.
LEMMA LoadFailing ==
    ASSUME Core, NEW heard, loadManifest(heard) \/ drawFallback(heard)
    PROVE  mpv'.frozen = mpv.frozen /\ mpv'.up = mpv.up
<1>1. mpv \in Mpvs
  BY DEF Core
<1>2. mpv' = mpv \/ mpv' = [mpv EXCEPT !.now = FALSE]
  BY DEF loadManifest, showFallback, drawFallback, newList
<1> QED BY <1>1, <1>2 DEF Mpvs

\* Every step keeps the ladder.
LEMMA LadderStep ==
    ASSUME "glitch" \notin Events, Parts, Bounded', Counted, RebootNeedsFaults, Next \/ UNCHANGED vars
    PROVE  Counted' /\ RebootNeedsFaults'
<1>0. /\ Core /\ Quieted /\ Launched /\ Bounded /\ mpv \in Mpvs
      /\ restarts \in Nat /\ restarts <= restarts
      /\ ~mpv.up => mpv = NoMpv
  BY DEF Parts, Core, Bounded
<1>n. ~NoMpv.frozen /\ ~NoMpv.up
  BY DEF NoMpv
<1>k. ASSUME UNCHANGED <<faults, rebooted, restarts>>, Failing' => Failing
      PROVE  Counted' /\ RebootNeedsFaults'
  BY <1>0, <1>k, LadderKept
<1>1. CASE MpvReady \/ MpvTake \/ MpvStartFile \/ MpvShow \/ MpvFail \/ MpvNext
  <2>1. UNCHANGED <<faults, rebooted, restarts, everUp, expectExit, plugged>>
    BY <1>1 DEF MpvReady, MpvTake, MpvStartFile, MpvShow, MpvFail, MpvNext, OnlyMpv, worldVars,
         launchVars, countVars, historyVars
  <2>2. mpv'.frozen = mpv.frozen /\ mpv'.up = mpv.up
    <3>1. CASE MpvReady \/ MpvStartFile \/ MpvShow
      BY <1>0, <3>1 DEF MpvReady, MpvStartFile, MpvShow, Mpvs
    <3>2. CASE MpvTake \/ MpvFail \/ MpvNext
      BY <1>0, <3>2 DEF MpvTake, MpvFail, MpvNext, MoveTo, Mpvs
    <3> QED BY <1>1, <3>1, <3>2
  <2> QED BY <1>k, <2>1, <2>2 DEF Failing
<1>2. CASE MpvKilled \/ MpvFreeze \/ (MpvDie /\ plugged)
  <2>1. Faulty /\ UNCHANGED <<restarts, rebooted>>
    BY <1>2 DEF MpvKilled, MpvFreeze, MpvDie, OnlyMpv, countVars
  <2> QED BY <1>0, <2>1, LadderFails
<1>3. CASE MpvDie /\ ~plugged
  <2>1. UNCHANGED <<faults, rebooted, restarts, plugged>> /\ mpv' = NoMpv
    BY <1>3 DEF MpvDie, OnlyMpv, countVars, worldVars
  <2> QED BY <1>3, <1>k, <1>n, <2>1 DEF Failing
<1>4. CASE handleExit
  <2>1. countRestart /\ UNCHANGED faults /\ Failing
    BY <1>4 DEF handleExit, Failing
  <2>2. ~Failing'
    <3>1. CASE launch
      BY <3>1, StartedIs
    <3>2. CASE expectExit' /\ UNCHANGED mpv
      BY <1>0, <1>4, <1>n, <3>2 DEF handleExit, Failing
    <3> QED BY <1>4, <3>1, <3>2 DEF handleExit
  <2> QED BY <1>0, <2>1, <2>2, LadderCounts
<1>5. CASE Start
  <2>1. UNCHANGED <<faults, rebooted, restarts>> /\ launch
    BY <1>5 DEF Start, OnlyStep, countVars
  <2> QED BY <1>k, <2>1, StartedIs
<1>6. CASE DisplayFound
  <2>1. UNCHANGED <<faults, rebooted, restarts, plugged>> /\ (launch \/ UNCHANGED <<mpv, launchVars>>)
    BY <1>6 DEF DisplayFound, LaunchOrWait, OnlyStep, countVars, worldVars
  <2> QED BY <1>k, <2>1, StartedIs DEF Failing, launchVars
<1>7. CASE BackoffOver \/ poll
  <2>1. UNCHANGED <<faults, rebooted, restarts, plugged, mpv, everUp, expectExit>>
    BY <1>7 DEF BackoffOver, poll, OnlyStep, countVars, worldVars, mpvVars, launchVars
  <2> QED BY <1>k, <2>1 DEF Failing
<1>8. CASE DisplayGone
  <2>1. UNCHANGED <<faults, rebooted, restarts>> /\ stopPlayer
    BY <1>8 DEF DisplayGone, OnlyStep, countVars
  <2> QED BY <1>k, <2>1, StoppedIs
<1>9. CASE connect \/ RetryPlaylist \/ Redraw
  <2>1. UNCHANGED <<faults, rebooted, restarts, plugged, everUp, expectExit>>
    BY <1>9 DEF connect, RetryPlaylist, Redraw, OnlyStep, countVars, worldVars, launchVars
  <2>2. mpv'.frozen = mpv.frozen /\ mpv'.up = mpv.up
    BY <1>0, <1>9, LoadFailing DEF connect, RetryPlaylist, Redraw
  <2> QED BY <1>k, <2>1, <2>2 DEF Failing
<1>10. CASE checkWatchdog
  <2>1. countRestart /\ stopPlayer /\ UNCHANGED faults /\ Failing
    BY <1>10 DEF checkWatchdog, restart, Passing, OnlyStep, Failing
  <2> QED BY <1>0, <2>1, StoppedIs, LadderCounts
<1>11. CASE GraceOver \/ TakeRestart
  <2>1. UNCHANGED <<faults, everUp, plugged>>
    BY <1>11 DEF GraceOver, TakeRestart, OnlyStep, OnlyCommand, worldVars, historyVars
  <2>2. restart(FALSE, "next") \/ restart(FALSE, "same")
    BY <1>11 DEF GraceOver, TakeRestart
  <2> QED BY <1>0, <2>1, <2>2, LadderRestart
<1>12. CASE checkNightly
  <2>1. UNCHANGED <<faults, everUp, plugged>>
    BY <1>12 DEF checkNightly, OnlyStep, worldVars
  <2>2. restart(FALSE, "same") \/ UNCHANGED <<mpv, expectExit, restarts, rebooted>>
    BY <1>12 DEF checkNightly, mpvVars, countVars
  <2>3. CASE UNCHANGED <<mpv, expectExit, restarts, rebooted>>
    BY <1>k, <2>1, <2>3 DEF Failing
  <2> QED BY <1>0, <2>1, <2>2, <2>3, LadderRestart
<1>13. CASE onStartFile \/ onPlaybackRestart \/ onReply \/ SocketClosed
  <2>1. UNCHANGED <<faults, rebooted, restarts, plugged, mpv, everUp, expectExit>>
    BY <1>13 DEF onStartFile, onPlaybackRestart, onReply, SocketClosed, OnlyMessage, Quiet,
         worldVars, countVars, launchVars
  <2> QED BY <1>k, <2>1 DEF Failing
<1>14. CASE onEndFile
  <2>1. UNCHANGED <<faults, everUp, plugged>>
    BY <1>14 DEF onEndFile, OnlyMessage, worldVars
  <2>2. restart(FALSE, "next") \/ UNCHANGED <<mpv, expectExit, restarts, rebooted>>
    BY <1>14 DEF onEndFile, countVars
  <2>3. CASE UNCHANGED <<mpv, expectExit, restarts, rebooted>>
    BY <1>k, <2>1, <2>3 DEF Failing
  <2> QED BY <1>0, <2>1, <2>2, <2>3, LadderRestart
<1>15. CASE onIdle
  <2>1. UNCHANGED <<faults, rebooted, restarts, plugged, everUp, expectExit>>
    BY <1>15 DEF onIdle, OnlyMessage, worldVars, countVars, launchVars
  <2>2. mpv'.frozen = mpv.frozen /\ mpv'.up = mpv.up
    BY <1>0, <1>15, LoadFailing DEF onIdle, showFallback
  <2> QED BY <1>k, <2>1, <2>2 DEF Failing
<1>16. CASE TakeSuspend
  <2>1. UNCHANGED <<faults, rebooted, restarts, plugged, everUp>>
    BY <1>16 DEF TakeSuspend, OnlyCommand, countVars, historyVars
  <2>2. stopPlayer \/ UNCHANGED <<mpv, expectExit>>
    BY <1>16 DEF TakeSuspend, mpvVars
  <2> QED BY <1>k, <2>1, <2>2, StoppedIs DEF Failing
<1>17. CASE TakeResume
  <2>1. UNCHANGED <<faults, rebooted, restarts, plugged>>
    BY <1>17 DEF TakeResume, OnlyCommand, countVars, historyVars
  <2>2. launch \/ UNCHANGED <<mpv, launchVars>>
    BY <1>17 DEF TakeResume, LaunchOrWait
  <2> QED BY <1>k, <2>1, <2>2, StartedIs DEF Failing, launchVars
<1>18. CASE takeChanges
  <2>1. UNCHANGED <<faults, everUp, plugged>>
    BY <1>18 DEF takeChanges
  <2>2. CASE displayDue
    BY <1>0, <1>18, <2>1, <2>2, LadderRestart DEF takeChanges
  <2>3. CASE ~displayDue
    <3>1. UNCHANGED <<expectExit, restarts, rebooted>> /\ playlistChanged
      BY <1>18, <2>3 DEF takeChanges, countVars
    <3>2. mpv'.frozen = mpv.frozen /\ mpv'.up = mpv.up
      BY <1>0, <3>1, LoadFailing DEF playlistChanged, mpvVars
    <3> QED BY <1>k, <2>1, <3>1, <3>2 DEF Failing
  <2> QED BY <2>2, <2>3
<1>19. CASE Plug
  <2>1. UNCHANGED <<faults, rebooted, restarts, mpv, everUp, expectExit>> /\ ~lastDisplay
    BY <1>19 DEF Plug, OnlyWorld, mpvVars, countVars, launchVars
  <2>2. everUp => expectExit
    BY <1>0, <2>1 DEF Launched
  <2> QED BY <1>k, <2>1, <2>2 DEF Failing
<1>20. CASE WindowMoves
  <2>1. UNCHANGED <<faults, rebooted, plugged, mpv, everUp, expectExit>>
    BY <1>20 DEF WindowMoves, mpvVars, worldVars, launchVars, historyVars
  <2>2. restarts' \in Nat /\ restarts' <= restarts
    BY <1>0, <1>20 DEF WindowMoves
  <2> QED BY <1>0, <2>1, <2>2, LadderKept DEF Failing
<1>21. CASE \/ \E c \in {"restart", "suspend", "resume"} : Send(c)
            \/ \E l \in Lists \cup {NoList} : PlaylistChanged(l)
            \/ DisplayChanged \/ Unplug \/ UNCHANGED vars
  <2>1. UNCHANGED <<faults, rebooted, restarts, mpv, everUp, expectExit>> /\ (plugged' => plugged)
    BY <1>21 DEF Send, PlaylistChanged, DisplayChanged, Unplug, OnlyWorld, vars, mpvVars, worldVars,
         launchVars, countVars, historyVars
  <2> QED BY <1>k, <2>1 DEF Failing
<1> QED BY <1>1, <1>2, <1>3, <1>4, <1>5, <1>6, <1>7, <1>8, <1>9, <1>10, <1>11, <1>12, <1>13,
           <1>14, <1>15, <1>16, <1>17, <1>18, <1>19, <1>20, <1>21
        DEF Next, MpvPlays, Launching, Probing, ReadMessage, TakeCommand

\* LadderInv holds in every state.
LEMMA LadderHolds == "glitch" \notin Events => (Spec => []LadderInv)
<1> SUFFICES ASSUME "glitch" \notin Events PROVE Spec => []LadderInv
  OBVIOUS
<1>1. Init => Counted /\ RebootNeedsFaults
  <2> SUFFICES ASSUME Init PROVE Counted /\ RebootNeedsFaults
    OBVIOUS
  <2>1. ~Failing /\ restarts = 0 /\ faults = 0 /\ ~rebooted
    BY DEF Init, Failing, NoMpv
  <2> QED BY <2>1, OwedIs DEF Counted, RebootNeedsFaults
<1>2. Parts /\ Parts' /\ Counted /\ RebootNeedsFaults /\ [Next]_vars => Counted' /\ RebootNeedsFaults'
  BY LadderStep DEF Parts
<1>3. PlayingInv /\ Counted /\ RebootNeedsFaults => LadderInv
  BY DEF LadderInv
<1> QED BY <1>1, <1>2, <1>3, PlayingHolds, PTL DEF Spec

\* Where no cable comes back before the supervisor saw it gone, only faults of mpv
\* reach the reboot rung: every counted restart answers a fault of its own, and a fault
\* that is not counted yet is still owed.
THEOREM RebootIsEarned == "glitch" \notin Events => (Spec => []RebootNeedsFaults)
<1>1. LadderInv => RebootNeedsFaults
  BY DEF LadderInv
<1> QED BY <1>1, LadderHolds, PTL

-----------------------------------------------------------------------------
(* The exit rule.                                                          *)

Blaming == BlamedAreOut /\ BlamedOnce

\* A list of the playlist that plays on, and nobody blamed.
LEMMA BlameSame ==
    ASSUME Blaming, want' = want, crashed' = crashed, blamed' = blamed, resumeFrom' = resumeFrom,
           list'.kind = list.kind, list'.name = list.name, list'.order = list.order
    PROVE  Blaming'
BY DEF Blaming, BlamedAreOut, BlamedOnce

\* The files of a list are files of its playlist.
LEMMA ListFiles ==
    Core => (list.kind = "playlist" =>
              \A i \in ToSet(list.order) : /\ Content[list.name][i] \in Files
                                           /\ Content[list.name][i] \in ToSet(Content[list.name]))
<1> SUFFICES ASSUME Core, list.kind = "playlist", NEW i \in ToSet(list.order)
             PROVE  /\ Content[list.name][i] \in Files
                    /\ Content[list.name][i] \in ToSet(Content[list.name])
  OBVIOUS
<1>1. list.name \in Lists /\ i \in DOMAIN Content[list.name]
  BY DEF Core
<1> QED BY <1>1 DEF Files, ToSet

\* A fresh count: want changed, or the fallback screen came.
LEMMA BlameReset ==
    ASSUME Core', blamed' = NoBlame, want' \in Names
    PROVE  Blaming'
<1>1. \A f \in Files : NoBlame[f] = 0
  BY DEF NoBlame
<1>2. list'.kind = "playlist" => \A i \in ToSet(list'.order) : Content[list'.name][i] \in Files
  <2>1. list'.kind = "playlist" => /\ list'.name \in Lists
                                   /\ ToSet(list'.order) \subseteq DOMAIN Content[list'.name]
    BY DEF Core
  <2> QED BY <2>1 DEF Files
<1>3. want' # NoList => \A f \in ToSet(Content[want']) : f \in Files
  <2> SUFFICES ASSUME want' # NoList PROVE \A f \in ToSet(Content[want']) : f \in Files
    OBVIOUS
  <2>1. want' \in Lists
    BY DEF Names
  <2> QED BY <2>1 DEF Files, ToSet
<1>4. BlamedAreOut'
  BY <1>1, <1>2, <1>3 DEF BlamedAreOut
<1>5. BlamedOnce'
  BY <1>1 DEF BlamedOnce
<1> QED BY <1>4, <1>5 DEF Blaming

\* mpv is stopped, and the next load of the same playlist keeps its blamed files out.
LEMMA BlameRestart ==
    ASSUME Parts, Blaming, ~suspended, want' = want, crashed' = crashed, blamed' = blamed, NEW c,
           NEW at, restart(c, at)
    PROVE  Blaming'
<1>1. list'.kind = "none" /\ resumeFrom' = ResumePoint(list, at)
  BY DEF restart, stopPlayer, clearList, NoLoaded
<1>2. list.kind = "playlist" => resumeFrom'.name = list.name
  BY <1>1, ResumeList DEF Parts
<1>3. list.kind = "none" => resumeFrom' = resumeFrom
  BY <1>1 DEF ResumePoint
<1> QED BY <1>1, <1>2, <1>3 DEF Blaming, BlamedAreOut, BlamedOnce

\* The file that ended mpv was not blamed before, and is out from now on.
LEMMA BlameExit ==
    ASSUME NoDarkness, Parts, Blaming, handleExit
    PROVE  Blaming'
<1> DEFINE out == markCrashed(drainOpens)
<1>0. Core /\ want \in Names /\ blamed \in [Files -> 0..2] /\ want' = want
  BY DEF Parts, Named, handleExit, worldVars
<1>1. /\ list'.kind = "none" /\ resumeFrom' = ResumePoint(drainOpens, "next")
      /\ crashed' = crashed \cup out
      /\ blamed' = [f \in Files |-> IF f \in out /\ blamed[f] < 2 THEN blamed[f] + 1 ELSE blamed[f]]
  BY DEF handleExit, clearList, NoLoaded, Blame
<1>2. list.kind = "playlist" => resumeFrom'.name = list.name
  BY <1>1, ResumeList DEF Parts
<1>3. list.kind = "none" => resumeFrom' = resumeFrom
  BY <1>0, <1>1, DrainIs DEF ResumePoint
<1>4. ASSUME NEW f \in out
      PROVE  /\ list.kind = "playlist" /\ list.name \in Lists
             /\ f \in ToSet(Content[list.name]) /\ f \in Files /\ blamed[f] = 0
  <2>1. PICK l : l = drainOpens
    OBVIOUS
  <2>2. /\ l.kind = list.kind /\ l.name = list.name
        /\ list.kind = "playlist" => l.opened \in ToSet(list.order) \cup {0}
    BY <1>0, <2>1, DrainIs
  <2>3. l.kind = "playlist" /\ l.opened # 0 /\ f = Content[l.name][l.opened]
    BY <1>4, <2>1 DEF markCrashed
  <2>4. list.kind = "playlist" /\ l.opened \in ToSet(list.order) /\ f = Content[list.name][l.opened]
    BY <2>2, <2>3
  <2>5. blamed[f] = 0
    BY <2>4 DEF Blaming, BlamedAreOut
  <2>6. list.name \in Lists
    BY <1>0, <2>4 DEF Core
  <2> QED BY <1>0, <2>4, <2>5, <2>6, ListFiles
<1> HIDE DEF out
<1>5. \A f \in Files : f \in out \/ blamed'[f] = blamed[f]
  BY <1>1
<1>6. \A f \in Files : f \in out => blamed'[f] = 1
  BY <1>1, <1>4
<1>7. BlamedOnce'
  BY <1>5, <1>6 DEF Blaming, BlamedOnce
<1>8. ASSUME want # NoList, NEW f \in ToSet(Content[want]), blamed'[f] > 0
      PROVE  f \in crashed' /\ resumeFrom'.name = want
  <2>1. want \in Lists
    BY <1>0, <1>8 DEF Names
  <2>2. f \in Files
    BY <2>1 DEF Files, ToSet
  <2>3. CASE f \in out
    <3>1. list.kind = "playlist" /\ list.name \in Lists /\ f \in ToSet(Content[list.name])
      BY <1>4, <2>3
    <3>2. list.name = want
      BY <1>8, <2>1, <3>1 DEF NoDarkness
    <3> QED BY <1>1, <1>2, <2>3, <3>1, <3>2
  <2>4. CASE f \notin out
    <3>1. blamed[f] > 0
      BY <1>5, <1>8, <2>2, <2>4
    <3>2. /\ f \in crashed
          /\ \/ list.kind = "none" /\ resumeFrom.name = want
             \/ list.kind = "playlist" /\ list.name = want
      BY <1>8, <3>1 DEF Blaming, BlamedAreOut
    <3> QED BY <1>1, <1>2, <1>3, <3>2
  <2> QED BY <2>3, <2>4
<1>9. BlamedAreOut'
  BY <1>0, <1>1, <1>8 DEF BlamedAreOut
<1> QED BY <1>7, <1>9 DEF Blaming

\* The list that goes out has no blamed file.  It is only loaded when mpv does not have
\* the playlist that is wanted.
LEMMA BlameLoad ==
    ASSUME Parts, Parts', Blaming, want' = want, ~(list.kind = "playlist" /\ list.name = want),
           NEW heard, loadManifest(heard)
    PROVE  Blaming'
<1>0. Core' /\ want \in Names /\ want' \in Names /\ ResumeOK(resumeFrom)
  BY DEF Parts, Named
<1>1. CASE blamed' = NoBlame
  BY <1>0, <1>1, BlameReset
<1>2. CASE blamed' # NoBlame
  <2> DEFINE same == resumeFrom.name = want
             out == IF same THEN crashed ELSE {}
             start == IF same THEN resumeFrom.index ELSE 1
  <2>1. want # NoList /\ want \in Lists
    BY <1>0, <1>2 DEF loadManifest, showFallback, drawFallback, Names
  <2>2. /\ crashed' = out /\ blamed' = blamed /\ Rotation(want, start, out) # <<>>
        /\ newList("playlist", want, Rotation(want, start, out), heard)
    BY <1>2, <2>1 DEF loadManifest, showFallback, drawFallback
  <2>3. start \in Nat \ {0}
    <3>1. DOMAIN Content[want] \subseteq Nat \ {0}
      BY <2>1, PlayerAssumption
    <3> QED BY <1>0, <2>1, <3>1 DEF ResumeOK
  <2>4. \A f \in ToSet(Content[want]) : blamed[f] > 0 => f \in out
    BY <2>1 DEF Blaming, BlamedAreOut
  <2> HIDE DEF out, start, same
  <2>5. /\ ToSet(Rotation(want, start, out)) \subseteq DOMAIN Content[want]
        /\ \A i \in ToSet(Rotation(want, start, out)) : Content[want][i] \notin out
    BY <2>1, <2>3, RotationIs
  <2>6. PICK order : order = Rotation(want, start, out)
    OBVIOUS
  <2>7. list'.kind = "playlist" /\ list'.name = want /\ list'.order = order
    <3>1. NoLoaded \in Loaded
      BY DEF NoLoaded, Loaded, Names
    <3>2. list' = [NoLoaded EXCEPT !.kind = "playlist", !.name = want, !.order = order]
      BY <2>2, <2>6 DEF newList
    <3> QED BY <3>1, <3>2 DEF Loaded
  <2>8. ASSUME NEW i \in ToSet(order) PROVE blamed[Content[want][i]] = 0
    <3>1. i \in DOMAIN Content[want] /\ Content[want][i] \notin out
      BY <2>5, <2>6, <2>8
    <3>2. Content[want][i] \in ToSet(Content[want]) /\ Content[want][i] \in Files
      BY <2>1, <3>1 DEF ToSet, Files
    <3>3. ~(blamed[Content[want][i]] > 0)
      BY <2>4, <3>1, <3>2
    <3>4. blamed[Content[want][i]] \in 0..2
      BY <3>2 DEF Parts, Named
    <3> QED BY <3>3, <3>4
  <2>9. BlamedAreOut'
    BY <2>1, <2>2, <2>4, <2>7, <2>8 DEF BlamedAreOut
  <2>10. BlamedOnce'
    BY <2>2 DEF Blaming, BlamedOnce
  <2> QED BY <2>9, <2>10 DEF Blaming
<1> QED BY <1>1, <1>2

\* With neither a suspend nor a cable that goes out, the screen stays on.
LEMMA ScreenStep ==
    ASSUME NoDarkness, Parts, ScreenIsOn, Next \/ UNCHANGED vars
    PROVE  ScreenIsOn'
<1>0. /\ "screen" \notin Events /\ "unplug" \notin Events
      /\ cmds \in Seq({"restart", "suspend", "resume"}) /\ Len(cmds) \in Nat
      /\ \A i \in DOMAIN cmds : cmds[i] = "restart"
      /\ plugged /\ ~suspended
  BY DEF NoDarkness, Parts, Bounded, ScreenIsOn
<1>h. cmds # <<>> => Head(cmds) = "restart"
  <2> SUFFICES ASSUME cmds # <<>> PROVE Head(cmds) = "restart"
    OBVIOUS
  <2>1. Head(cmds) = cmds[1] /\ 1 \in DOMAIN cmds
    BY <1>0, TailIs
  <2> QED BY <1>0, <2>1
<1>1. /\ plugged' = plugged \/ plugged'
      /\ suspended' = suspended
  <2>1. CASE MpvPlays \/ MpvTake \/ MpvNext \/ MpvFreeze \/ MpvDie
    BY <2>1 DEF MpvPlays, MpvReady, MpvTake, MpvStartFile, MpvShow, MpvFail, MpvKilled, MpvNext,
           MpvFreeze, MpvDie, OnlyMpv, worldVars, modeVars
  <2>2. CASE Launching \/ Probing \/ BackoffOver
    BY <2>2 DEF Launching, Probing, handleExit, Start, connect, DisplayGone, DisplayFound,
           BackoffOver, OnlyStep, worldVars
  <2>3. CASE checkWatchdog \/ GraceOver \/ checkNightly \/ poll \/ RetryPlaylist \/ Redraw
    BY <2>3 DEF checkWatchdog, GraceOver, checkNightly, poll, RetryPlaylist, Redraw, OnlyStep, worldVars
  <2>5. CASE ReadMessage
    BY <2>5 DEF ReadMessage, onStartFile, onPlaybackRestart, onReply, onEndFile, onIdle,
         SocketClosed, OnlyMessage, worldVars
  <2>6. CASE TakeCommand \/ takeChanges
    BY <1>h, <2>6 DEF TakeCommand, TakeRestart, TakeSuspend, TakeResume, OnlyCommand, takeChanges
  <2>8. CASE World \/ UNCHANGED vars
    BY <1>0, <2>8 DEF World, Send, PlaylistChanged, DisplayChanged, Unplug, Plug, WindowMoves, OnlyWorld,
           vars, worldVars, modeVars, Change
  <2> QED BY <2>1, <2>2, <2>3, <2>5, <2>6, <2>8 DEF Next, World
<1>2. \/ cmds' = cmds
      \/ cmds # <<>> /\ cmds' = Tail(cmds)
      \/ cmds' = Append(cmds, "restart")
  <2>1. CASE MpvPlays \/ MpvTake \/ MpvNext \/ MpvFreeze \/ MpvDie
    BY <2>1 DEF MpvPlays, MpvReady, MpvTake, MpvStartFile, MpvShow, MpvFail, MpvKilled, MpvNext,
           MpvFreeze, MpvDie, OnlyMpv, worldVars
  <2>2. CASE Launching \/ Probing \/ BackoffOver
    BY <2>2 DEF Launching, Probing, handleExit, Start, connect, DisplayGone, DisplayFound,
           BackoffOver, OnlyStep, worldVars
  <2>3. CASE checkWatchdog \/ GraceOver \/ checkNightly \/ poll \/ RetryPlaylist \/ Redraw
    BY <2>3 DEF checkWatchdog, GraceOver, checkNightly, poll, RetryPlaylist, Redraw, OnlyStep, worldVars
  <2>5. CASE ReadMessage
    BY <2>5 DEF ReadMessage, onStartFile, onPlaybackRestart, onReply, onEndFile, onIdle,
         SocketClosed, OnlyMessage, worldVars
  <2>6. CASE TakeCommand \/ takeChanges
    BY <2>6 DEF TakeCommand, TakeRestart, TakeSuspend, TakeResume, takeChanges
  <2>7. CASE \E c \in {"restart", "suspend", "resume"} : Send(c)
    BY <1>0, <2>7 DEF Send, Change
  <2>8. CASE World \/ UNCHANGED vars
    <3>1. CASE ~(\E c \in {"restart", "suspend", "resume"} : Send(c))
      BY <2>8, <3>1 DEF World, PlaylistChanged, DisplayChanged, Unplug, Plug, WindowMoves, OnlyWorld,
           vars, worldVars
    <3> QED BY <2>7, <3>1
  <2> QED BY <2>1, <2>2, <2>3, <2>5, <2>6, <2>8 DEF Next, World
<1>3. \A i \in DOMAIN cmds' : cmds'[i] = "restart"
  <2>1. CASE cmds' = cmds
    BY <1>0, <2>1
  <2>2. CASE cmds # <<>> /\ cmds' = Tail(cmds)
    <3>1. \A i \in DOMAIN Tail(cmds) : i + 1 \in DOMAIN cmds /\ Tail(cmds)[i] = cmds[i + 1]
      BY <1>0, <2>2, TailIs
    <3> QED BY <1>0, <2>2, <3>1
  <2>3. CASE cmds' = Append(cmds, "restart")
    <3>1. /\ DOMAIN cmds' = 1..(Len(cmds) + 1) /\ DOMAIN cmds = 1..Len(cmds)
          /\ cmds'[Len(cmds) + 1] = "restart" /\ \A i \in 1..Len(cmds) : cmds'[i] = cmds[i]
      BY <1>0, <2>3
    <3>2. \A i \in DOMAIN cmds' : i \in 1..Len(cmds) \/ i = Len(cmds) + 1
      BY <1>0, <3>1
    <3> QED BY <1>0, <3>1, <3>2
  <2> QED BY <1>2, <2>1, <2>2, <2>3
<1> QED BY <1>0, <1>1, <1>3 DEF ScreenIsOn

\* The exit rule over every step.
LEMMA BlameStep ==
    ASSUME NoDarkness, Parts, Parts', ScreenIsOn, Blaming, Next \/ UNCHANGED vars
    PROVE  Blaming'
<1>0. /\ Core /\ Core' /\ want \in Names /\ want' \in Names /\ list \in Loaded
      /\ plugged /\ ~suspended
  BY DEF Parts, Named, Core, ScreenIsOn
<1>h. cmds # <<>> => Head(cmds) = "restart"
  <2> SUFFICES ASSUME cmds # <<>> PROVE Head(cmds) = "restart"
    OBVIOUS
  <2>1. Head(cmds) = cmds[1] /\ 1 \in DOMAIN cmds
    BY TailIs DEF Parts, Bounded
  <2> QED BY <2>1 DEF ScreenIsOn
<1>s. ASSUME want' = want, crashed' = crashed, blamed' = blamed, resumeFrom' = resumeFrom, list' = list
      PROVE  Blaming'
  BY <1>s, BlameSame
<1>1. CASE MpvPlays \/ MpvTake \/ MpvNext \/ MpvFreeze \/ MpvDie
  <2>1. UNCHANGED <<want, crashed, blamed, resumeFrom, list>>
    BY <1>1 DEF MpvPlays, MpvReady, MpvTake, MpvStartFile, MpvShow, MpvFail, MpvKilled, MpvNext,
           MpvFreeze, MpvDie, OnlyMpv, worldVars, historyVars
  <2> QED BY <1>s, <2>1
<1>2. CASE handleExit
  BY <1>2, BlameExit
<1>3. CASE Start \/ DisplayFound \/ BackoffOver \/ poll
  <2>1. UNCHANGED <<want, crashed, blamed, resumeFrom, list>>
    BY <1>3 DEF Start, DisplayFound, BackoffOver, poll, OnlyStep, worldVars, listVars
  <2> QED BY <1>s, <2>1
<1>4. CASE connect \/ RetryPlaylist
  <2>1. want' = want /\ \E heard : loadManifest(heard)
    BY <1>4 DEF connect, RetryPlaylist, OnlyStep, worldVars
  <2>2. list.kind # "playlist"
    BY <1>0, <1>4 DEF connect, RetryPlaylist, MpvRuns, Core
  <2> QED BY <2>1, <2>2, BlameLoad
<1>5. CASE DisplayGone
  BY <1>0, <1>5 DEF DisplayGone
<1>6. CASE checkWatchdog \/ GraceOver \/ TakeRestart
  <2>1. want' = want /\ crashed' = crashed /\ blamed' = blamed /\ \E c, at : restart(c, at)
    BY <1>6 DEF checkWatchdog, GraceOver, TakeRestart, OnlyStep, OnlyCommand, worldVars, historyVars
  <2> QED BY <1>0, <2>1, BlameRestart
<1>7. CASE checkNightly
  <2>1. want' = want /\ crashed' = crashed /\ blamed' = blamed
    BY <1>7 DEF checkNightly, OnlyStep, worldVars
  <2>2. (\E c, at : restart(c, at)) \/ (list' = list /\ resumeFrom' = resumeFrom)
    BY <1>7 DEF checkNightly
  <2> QED BY <1>0, <1>s, <2>1, <2>2, BlameRestart
<1>8. CASE Redraw
  <2>1. blamed' = NoBlame
    BY <1>8 DEF Redraw, drawFallback
  <2> QED BY <1>0, <2>1, BlameReset
<1>9. CASE onStartFile \/ onPlaybackRestart
  <2>1. UNCHANGED <<want, crashed, blamed, resumeFrom>> /\ list' = Opened(list, Head(events))
    BY <1>9 DEF onStartFile, onPlaybackRestart, OnlyMessage, Quiet, worldVars
  <2>2. list'.kind = list.kind /\ list'.name = list.name /\ list'.order = list.order
    <3>1. PICK e : e = Head(events)
      OBVIOUS
    <3>2. list' = Opened(list, e)
      BY <2>1, <3>1
    <3> QED BY <1>0, <3>2 DEF Opened, Loaded
  <2> QED BY <2>1, <2>2, BlameSame
<1>10. CASE onReply \/ SocketClosed
  <2>1. UNCHANGED <<want, crashed, blamed, resumeFrom, list>>
    BY <1>10 DEF onReply, SocketClosed, OnlyMessage, Quiet, worldVars, listVars
  <2> QED BY <1>s, <2>1
<1>11. CASE onEndFile
  <2>1. want' = want /\ crashed' = crashed /\ blamed' = blamed
    BY <1>11 DEF onEndFile, OnlyMessage, worldVars
  <2>2. (\E c, at : restart(c, at)) \/ (list' = list /\ resumeFrom' = resumeFrom)
    BY <1>11 DEF onEndFile
  <2> QED BY <1>0, <1>s, <2>1, <2>2, BlameRestart
<1>12. CASE onIdle
  <2>1. want' = want /\ crashed' = crashed /\ resumeFrom' = resumeFrom
        /\ (blamed' = NoBlame \/ (blamed' = blamed /\ list' = list))
    BY <1>12 DEF onIdle, showFallback, drawFallback, OnlyMessage, worldVars
  <2> QED BY <1>0, <1>s, <2>1, BlameReset
<1>13. CASE TakeSuspend \/ TakeResume
  BY <1>h, <1>13 DEF TakeSuspend, TakeResume
<1>14. CASE takeChanges
  <2>1. want' = want
    BY <1>14 DEF takeChanges
  <2>2. CASE displayDue
    BY <1>0, <1>14, <2>1, <2>2, BlameRestart DEF takeChanges
  <2>3. CASE ~displayDue
    <3>1. \/ crashed' = crashed /\ blamed' = blamed /\ resumeFrom' = resumeFrom /\ list' = list
          \/ /\ ~(want # NoList /\ list.kind = "playlist" /\ list.name = want)
             /\ loadManifest(events)
      BY <1>14, <2>3 DEF takeChanges, playlistChanged, listVars
    <3>2. list.kind = "playlist" => list.name # NoList
      BY <1>0 DEF Core, AboutTheList
    <3> QED BY <1>s, <2>1, <3>1, <3>2, BlameLoad
  <2> QED BY <2>2, <2>3
<1>15. CASE \E l \in Lists \cup {NoList} : PlaylistChanged(l)
  <2>1. PICK l \in Lists \cup {NoList} : PlaylistChanged(l)
    BY <1>15
  <2>2. UNCHANGED <<crashed, resumeFrom, list>> /\ want' = l
        /\ blamed' = IF l = want THEN blamed ELSE NoBlame
    BY <2>1 DEF PlaylistChanged, OnlyWorld, listVars
  <2> QED BY <1>0, <1>s, <2>2, BlameReset
<1>16. CASE \/ \E c \in {"restart", "suspend", "resume"} : Send(c)
            \/ DisplayChanged \/ Unplug \/ Plug \/ WindowMoves \/ UNCHANGED vars
  <2>1. UNCHANGED <<want, crashed, blamed, resumeFrom, list>>
    BY <1>16 DEF Send, DisplayChanged, Unplug, Plug, WindowMoves, OnlyWorld,
           vars, worldVars, listVars, historyVars
  <2> QED BY <1>s, <2>1
<1> QED BY <1>1, <1>2, <1>3, <1>4, <1>5, <1>6, <1>7, <1>8, <1>9, <1>10, <1>11, <1>12, <1>13,
           <1>14, <1>15, <1>16 DEF Next, Launching, Probing, ReadMessage, TakeCommand

\* BlameInv holds in every state.
LEMMA BlameHolds == NoDarkness => (Spec => []BlameInv)
<1> SUFFICES ASSUME NoDarkness PROVE Spec => []BlameInv
  OBVIOUS
<1>1. Init => ScreenIsOn /\ Blaming
  <2> SUFFICES ASSUME Init PROVE ScreenIsOn /\ Blaming
    OBVIOUS
  <2>1. ScreenIsOn
    BY DEF Init, ScreenIsOn
  <2>2. \A f \in Files : NoBlame[f] = 0
    BY DEF NoBlame
  <2>3. blamed = NoBlame /\ list.kind = "none" /\ want \in Lists \cup {NoList}
    BY DEF Init, NoLoaded
  <2>4. want # NoList => \A f \in ToSet(Content[want]) : f \in Files
    BY <2>3 DEF Files, ToSet
  <2>5. Blaming
    BY <2>2, <2>3, <2>4 DEF Blaming, BlamedAreOut, BlamedOnce
  <2> QED BY <2>1, <2>5
<1>2. Parts /\ Parts' /\ ScreenIsOn /\ Blaming /\ [Next]_vars => ScreenIsOn' /\ Blaming'
  BY ScreenStep, BlameStep
<1>3. PlayingInv /\ ScreenIsOn /\ Blaming => BlameInv
  BY DEF Blaming, BlameInv
<1> QED BY <1>1, <1>2, <1>3, PlayingHolds, PTL DEF Spec

\* Where the screen stays on and no two playlists share a file: whatever restarts,
\* freezes and changes come in between, a file that ended mpv stays out of the lists
\* until the playlist changes or the fallback screen comes.
THEOREM BlamedIsOut == NoDarkness => (Spec => []BlamedOnce)
<1>1. BlameInv => BlamedOnce
  BY DEF BlameInv
<1> QED BY <1>1, BlameHolds, PTL
=============================================================================
